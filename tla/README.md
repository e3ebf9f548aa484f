# A formal model of JETH

JETH compiles a TypeScript-shaped contract language to Yul and EVM bytecode. This
directory holds TLA+ modules that model parts of it, the TLC configurations that
check them on small instances, and TLAPS proofs of what holds for every instance.

The compiler is one sequential program. Three things about it are hard. The code it
*generates*: contracts whose storage formats are edited in place, that hand control to
other contracts in the middle of an operation, that may be called back, and whose every
effect disappears when a call reverts; decoders that must survive any calldata. The
*analyses*: passes whose answers depend on the order in which they run, and must agree
with what the emitted code does. And the one part that is concurrent: the Yul cache
that processes and worker threads share on disk.

## Inventory

| Component | Where (`src/src/`) | State | Operations | What makes it correct |
|---|---|---|---|---|
| Array diamond | `diamond.ts` 164-300, `yul.ts` 974-1033, 12502-12631 | routes, facets' selector arrays, facet list, owner, frozen flag | `diamondCut` (Add, Replace, Remove, `_init`), `transferOwnership`, `freezeDiamond`, router, loupe | five fields stay one table; a reverted cut leaves nothing; frozen is final |
| Packed diamond | `diamond.ts` 313-363, `yul.ts` 12646-12857, 13051-13188 | records, packed selector slots, count | the same, with slot and count in locals during a cut | as above, across slot boundaries |
| Solidstate diamond | `diamond.ts` 365-457, `yul.ts` 12527-12541, 12869-13045 | the same, a nominee and a fallback address | the same, two-step ownership, `setFallbackAddress` | as above, although emptied slots keep what they held |
| Reentrancy guard | `yul.ts` 140-149, 1182-1403 | one transient word per contract | enter, reset, roll-back | mutual exclusion of guarded bodies, no lock-out |
| Proxies, UUPS, beacon | `yul.ts` 873-973, 12460-12485, 13190-13372 | implementation, admin and beacon slots, events | deploy, upgrade, delegate, migrate | code behind every route, events tell the truth, admins decide |
| Storage bytes and strings | `yul.ts` 13951-14184 | length word, data slots | push, pop, set, copy, clear | a sequence of bytes; unused slots are zero |
| Storage arrays, aggregates | `yul.ts` 2220-2640, 6269-6640, 8072-8640 | length, elements | push, pop, assign, delete, copy | a value of its type; no residue behind a length |
| Layout | `layout.ts`, `analyzer.ts` 8897 | slots | pack fields, place namespaces | lanes of their own, where Solidity puts them |
| Calldata decoders | `yul.ts` 1200-1303, 5800-6200, 13586-13950 | a place in calldata | bind, index, slice, read fields | nothing outside calldata is taken for a value, modulo 2^256 |
| Codecs, memory allocator | `yul.ts` 7530-7830, 9900-10810 | free memory pointer | decode, build an image, encode | what leaves is the canonical encoding of what arrived |
| Checked arithmetic | `yul.ts` 14732-14990 | none | one helper per operator and width | panics exactly when the result does not fit |
| Expressions, constants | `analyzer.ts` 28600-30200 | none | common types, conversions, three folders | a folded constant is what the code would compute |
| Inheritance | `analyzer.ts` 3502, 5368-6400, 17854 | class graph | linearize, resolve overrides, super | C3 order; one most-derived version, substitutable for the others |
| Effects, mutability | `analyzer.ts` 4242-4812 | effects by function and by pointer signature | specializations, fixpoint, checks | what the ABI denies never happens |
| Emission | `analyzer.ts` 4816-5307, `yul.ts` 3342 | sets of functions and ids | collect, split libraries, dispatch | every call and pointer finds its function |
| Modifiers, constructors | `analyzer.ts` 7000-8034, 10397-10721, `yul.ts` 2823 | blocks of statements | wrap, outline, merge the chain | the program runs as its source means |
| Import bundler | `imports.ts`, `compile.ts` 160-300 | visited files, stack | depth-first bundling, renaming | every file once, dependencies first, names keep their meaning |
| Member scopes | `compile.ts` 300-790, `analyzer.ts` 4122, 13961 | shadows of names | pre-pass, shadow, cross-scope gate | several files behave as one |
| solc driver | `solc.ts` | a map and a directory of files | compile, read and write the cache | a cached result is the result; every call answers |
| Not modelled | parser, validator, type resolver, IR, ABI, command line, harness, clones, external calls, the routes of `compile.ts` | | | see the end |

How they interact: `compile.ts` drives bundler, parser, validator and analyzer, which
produce an IR; `diamond.ts` expands a `@diamond` class into source text that takes the
same way; `yul.ts` prints the IR as Yul, and `solc.ts` compiles it. The generated
contracts interact through calls and delegatecalls only: they share a storage when one
delegates to another, and the EVM undoes what a reverting call has written.

Hard behaviours, by hazard kind in `PROJECT.json`: (1) calls that come back while an
operation is half done (`_init` of a cut, migration and initialization data, a UUPS
gate, any external call of a guarded body, an index expression); (2) reverts at any
depth, caught or not; (3) storage formats edited in place with locals that run ahead of
the storage; (4) boundaries: packed words, wrapping sums, hostile lengths and offsets;
(5) legal sequences of calls that end in a state nobody can leave; (6) results of one
pass that a later pass makes stale; (7) crashes, failing writes and a deleted directory
under the cache. There are no timers and no messages, hence no timeouts and no delivery
faults.

## Modules

| Module | Models |
|---|---|
| `DiamondRegistry` | the promise of every diamond: a table from selectors to facets, edited one selector at a time inside calls that may be undone |
| `DiamondArray` | `@diamond('array')` |
| `PackedDiamond`, `DiamondPacked`, `DiamondSolidstate` | what the two packed diamonds share (slots, loops of a cut, loupe scan), and each of them, `DiamondSolidstate` as what differs from `DiamondPacked` |
| `ReentrancyGuard` | `@nonReentrant` |
| `Proxies` | `@proxy` in its four uses, `@uups`, `@beacon` |
| `ByteString`, `StorageBytes` | the promise of a `bytes` variable and its storage forms |
| `NestedValues`, `StorageArrays` | values of every storage type; statements on them in slots and lanes |
| `StorageLayout`, `LayoutPlanner` | slots and sizes of types; the plan of a contract's variables |
| `CalldataSlices` | bounds-checked decoding of parameters, elements, fields and slices |
| `AbiCodec` | the recursive codecs between calldata, memory images and blobs |
| `WordArithmetic`, `TypeRules`, `Expressions`, `ConstantFolding` | the helpers on words; common types; registers under operators; the three folders |
| `Inheritance`, `MemberScopes` | one signature of a hierarchy; one name of several classes and files |
| `EffectInference`, `Emission` | effects and mutability; which functions end up in which object |
| `Modifiers`, `ModifierWraps`, `Constructors` | the IR's statements; modifiers around a body; the merged constructor |
| `ImportBundler` | `bundleImports` and the renaming of its result |
| `CompileService`, `YulCache` | what callers of `compileYul` are promised; the cache on disk |
| `MCDiamondArray`, `MCPackedDiamonds`, `MCContracts`, `MCStorage`, `MCCompile`, `MCAnalyzer`, `MCEffects`, `MCValues`, `MCByteData`, `MCBodies` | model values, bounds and inputs for TLC; each puts the models of one subject into one run, where the variable `scenario`, chosen once, says which of them moves |
| `DiamondArrayProofs`, `DiamondPackedProofs`, `ContractsProofs`, `ByteDataProofs`, `CompileProofs`, `EffectsProofs`, `InheritanceProofs` | theorems; `ContractsProofs` is about `ReentrancyGuard` and `Proxies`, `ByteDataProofs` about `StorageBytes` and `CalldataSlices`, `CompileProofs` about `YulCache`, `ImportBundler` and `MemberScopes`, `EffectsProofs` about `EffectInference` and `Emission` |

### Diamonds

`store` is the diamond's storage, one record field per declared field. `frames` are the
calls that run, outermost first; each keeps `snap`, the storage that the EVM restores if
it reverts, and the locals of `diamondCut`. A step is one iteration of an inner loop
(`AddSelector`, `ReplaceSelector`, `RemoveSelector`), the head of an outer iteration
(`StartAddOrReplace`, `StartRemove`), or the end of the call (`FinishCut`, or
`DelegateInit` when there is an `_init`). Nothing can interleave with the loops, so the
grain serves the properties that must hold *within* a cut and lets TLC choose the
calldata word by word as it is read. A failing `require` is `CallReverts`, which is
possible after every step, so every prefix of a cut can be undone. Once `_init` or a
facet runs (`phase = "ext"`) it may call the diamond again, up to `MaxDepth`.
Assumption: code that a diamond delegates to writes the diamond's own fields only by
calling the diamond; EIP-2535 facets that write foreign storage break any diamond.
`supportedInterfaces`, written by the constructor only, and the events, which copy
calldata, are left out.

### Contracts that call one another

*Guard*: `tslot[c]` is the guard word of contract `c`, `frames` the running calls. A
frame goes through `decode`, `body` and, if guarded, `reset`; it runs in the transient
storage of `context`, which for a delegatecall is that of the caller. `Reverts` restores
the words the frame found; the last frame's end wipes them.

*Proxies*: `store` holds, for each proxy and beacon, whether it has code yet, its
implementation, the last one it announced, and its admin or owner. `calls` are delegated
calls. The copies of the upgrade sequence in `yul.ts` (`lowerProxyMutate`,
`emitTransparentAdminUpgrade`, `emitUupsEntry`, and without migration `emitBeaconEntry`)
are `Upgrade` and `UpgradeBeacon`. Migration data that fail take the whole upgrade with
them, which is why the migration's frame keeps the image of the upgrade's start.
`authorizeUpgrade` and a plain proxy's own entry are user code, modelled as the guide
writes them (the owner, or `proxyAdmin()`, may).

### Bytes, arrays and values in storage

`header` of `StorageBytes` is the word at the slot: `tail` its last byte when the value
is inline (`2 * len`) and the whole number when it is long (`2 * len + 1`), `inline` its
leading bytes. `data` are the words from `keccak256(slot)` on, byte by byte, so that the
code's `div` and `mod` by 32 name one index. Each helper (`jeth_str_push` and the
others) is one action, split into its `switch` branches; `junk` is what memory holds
behind the value that is stored; `last` names the operation, its arguments and answer,
which is what `ByteString` constrains. An indexed read takes two steps because its index
expression is arbitrary code: between `StartRead` and `FinishRead` any operation may run
on the same value. Not modelled: how a path of fields, keys and indices finds the slot.

`StorageArrays` has a variable of any nested type in slots of a few lanes, and beside it
the value Solidity would hold. A statement pushes, pops, assigns, deletes or clears any
part of it, from a value given, built in place, or kept elsewhere in storage, whose
evaluation may grow or shrink the variable. `LayoutPlanner` lays declarations out one by
one. Left out: enum checks, the panic at 2^64 elements, calldata sources other than
arrays of values, delete of a memory local.

### Calldata and codecs

`CalldataSlices` has one variable, `at`: what a program holds of its calldata, a value
with a kind, a pointer, a length and a type. A step binds a parameter or takes an
element, a field or a slice of what it holds, through one of the decoder helpers; the
words read are free, so a behaviour is a program against the worst calldata. Arithmetic
wraps at `M = 2 * Half`, comparisons are signed or unsigned as in the code. Three widths
are scaled down together and tied by `WordsAssumption`: a length is capped so that its
product with a stride cannot wrap (`2^64 - 1` against `2^256`).

`AbiCodec` runs a codec on an input with one corrupted word or a cut end: memory is
bytes, a word two digits, `st.fp` the free pointer. Selector bytes, the allocations made
before a codec starts and codecs from and to storage are left out.

### Words and constants

`WordArithmetic` has every operator of a value type on words of a few bytes, checked and
unchecked; `Expressions` sends a register through chains of them. `ConstantFolding`
grows a constant expression one operator at a time and compares the three folders of the
analyzer with each other and with the code that would be emitted. Left out: brands,
comparisons of strings and bytes, the bytesN(bytes) casts, order of evaluation,
unchecked `**`; enum, bytesN, address, string and boolean constants, fractional literals
and ternaries.

### Names, classes and bodies

`ImportBundler` walks files as `visit` does, one step per import statement and check; a
file is its imports, its names and what is wrong with it. A name is a spelling and the
scopes put before it: `$m1$X` is `<<"X", <<1>>>>`, so that a program which spells a
reserved name is told from one that is renamed. When the verdict is "bundled" the texts
are joined file by file (`LaySegment`), and `Origin` reads the segments as
`remapDiagnostics` does. Path normalisation and ambiguous keys are left out, and the
host's call stack is a bound on the depth of the walk (`MaxDepth`). `MemberScopes` has the
names that members, files and imports share; what a class extends (`ChainOf`) is the
least set closed under bases. `Inheritance` has one function signature of a hierarchy,
with an overriding variable. `linearize` is a stack of the classes begun (the set `stack` and
the calls of `c3` in one) and `memo`, `c3Merge` what is left of its sequences and what it
has put out, one turn of its loop a step; each judgement that follows is one step.
Mutability, modifiers, overloads and variables that override nothing are left out of it.
`EffectInference` replays the passes over the bodies, the sweeps and the checks in their
order; `Emission` the collections that follow, with one pointer signature. What the
passes before them have made sure of is `WellFormed` and `WellFormedContract`, each line
with the comment or the diagnostic of the code that says so. `Modifiers`
is the small statement language of the IR that `ModifierWraps` and `Constructors` lower
to and run: conditions are answered by oracle bits, marks record what ran with which
values. Generic modifier templates, overriding of modifiers, aggregate returns and field
initializers are left out.

### The Yul cache

One process or worker thread is in one call of `compileYul` at a time; a step of it is a
file system call. `disk` is what a crash leaves. A process may be killed, the power may
fail (a renamed file may then be torn), a write may fail, the directory may be deleted,
solc may be upgraded between calls. Which callers share a pid, as the threads of a
process do, is fixed when they start (`pidOf`). What solc makes of a source is an uninterpreted
function of source and version. `CompileService` promises each caller that answer.

## Runs

Ten runs must pass; two must find the violation that a finding describes. A run joins
the models of one subject; its scenarios stay apart (`scenario` never changes), so a
run's properties speak of every scenario they apply to. Deadlock is checked in
`contracts` and `compile`, which always have a next call; in the others a behaviour may
really end (a renounced diamond without facets, an analysis that is done, a value with
no part left to take).

| Run | Instance | Shows |
|---|---|---|
| `diamond_array` | 3 selectors (one the diamond's own), 2 facets; with calls inside calls one facet and one routed selector (`NestedCallsAreSmall`) | the five fields are one table after every step of every cut; the loupe reports what is routed; frozen and immutable routes stay; `DiamondRegistry` is implemented |
| `packed_diamonds` | cuts: 3 selectors with `0x00000000`, 2 to a slot; nested: depth 2, fewer selectors; each scenario takes its steps from an instance with its own bounds, and `RolesSettled` keeps nominees and fallback addresses to the nested one | records, slots, count and loupe agree across slot boundaries and in the middle of cuts; no residue in records or slots; both implement `DiamondRegistry` |
| `contracts` | guard: 2 contracts, depth 5; upgrades: a transparent and a UUPS proxy, 2 implementations; proxy targets: the same proxies, each of which may be named as an implementation, and a beacon, depth 4; beacons: a plain proxy, a beacon and its proxy, an address without code; depth 5 | mutual exclusion and the meaning of the guard word; routes have code and are announced; who moves an implementation; a UUPS proxy leaves the code with an upgrade entry only for a proxy that answered for such code |
| `storage` | statements: 14 types in slots of 4 lanes, with bounds of their own (`Bounds`); planner: 4 variables of 12 types | nothing is left behind a length or a deleted part; a statement does to its target what it says and nothing to the rest; variables are where Solidity puts them |
| `compile` | imports: every graph over four files, flawed files, two names in two or three files; processes: 2 callers with one input, of which one may upgrade solc (`TwoProcesses`); threads: one pid, 2 inputs (`TwoThreads`) | a program is bundled when it should be, each file once and in its place, and lines are told where they were written (`BundleIsDue`); names mean what their files say; the cache answers as assembling would; calls and walks end |
| `analyzer` | units of three classes in two files; hierarchies of four classes with up to two bases and of five with up to three, and fixed shapes with every small version of `f` | a name is rejected and raised as in one file; C3; the winner is substitutable for what it overrides and dominates where no definition is hidden |
| `effects` | four families of three or four functions with recursion, two pointer slots, overriding and generic heads; contracts of two functions and a generic beside two libraries | no function of an accepted contract does what its ABI, the ABI of what it overrides or its being an accessor denies (`MutabilityHonest`); effects are the least ones and the reasons given for them true (`EffectsExact`); every object holds what its code calls and nothing else (`ObjectsComplete`), and every pointer finds its function (`PointersDispatch`) |
| `values` | registers: words of three bytes of 2 bits, every integer, bytesN, enum and address type; constants: expressions of depth 2 with values up to 12 | every operator answers the exact result or panics; packed stores keep their neighbours; folders and code agree |
| `byte_data` | storage: words of 3 bytes, values up to 5; calldata: 5 sizes up to 20 bytes, 14 types, words from everything around 0, the sizes and the signs; codec: 15 types, every word corrupted in 8 ways, ends cut | `bytes` are sequences and their storage is clean; nothing outside calldata is held; accepted input is there, and what leaves is its canonical encoding |
| `bodies` | modifiers: every body of up to three statements with loops and returns, two layers; lines: three constructors with every way to give arguments; returns: the same with modifiers and early returns | a wrapped body and a merged constructor do what the source means under every answer to their conditions |
| `codec_pointers` | a struct with a fixed array of structs | **violated**, see Findings |
| `constructor_crossed` | a chain of four with two bases | **violated**, see Findings |

Why the bounds are enough. *Selectors and facets*: swap-and-pop involves the removed
element, the last one and one more; a facet list the same. *Slots*: the code uses 8
selectors to a word; 2 is the smallest number with a first and a last place, and three
selectors fill one slot and half of the next, so cuts cross the boundary both ways.
*Depth*: a call inside a call shows every interference of two cuts; guard and proxies
are small enough for 5. *Bytes*: with three bytes to a word lengths 0 to 2 are inline, 3
fills one word, 4 and 5 reach into a second, so both directions of every change of form
and of word count occur. *Lanes*: four hold one, two or three small values, or an
address and a flag. *Calldata*: 20 bytes hold a head, an offset, a length and two
elements of the widest type; offsets and lengths are taken at and around 0, the sizes,
the cap and both ends of the signed range, which is where a comparison or a sum can go
wrong. *Words*: three bytes of two bits give a narrow, a middle and a full type of each
sign. *Classes*: the smallest hierarchies whose C3 merge fails have four classes.
*Cache*: two callers suffice for a race on one file. `MaxSelectors` keeps the 16-bit
count of the packed diamonds far from its wrap.

Symmetry is used for accounts, facets, selectors and contracts that no property names,
and in no run with a liveness property.

Fairness: `compile` assumes `WF(BundlerStep)` and `WF(CallerStep(p))`: compiling is
synchronous code, which goes on when the operating system schedules it and does not kill
it. Nothing is assumed of new calls, kills, power losses or `RemoveDir`. The other runs
state safety only and assume no fairness: a contract does nothing unless it is called.

## Proofs

`DiamondArrayProofs` proves every property of the run `diamond_array`, for every set of
selectors and addresses and every depth: `IndexesConsistent` (with its parts
`SelectorsIndexed`, `NoStaleFacet`, `NoResidue`, `RoutedFacetsHaveCode`,
`PositionTracksLength` and types), `LoupeMatchesRouter`, `RoutesKept`, and that
`DiamondArray` implements `DiamondRegistry`. None of the invariants is inductive alone.
`Inv` says of the storage *and of every image in `frames`* that index and arrays are
inverse, that the facet list holds exactly the facets with selectors (save the one
`StartAddOrReplace` has just listed), that cleared entries are zero and that every facet
with selectors has code; and of the running frame that its position local is the length
of its facet's array. The images are needed for `CallReverts`, the pending facet for the
gap between `__addFacet` and the first selector. `LoupeMatchesRouter` follows: an entry
of `facets()` that shows a selector stands at the place the index has for it.
`RoutesKept` speaks of `Committed`, the storage if everything that runs were reverted;
it needs `CommittedIsKept`: along the stack, each image keeps what the one below has
frozen or made immutable. So the two facts a single step cannot see, that a reverted
call may undo a freeze and that a frame which started before it may still be cutting,
are settled once for all steps. A lemma for each storage helper, one for each action.

`DiamondPackedProofs` is about both packed diamonds, for any selectors, any number of
them to a slot and any depth. Of each it proves types, `SelectorsIndexed`,
`LoupeMatchesRouter`, `NoResidue`, `RoutedFacetsHaveCode`, `StorageIsTidy`, that it
implements `DiamondRegistry`, `FrozenForever` and `ImmutableSelectors`; of `DiamondPacked`
besides `TrailingSlotsEmpty`. `Table` says
that records and slots are inverse of one another, that cleared records are zero and that
routed facets have code; `Inv` asks it of every image in `frames`, and of the running
storage *through the locals of the cut*: with the count and the slot that `diamondCut`
holds (`View`). It is one invariant of the steps of both (`Step`, `StepInv`), because it
asks nothing of the places past the count, where the two differ: Solidstate leaves what
it emptied, and its local slot may still hold the previous one. `Cleared`, an invariant
beside it, says for `DiamondPacked` alone that slots past the count are zero and that the
local slot is zero when the count stands at a boundary. The proof has
three layers: division into slots and places (`NextPlace`, `SlotsPast`); what adding and
dropping a place does to the slots as seen (`AppendView`, `DropView`, the latter for a
gap in the local slot or in a stored one, and for a last selector on either side of a
boundary); and what the edits do to a table (`TableAdd`, `TableRemove`), which no longer
knows of slots. The loupe's entry for a selector is its place on record under the first
place of its facet, a least number.

`ContractsProofs` proves the three properties of `Proxies`. A revert brings back a storage
saved when a frame started, so `StackInv` speaks of all of them: each is sound (what is
deployed routes to code, announcements agree) and akin to the running one (the same
contracts, the same admins, and a slot that moved since was moved by a transaction of
its admin). A constructor that runs initialization data is the outermost frame, and its
proxy is ready although it has no code yet. Every step keeps a prefix of the stack and
puts at most one frame on it (`Stepped`). `StaysUpgradeable` holds of every deployment,
those that name a proxy as an implementation included: the generated `proxiableUUID()`
answers when delegated to, so a candidate passes if it has the upgrade entry or is a live
proxy that resolves to code that has. Two invariants carry that past reverts. `Steady`:
the running storage and every saved one agree on which deployed proxies name such an
implementation or a proxy (`Acceptable`), and only of such proxies an upgrade entry runs.
`Asleep`: a proxy that named a proxy when a frame started has named the same one since,
for nothing runs in it that could change it; so no revert moves a proxy from an @uups
implementation back to a proxy that may not answer any more.
That such a proxy is enough for the next upgrade is what the code does not guarantee, see
`NeverBricked` in Known divergences.

For the guard it proves `MutualExclusion` and `LockedIffInside` for any contracts
and any depth. Neither is inductive: a revert brings back a word saved when the frame
started, which is right only because the frames below have stood still since. The
invariant says that every frame below the top is in its body and that every saved image
is right for the frames below it; `ShapeInv` proves it for the shape of every step once.

`ByteDataProofs` proves the properties of `StorageBytes`, for every word of two
bytes or more, every set of bytes with a zero in it, every longest value and every set of
assigned values: types, `CanonicalHeader`, `NoResidue` (together `StorageIsClean`), the
two properties of reads, and the refinement to `ByteString`. `Good` says of a header and
its data words that they are typed, canonical and clean; the invariant asks it of the
storage in place and of the one a read has saved, which a panic may restore. Each
operation has one lemma that it leaves a good storage and one on the sequence it leaves.

It also proves `CalldataIsBounded` for every word width, cap and table of
types, every size of calldata and every choice of its words, hence for programs of any
length over any calldata; and two action properties, that an element read from an array
lies inside calldata (`ElementReadable`) and that a slice lies inside its array
(`SliceNarrows`). The invariant, `GoodValue`, is of one value: where its length is not zero,
the pointer plus the bytes it covers does not pass the end, as *integers*. What makes it
inductive is that a length was read *inside* calldata: then the pointer is small, and no
later sum wraps. An empty value and a tuple may stand anywhere. Each decoder has a lemma
that it answers a good value or reverts. The product `len * stride` is kept an opaque
bounded natural: `Product` is the only step that multiplies. Assumed: the widths are far
enough apart that the sums of the code do not wrap (true of `2^64 - 1` and `2^256`),
and that types are what the type resolver makes (a `bytes` or an array without a length
is dynamic, a dynamic fixed array has dynamic elements).

`CompileProofs` proves that the cache implements `CompileService` for any callers,
inputs and versions, with any sharing of pids: a call answers what assembling its own
input would (`AnswersAsAssembled`), and `CacheIsSound`: no key answers with another's
result (`NoForeignResult`), and, where callers have pids of their own, a published file
is torn by a power loss only (`RenamePublishesWhole`). `IInv` adds that a temporary file
that parses is its key's result, and that a caller past `Assemble` was not rejected;
`OwnFiles` that a file is filled by one caller at a time.

It also proves both safety properties of the bundler, for every program: any files, any
import graph, any names. `BundleIsDue` compares a depth-first walk that stops at the
first thing it does not like with rules about the whole graph. `Walk` says what the walk
holds: files on the stack (but one just entered) differ, each is half-way through
imports of files that are done, and waits for the one above it; a file that is done has
its imports bound, and they are before it in `order`. `Traced` says that all of them are
reached from the entry, and each file on the stack from those below it, so that a file
met again is on a cycle (`CycleIsCyclic`). `Judged` turns that into verdicts: a rejection
needs a rule that is broken (`NotRejected`, `NothingStray`). Conversely what is done when
the stack is empty is closed under imports, hence all that is reached, and the files
before one in `order` hold all that is below it, hence no cycle (`BundledIsWellFormed`).
`Laid` says that segments follow one another and cover the text. `StackFits` bounds the
depth of the walk by the number of files, so that a stack that fits those never
overflows: `DepthAssumption`. For `NamesMeanTheirFiles` the facts are that indices of
files are their own (`DepIndexFacts`), that nobody imports the entry, which is not
renamed (`TargetFacts`), and that no name of the sources is spelt like a renamed one, so
that a scoped name has one reading (`ScopedFacts`). The two cases the property leaves
open (a name the file also binds locally, a declaration nested in a block) stay open.

Of member scopes it proves both properties for every unit, with any number of classes,
members and imports. `RejectsAsOneFile` rests on one fact: the analyzer's gate sees a
name exactly when the entry declares it, and then nothing else of that name is in scope
(`GateSees`); so the pre-pass and the gate share the collisions of the one file out
between them (`CollisionsSplit`). `RaisesAsOneFile` needs that a name which some class at
or above `c` declares was judged in `c`'s file (`ScopeOfReference`), which holds because
a class of the dependency extends only the dependency's (`DependencyExtendsOwn`), and
that the shadow reaches exactly the classes over first bases written without arguments
(`ShadowFollowsPlain`), all of which are in the chain: then a shadow that changes the
meaning of a raise is a collision, which lifts it, and a raise that needs one and has none
is of a member error inherited in no such way (`LosesMember`). So the property covers every
hierarchy and says which raises go wrong, no more and no less.

`EffectsProofs` proves the four properties of the run `effects`, for any number of
functions, slots, signatures and libraries and every well-formed program over them. The
inference is right because of what each pass leaves to the next, so its invariant is one
predicate per pass. `Collected`: every body is checked once, every generic that a
deployed body calls is registered or queued, and `taken` is exactly what deployed bodies
take. `Swept`: while a sweep has changed nothing, what it has visited is closed, so at
its end everything is; and the effects held are below every set closed under the calls,
so they are the least. `Explained`: a function that writes without reserve has a chain
of direct calls to a body that writes, and one that blames a pointer has one to the
function that holds it. `Settled`: mutabilities and diagnostics are functions of the
effects. What an accepted function may do at run time (`RunReach`, through exact targets,
open slots and stored pointers) is then inside what the sweeps followed: `SlotReach`
over-approximates what a slot holds (`MayHoldReached`), a slot that is not `Known` is
followed by its signature, and an address is in its group if a deployed body takes it
(`RunCallsReached`). Two conditions are part of the property because the code needs
them: `PointersSeen` (see Known divergences) and, for replaced heads only, `HeadsSeen`.
The latter was found by the proof: a head that binds an address nobody else takes to a
pointer also bound to something unknown can run that function, and no group has it.

For the emission the invariant is `Gathered`: every checked body's internal calls and
addresses are registered, the call graph has exactly the calls of the checked bodies,
and every generic they call is checked or queued. `Spawned` says that a checked generic
is one the contract's own functions lead to: the worklist is drained before the
constructor and the special entries are checked. With `OwnReached`, that the contract
keeps what those functions lead to, both properties are exact for every contract: an
object misses a function that its code calls, or its dispatcher one that its code takes,
if and only if the function is `Lost` (`KeptUnlessLost`), which names the two ways in which
the passes leave functions out, see `GenericsChecked`, `InlinedStays` and `TakenEmitted` in
Known divergences.
Reachability is stated in both modules as membership in every closed set, so that a
proof about it exhibits a set; no induction is needed.

`InheritanceProofs` proves, for every hierarchy of any number of classes with any lists of
bases, that the analyzer's linearization is C3 (`LinearizesAsC3`) and that accepted
overrides are substitutable (`OverridesSubstitutable`) and that one version dominates
(`OneVersionDominates`). A merge is right because of what
holds between its turns: `Merged` says of each sequence that a part in front of it is in
the output, in its order, and that what is left is all the rest (`MergedTurn`). At the
end every sequence is kept (`MergedAll`), and `MemoInv` carries that over to all that is
below: a linearization keeps those of its bases, which keep theirs (`KeepsTransitive`).
That it gives up only when it must is a proof by least places (`NoOrder`): when each head
that is left is in a tail, take an order that keeps every sequence and the head that comes
first in it; the sequence whose tail holds that head has a head that comes earlier.
`StackInv` says that the stack leads from the deployed class to the one in hand, so that
an empty stack means a linearization of the deployed class. For the overrides, `JudgeInv`
says what each judgement that stayed silent has found. Two facts make it enough: the
deployed order has a class before all it extends (`LinOrder`, from the linearization),
so the functions after a variable include all it overrides; and what a class sees is in
the deployed order (`ViewInLin`), so the first definition it sees in that order is the
one it runs, which is the monotonicity the comment at `analyzer.ts` 5512 relies on.

The rule for diamonds (`MustOverride`) looks at what the direct bases hand on, one
definition each, so that one version dominates is an induction up the hierarchy
(`SettledStep`, with `Topmost` for the induction): if in each base the version that it
hands on derives from all it sees, the first of those that reach a class is live, any
other that it does not override would be live too, and two live ones are an error. A
body is never subsumed, so the bodies that the bases run stay. The recursion of
`deliveredVia` is shown to end (`DeliveredFixed`) by the order of the linearization. The
hypothesis `NothingHidden` is needed: a base may hand on an interface although it
inherits a definition that implements it, and then the definition takes no part in the
rule, so that two of the clauses are false of such a hierarchy (see Known divergences). `SuperVisitsAll` needs no such assumption: `super` is for
internal functions, an interface that declares `f` makes `f` external (`EntryAgrees`),
and without one nothing is hidden (`NothingToHide`).

Assumptions: the proofs rest on the named `ASSUME`s of the modules they extend, and no
theorem has another hypothesis; TLC evaluates every `ASSUME` in the runs. `ProgramsAssumption` of
`EffectInference` and `ContractsAssumption` say that the programs are what the parser and the checks of single
bodies let through: calls name functions that are emitted, addresses are of functions
(JETH422) of the pointer's signature (JETH428), a `static` is not guarded (JETH260), a
library does not call its contract. `ProgramsAssumption` of `ImportBundler` says only that
a program has an entry and that files have their types; `DepthAssumption`, that a chain
of all files fits the host's stack, holds of any compilation short of thousands of
files that import one another in a row. `UnitsAssumption` of `MemberScopes` says what the
bundler lets through and what can be one file at all: imports go one way and have their
targets, and no name means two things. `HierarchiesAssumption` of `Inheritance` says only
that classes are finitely many, with finite lists of bases, that the deployed one is
among them and that interfaces extend interfaces (JETH349): bases may be unknown,
repeated or cyclic. `MarkersAssumption` says that the two markers for "no base" and
"ambiguous" are no class names.

Only model-checked, and why: liveness (`CompilesEnd`), which needs fairness and
`ENABLED`; what recursive functions compute (`AbiCodec`, `StorageArrays`,
`StorageLayout`, `ConstantFolding`, `Modifiers`, `Constructors`), which would need
induction over data; and word operators at full width (the provers know no powers).

## Findings

`codec_pointers`: `buildDynStructFromMemBlob` decodes a field `Arr<P, N>` of static
structs with `abiDecFromMem`, which stores N pointers where the image has the N structs
themselves; encoded again, the value is not the one that arrived. The comment at
`analyzer.ts` 19902 says the field is stored inline and that `abiDecFromMem` handles it.

`constructor_crossed`: for `D extends B(1n), C` and `C extends A(2n)` the parameter of B
is bound in D's block, that of A in C's block inside it, and B's body runs inside both:
with parameters of one name B reads A's. The comment at `analyzer.ts` 7764 says that
only bases bound in one provider's block can collide.

## Known divergences

Where the code does not do what a comment, a document or a test of the repository says,
the model follows the code, and what is said is a property of the module that the runs
do not list. Each can be seen fail by adding it to the run named, after the change in
brackets if there is one.

| Property | Module, run | What the code does |
|---|---|---|
| `NeverBricked` | `Proxies`, `contracts` | `SUPPORTED.md` 267-270 calls the UUPS variant byte-identical to OZ, with an anti-brick `proxiableUUID()`. The generated one (`yul.ts` 13270) also answers when delegated to, so a *proxy* named as implementation passes through its own implementation; a proxy upgraded to itself delegates to itself for ever. `StaysUpgradeable`, proved, says that nothing else is accepted. |
| `ReadChecksTheValueRead` | `StorageBytes`, `byte_data` | `b[i]` binds the length before it evaluates the index (`yul.ts` 13526-13531); an index that shortens `b` makes the read answer a zero or a length byte instead of `Panic(0x32)`. `StaleReadSeesNoErasedByte`, proved, bounds the damage: no lost byte is answered. |
| `RaisesAlike` | `MemberScopes`, `analyzer` | `baseClassOf` (`compile.ts` 342) follows the first, bare base only; a member error inherited through a second base, or one with arguments, is taken for an import of its name. `compile.ts` 400: multi-file must equal single-file exactly. `RaisesAsOneFile`, proved, says that no other raise goes wrong. |
| `RejectsAsOneFile` | `MemberScopes`, `analyzer` [without `~unit.stray`] | On a follow-up route over an abstract leaf the pre-pass (`compile.ts` 599) reports JETH133 where the analyzer (4126) accepts one file. |
| `CompanionsAsOneFile` | `MemberScopes`, `analyzer` | A collision with an imported type or event lifts the shadow (`compile.ts` 774), and the member's own `revert` gets a second diagnostic. |
| `NestedOffsetsUnsigned` | `CalldataSlices`, `byte_data` | The offset is compared with `slt` (`yul.ts` 13763): 2^255 and more pass, and the table's address wraps; 13753 says unsigned. |
| `TableReadable` | `CalldataSlices`, `byte_data` | Only the first word of a nested table need be there (13763); 1248 and 5998 ask for all. |
| `TablesBounded` | `AbiCodec`, `byte_data` | `abiDecFromMem` compares the first of N offsets with the end (10422); 10095 says every one. |
| `OffsetsValidate` | `AbiCodec`, `byte_data` [arrays of small values in a struct in an array] | `buildDynStructFromCdBase` (10980) masks what 10668 says is validated. |
| `EffectsSoundWithSpecials` | `EffectInference`, `effects` [addresses taken by special entries] | Groups are formed (`analyzer.ts` 4448) before constructors and special entries are checked; a pointer only they take is in no group, and a getter that calls it is view though it writes. |
| `EffectsSoundWithTuples` | `EffectInference`, `effects` [functions with several results] | They are skipped when groups are formed (4450), but dispatched. |
| `BlameOnlyWithoutCalls` | `EffectInference`, `effects` | The reason is fixed by the first sweep that brings a write (4478), even if a later one has a real call. |
| `PureHeadsWithGenerics` | `EffectInference`, `effects` | Specializations that a replaced head queues are restored away (4264); the head is refused as pure (JETH433). |
| `GenericsChecked` | `Emission`, `effects` | The worklist is drained (4318) before constructors and special entries queue more. |
| `InlinedStays`, `TakenEmitted` | `Emission`, `effects` | With an external library, what only a constructor calls, or what is only taken as a pointer, is dropped (5301); 5282 and `yul.ts` 3342 say it stays. |
| `NoStrays` | `Emission`, `effects` | What only a delegatecall entry calls is emitted in the contract too (5307); 4927 says it belongs to the library. |
| `VarOverridesBase` | `Inheritance`, `analyzer` | A variable overrides any later class's function, siblings included (6387); 6381 says a strict base's. |
| `Dominance` | `Inheritance`, `analyzer` [with a variable] | `deliveredVia` (5575) does not know variables. |
| `Dominance`, `BodiesKept` | `Inheritance`, `analyzer` | `deliveredVia` takes an interface that a base extends itself (5589) before a definition that base inherits; 5571 says the most derived declarer within the base. With an interface `I {f}`, `B extends I` and `D extends I` that each define a virtual `f`, and `C extends I, B` that does not, `Z extends C, D` is accepted: `C` runs `B`'s `f`, `Z` `D`'s. 5552 says such a class must override. |
| `DispatchesMostDerived` | `Inheritance`, `analyzer` | An overriding variable drops versions more derived than itself (5929). |
| `InterfaceOverrideAllowed` | `Inheritance`, `analyzer` | `@override` of an interface method is JETH369 when the class is extended by one that overrides it (5848). |
| `SuperInBases` | `Inheritance`, `analyzer` | `super.f()` may reach a sibling (17854); `inheritance.test.ts` 496 says it is rejected. |
| `ArgsInFunctionScope` | `ModifierWraps`, `bodies` | The second argument of a modifier reads the first parameter of that modifier if the names agree (10403). |
| `LastRunReturned` | `ModifierWraps`, `bodies` [bodies that fall off their end] | A body run twice returns 0 after its second run fell off its end (`yul.ts` 2823). |
| `ScopesApart` | `ModifierWraps`, `bodies` [locals of a modifier] | The constructor's body is copied into the modifier's block and reads its locals (10721). |
| `InitializersFirst` | `ModifierWraps`, `bodies` [an immutable] | Without inheritance a modifier runs before the initializers, or instead of them (7007). |
| `ValueBeforeLocation` | `StorageArrays`, `storage` [`Dangling = TRUE`] | A dynamic array that is assigned is located before its value is evaluated (`yul.ts` 2265). |
| `RowsFromMemory` | `StorageArrays`, `storage` [`InlineRows = TRUE`] | `copyMemAggArrayIntoStorage` (6519) follows rows that a literal wrote inline as pointers. |
| `EnumsAreMembers` | `Expressions`, `values` | `~c` and `c++` of an enum keep its type (28656, 13291). |
| `ConversionKeepsItsType` | `Expressions`, `values` | `x + u256(1)` with `x: u8` is computed in `u8` (28903). |
| `FractionsAreExact` | `ConstantFolding`, `values` | `evalTypedConst` truncates a division inside a conversion (29933); `expressions.md` 39 says 10, not 8. |
| `FoldsOnlyPrograms` | `ConstantFolding`, `values` | It raises to, and shifts by, signed values (29929), which no program may. |
| `BodiesKeepTypes` | `ConstantFolding`, `values` | `1n + type(u8).max` in a body is computed in `u256` (28907). |

## Plan

1. External calls, try/catch and function references, then clones: what each failure
   does, and the address predicted.
2. The routes of `compile.ts` and the diagnostics that survive them.

Not planned: the parser and validator, the analyzer's rules for some 200 forms of
statement and builtin, ABI output, the command line's argument parsing and the EVM
harness, which are tables or formatting without state that TLC could explore.
