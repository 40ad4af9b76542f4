# A TLA+ model of hif-frontend

hif-frontend holds two translators, `verilog2hif` and `vhdl2hif`. Each is a
sequential C++ program that parses hardware descriptions, builds one HIF tree
for the whole design, refines the tree in a fixed sequence of passes and writes
it. The library the tree comes from (hif-core) is not part of the repository.

All paths below are relative to the repository (`src/verilog2hif/...` is
`src/src/verilog2hif/...` in PROJECT.json).

## 1. Inventory

| part | source | state it keeps | operations |
|---|---|---|---|
| verilog2hif driver | `verilog2hif.cpp`, `verilog2hif_parse_line.cpp` | file lists, options, the System | order the files, parse each, build the System, three steps, mark AMS units, write |
| Verilog parser | `verilog_parser*.cpp`, `verilog_support.cpp`, `grammar/verilog.*` | static list of design units, the current module, time scale, AMS flag | one method per grammar rule; `buildSystemObject` takes the list over |
| step 1 | `FixDescription_1.cpp` | the tree, reference map, known genvars | port directions and types, folding of constant assignments, implicit nets, sensitivities, subprograms, default parameters |
| step 2 | `FixDescription_2.cpp` | the tree, initial processes | split and merge initial processes, waits, time scales, function returns, conditions and operators |
| step 3 | `FixDescription_3.cpp` | reference map, `InfoMap`, `LogicGraph`, `ConesMap`, `CallsMap`, `SensitivityMap` | see below |
| AMS marking | `mark_ams_language.cpp` | one flag | marks the views and libraries that use analog constructs |
| vhdl2hif driver | `vhdl2hif.cpp`, `vhdl2hifParseLine.cpp` | file list, options, the System | parse, link, refine ranges, two steps, check, write |
| VHDL parser | `VhdlParser*.cpp`, `vhdl_support.cpp`, `grammar/vhdl.*` | static lists of declarations and definitions | one method per rule; `buildSystemObject` pairs entities with architectures |
| VHDL refinements | `PostParsingVisitor_*.cpp` | the tree, ranges of types | ranges, libraries, components, blocks, instances, aggregates, casts |

Nothing runs concurrently and nothing is persisted. What is hard is order and
what comes out. The passes talk to each other through the tree and through maps
that are keyed by addresses and updated while they are walked, so loops over them
go in an order no test controls. Every construct is handled by several passes,
each of which relies on what the one before left. And the result is a program
whose parts do run concurrently: a mistake shows as a value that is stale in one
delta cycle, a process that does not wake up, a port bound to the wrong net.

In step 3 the meaning of a design is rebuilt rather than its form. In Verilog a
net with a continuous assignment has its value at any time. HIF has no such nets
inside a design unit, only signals, which need a delta cycle, and variables, which
have no events. Step 3 decides what every signal and port becomes and generates
the code that keeps the copies in agreement:

1. `performOriginalDesignChecks` warns of racy reads.
2. `splitLogicConesLoops` gives each part of a net that is assigned in parts a
   signal of its own, so that the nets can be ordered.
3. `partialFlattening` inlines instances until no port needs two natures.
4. `expandForGenerates`, `fixOutputPorts`, `performChecks` prepare the tree:
   continuous assignments to ports become processes.
5. `fillInfoMap` classifies every reference.
6. `fixLogicCones` replaces the continuous assignments by procedures (cones).
7. `refineToVariables` turns signals into variables, or shadows them.

Correctness, per part:

* step 3: a cone computes what the assignments computed; it is called wherever
  its net is used; cones never recurse; no wake-up is lost; no driver is lost;
  shadows and signals agree; nothing waits on a variable; the passes end.
* parsers and steps 1 and 2: a name keeps the direction, range, sign, value and
  drivers its items give it, however they are distributed over the source; a
  process, task or function executes what its statements say; an expression has
  the value the standard gives it, over all four logic values; a delay is scaled
  once, by the time scale in force where it was written.
* linking (VHDL): each body reaches its unit whatever the order of the files;
  each formal is connected to what the association list gives it.
* array types (VHDL): each reference keeps the direction and bounds it was given.
* drivers: the passes come in an order in which each finds what it needs.

## 2. Modules

| module | models | reads |
|---|---|---|
| `VerilogDeclarations` | the items of a module as the parser turns them into declarations | operators only |
| `VerilogStep1` | step 1 on the declarations, assignments, subprograms and instances of a unit | extends it |
| `ModuleMeaning` | what the items of a module say of its names (reference) | |
| `VerilogTranslation` | the whole of `verilog2hif` on a project: files, units, passes | composes the three |
| `HifActions`, `HifProcesses` | the actions of HIF, and the execution of a state table (external) | |
| `VerilogStatements` | behavioural statements through the parser and steps 1 and 2 | operators only |
| `VhdlStatements` | sequential statements, ranges, aggregates and literals through the parser and steps 1 and 2 | operators only |
| `StatementMeaning`, `VhdlMeaning` | what processes of both languages promise (abstract) | |
| `Statements` | a construct, its table and the execution of the table | composes the five |
| `VerilogValues` | literals, operators, selections and gates through the parser and steps 1 and 2 | |
| `ValueMeaning` | four-valued evaluation of source and HIF expressions (reference) | |
| `VhdlUnits` | `parse_DesignUnit`, `buildSystemObject`, the linking of step 1, the instances of step 2 | |
| `VhdlElaboration` | what a VHDL source means once elaborated (reference) | extends it |
| `VhdlRanges` | the ranges of unconstrained array types: `visitRange`, `visitTypeReference`, `fixCollectRanges` of step 1 | |
| `VerilogProcesses` | what Verilog promises of the processes of a module (abstract) | |
| `InitialProcesses` | the initial processes in `visitDesignUnit` of step 2, and the execution of the result | implements `VerilogProcesses` |
| `SplitLogicCones` | `splitLogicConesLoops` | |
| `PartialFlattening` | `partialFlattening` | extends `ReferenceUse` |
| `PrerefineFixes` | `fixUnreferenced`, `fixOutputPorts`, `performChecks` | |
| `ReferenceUse` | `InfoStruct`, `fillInfoMap`, `getWritingCallFormal`, `calculateRequiredDeclType` | operators only |
| `LogicCones` | `fixLogicCones` and the functions it calls | extends `ReferenceUse` |
| `RefineToVariables` | `refineToVariables`, run after `fixLogicCones` | extends `LogicCones` |
| `*_proofs` | theorems about the module of that name; `RefineToVariables_proofs` also holds those about `LogicCones` | extends it |
| `MC*` | the inputs the runs use | extends the module of that name |

Operators that no action uses and whose comment calls them a mutant or a fault
are variants of the operator beside them. They document what each property would
catch.

### VerilogTranslation, VerilogDeclarations, VerilogStep1, ModuleMeaning

`VerilogTranslation` is `main`. `queue` holds the files in the order
`_validateArguments` gives them, Verilog before Verilog-AMS; `SetTimescale` and
`ParseModule` take their pieces one by one; `EndOfFile` drops the parser with its
time scale. `units` is `_designUnits` and then the units of the System. `stage`
is the pass: `step1`, `step2`, `mark`, `written`, or `raw` when only parsing was
asked for. Each visitor completes a unit after those it instantiates
(`MayVisit`), and the model takes any such order.

`ParseItem` applies the parser method of an item: an ANSI port becomes a port of
the entity, the items of a non-ANSI body are collected and joined to the ports
of the header at the end (`JoinPorts`); parameters, nets, variables, disciplines,
generates (a scope with a condition), instances, calls, functions and tasks.
`visitView` is step 1: the missing types and directions of ports come from the
formals they are bound to, and any of those may be the first of its set
(`FirstReferences`); the two passes over the global actions fold constants into
declarations (`Fold`); undeclared names become nets; local parameters that
parameters need become parameters; double declarations are joined. Step 2 scales
delays (`_scaleTimeValue`): a value records the scales it was multiplied with.

A value is the set of symbols in it, or a literal. A range is a name. So the
properties are about where a declaration comes from, not about arithmetic.

### Statements, VerilogStatements, VhdlStatements and their meaning

A construct is a source statement with its kind (always, initial, analog, task,
function; VHDL process, subprogram, concurrent assignment) and the answers its
conditions will give. `Built` is the state table that parser and steps leave of
it: lists of HIF actions (`HifActions`), with blocks as do-while loops that
`disable` breaks, `Break` and `Continue` by name, sensitivities and waits.
`HifProcesses` executes the table, one action at a time; an event of the
trace is an assignment with its value, a suspension with what it waits for, a
test, a call, the value of a visible loop index, a return. `Meaning` is the trace
the construct promises, and `DoesWhatItMeans` says that the execution implements
the state machine that emits it, event after event, to the end.

Nothing is assumed of the order of passes but the one in the code: for VHDL,
`_fixSingleBoundRange`, then `visitRange`, `_manageForRange`; for Verilog,
`visitWhile` of step 1 (which removes blocks nobody breaks), `visitWait` and
`fixFunctionReturnVariable` of step 2. Values matter in VHDL only: loop
indices, literals, the elements of aggregates.

### VerilogValues and ValueMeaning

An expression of the source is parsed (`Parse`), visited by step 1 (`Step1`,
which may reject a replication count) and by step 2 (`Step2`). A literal becomes
a `BitvectorValue`, or a `BitValue` when one digit of it is left; a sized one
whose only digit is `?` ends the program in the parser (`ParseError`).
`ValueMeaning`
evaluates both the source and the HIF expression for every valuation of the
names over 0, 1, x and z. Widths are those of the operands; `IntWidth` is the
width of the program's `int`.

### VhdlUnits and VhdlElaboration

The parser fills `du_declarations`, `du_definitions`, `lib_declarations`,
`lib_definitions`, in any order of files. `PlaceArchitecture` and `BuildSystem`
are `buildSystemObject`; `Link` is `visitSystem` of step 1 for one unit: it moves
into the package that declares it as a component. `VisitViews` removes libraries
that units do not need and passes the sign of a package down;
`VisitInstances` is step 2: partial bindings joined, open ports dropped, formals
without name given the names of the view's. `FixInstance` is
`_fixIntancesWithComponent`, applied when a block or an architecture is reduced.

### VhdlRanges

A VHDL reference gives an unconstrained array its bounds and its direction. HIF has
template parameters for bounds only, so step 1 gives every declaration one
direction, `downto` first (`FixDeclaration`), and notes for each range which
references count up and which down (`FixReference`, `rangeMap`). The first loop
of `fixCollectRanges` reverses ranges that all references invert
(`ReverseRange`) and marks the references of those that differ
(`MarkReferences`); the second makes one copy of the declaration for each set of
marks (`CopyDeclaration`) and renames the references. A declaration is named by
its type and the dimensions it is a copy for. The references inside a
declaration are copied with it. The keys of the maps are addresses, so each loop
may take its elements in any order.

### InitialProcesses and VerilogProcesses

`VerilogProcesses` says that an initial block executes its statements once and in
order, any other process over and over, and that no process waits for another one
to end. Its state is the module and the last statement each process executed.

`InitialProcesses` adds the state tables of the module with the identities and
positions of their actions. Its first six actions are the three loops of step 2
(`_collectInitialProcesses`, `_splitInitialProcesses`, `_mergeInitialProcesses`),
one process at a time; an action is `Action(p, n)`, the n-th statement of source
process p, and moves between tables. Its other actions execute the HIF that
results: the initial process first, alone and without suspending (external: the
contract of HIF's back ends for `pf_initial`), then the rest concurrently. The
`Wait` without operands that a split appends (`TailWait`) suspends for good, as
the comment at `FixDescription_1.cpp:1018` describes it. The refinement mapping is
the identity on `design` and `last`. Initial blocks inside generates are not
collected by the code and not in the model. `_checkWrongStatement` chains two
queries of hif-core: the model takes the options and the filter of the first to
hold for the second, which looks into the called tasks.

### The modules of step 3

Each models functions of `FixDescription_3.cpp` as a state machine. The variables
are the part of the tree the function changes and the maps it keeps; an action is
one iteration of one of its loops, with everything the iteration calls. `phase`
is the loop being executed and `todo` what the loop has not visited. The loops run
over `std::map` and `std::set` with addresses as keys, so a loop may visit its
elements in any order and the model takes any element of `todo`. Where the code
visits the elements of a group together (the tokens of one declaration in
`splitLogicConesLoops`), so does the model. The design on entry is a variable
that `Init` chooses from `Designs` and no action changes.

`ReferenceUse`: a reference is classified by the position it is in (`Contexts`).
`UseOf` is the chain of tests of `fillInfoMap`, in its order, so a position that
two tests accept (an index inside an out actual) is classified by the first.

`LogicCones`:

| code | model |
|---|---|
| `InfoMap` | `refs` (process references), `coneRefs` (references in generated procedures), `lhsContinuous`, `wasLhsContinuous`; `Uses(d)` are the non-empty sets of `infoMap[d]` |
| `LogicGraph` | `first`, `second` |
| `ConesMap`, cone bodies | `cones`, `body`, a sequence of assignments, calls and refreshes |
| `CallsMap` | `calls` |
| `SensitivityMap` | `sensMap` |
| `generateLogicConesGraph` | one step per target; drops drivers that only name constants |
| `sortGraph` (hif-core, external) | any sequence with targets before sources |
| `generateConeFunctions` | `generateConeFunction`/`SkipCone`, `BeginMerge`/`MergeParent`/`SkipParent`/`EndMerge`, `updateInfos` |
| `addConesPCalls` | one step per cone: calls before process accesses, and before the first use in each other cone |
| `fixSensitivities`, `calculateParentNodes` | one step per cone; `SpinOnWaitCondition` is its loop without progress |
| `clearContinuousAssigns` | one step per declaration |

An expression is the set of the declarations it names and whether it names
anything else (`ext`). A bit or part is its declaration, as in the code's graph.

`RefineToVariables` visits every declaration once: `KeepSignal`, `BecomeVariable`
or `ShadowSignal`. The last adds the write-backs, the refresh at the top of the
cone (a new cone and its calls if there was none), and the process that publishes
the shadow. `Uses` is evaluated when a declaration is visited. Delays and the
warnings are left out.

`SplitLogicCones`: a token is the left-hand side of a continuous assignment to a
part. `SplitToken` declares its signal, redirects the references that equal the
token and adds the copy back; `AbortOnDetachedToken` is the assertion of line 521.
`names` says which signal a reference names now. The type, the initial value and
the name of the new signal are left out: names are unique, and the copy overwrites
the initial value. Two loops of one genvar name are distinct scopes because a
later pass of hif-core renames conflicting declarations.

`PrerefineFixes`: the three functions in their order, each over all declarations.
A port that only non-blocking assignments write is left (`SkipPort`), one that is
not read gets non-blocking assignments (`AssignByProcess`), one that is read is
replaced by a signal (`ReplaceByOutSig`). The new processes and lists are seen by
the later visits, because the code enters them in the reference map.

`PartialFlattening`: a round asks for the units with a port, and for the instances
with a bound net, that would have to be a signal and a variable (`Asked`),
compares with the round before it (`Repeated`) and flattens. `flattenDesign` is
hif-core's and external: it drops the losing branches of if generates
(`DiscardLosingBranches`), inlines innermost instances first (`Inline`, `Copy`)
and may delete a unit whose instances are gone (`EndRound`). The code compares
sets of addresses of two rounds; the model takes addresses of deleted nodes not to
be given to new nodes in between, so equal addresses mean equal nodes.

### How the modules fit

For Verilog the order of the code is `VerilogTranslation` with `VerilogStatements`
and `VerilogValues` inside its units (parser, steps 1 and 2), `InitialProcesses`
(step 2), then in step 3 `SplitLogicCones`, `PartialFlattening`,
`expandForGenerates` (external), `PrerefineFixes`, `LogicCones`,
`RefineToVariables`, and the marking of `VerilogTranslation` at the end. For VHDL
it is `VhdlUnits` with `VhdlStatements` inside its processes. With the option
`preserveStructure` the flattening returns at once. What a module assumes of its
designs (`WellFormed`) is what the one before leaves:

* `LogicCones` assumes that no continuous assignment has a port as target:
  `PortsAreAssignedByProcesses`, proved.
* `LogicCones` assumes that the nets can be ranked: `splitLogicConesLoops` is
  there for it, and `GraphFollowsParts` (proved) says that afterwards a loop of
  nets is a loop of parts, if references name the parts that are driven. With
  references to smaller or larger parts a loop may remain, and the order
  `sortGraph` finds is then not a topological one.
* `InitialProcesses` takes statements as they are after `VerilogStatements`.

## 3. Runs

| run | inputs | shows |
|---|---|---|
| `translation` | projects of one to four modules in one or two files: each header form with each way to declare a port, nets and constants in and outside generates, nested instances with and without port types, functions and tasks, delays under two time scales, disciplines and analog blocks | names mean what their items say, bare ports are completed, every symbol has a declaration, delays are scaled once, AMS units are marked |
| `statements` | every statement of both languages, alone and inside every other one, in every kind of construct; VHDL ranges in both directions, with one value and none; literals and aggregates | the tables do what the constructs mean, to the end |
| `values` | literals of every base around the width of `int`; one and two operators over vectors of 1, 2 and 4 bits with unknown digits; selections of descending and ascending vectors; gates | expressions keep their values, slices the direction of their vector |
| `vhdl_units` | an entity declared as a component of an architecture, block, generate or package, or named directly, with associations of every style; files in every order | instances are connected as VHDL says, bodies reach their units |
| `vhdl_ranges` | two unconstrained array types, of one or two dimensions or one with elements of the other, a subtype of one of them, signals and a parameter that refer to them in either direction | every reference ends with the direction and the bounds of its source, dimension by dimension |
| `initial` | an always process between up to two initial blocks of up to three statements, each plain, suspending, triggering, or a call that suspends; two merges | step 2 loses, repeats and reorders no statement, holds no process up, and triggers nothing too early |
| `split` | `a` driven in two parts, in one part and by a process, beside `b` driven whole or in a loop; reads through tokens, smaller parts, indexes, whole names | no reference loses or gains a driver; loops of nets are loops of parts; new signals are in scope |
| `flatten` | a top unit with instances of two others, one of which has an instance of its own; every way to write and watch their ports and nets; an instance in a losing branch; with and without `preserveStructure` | the rounds end, and what they leave is in units that nothing instantiates |
| `prerefine` | two output ports and a third declaration, three assignments of any kind that read any of them | the result does not depend on the order, ports have non-blocking assignments only |
| `refine` | port `i`, nets `x y z`: every chain, tree and diamond over them with every choice of uses, nets assigned in two parts, registers written in each way, nets that are read, watched and bound | cones compute what the assignments computed, are called where needed, never recurse; sensitivities are complete and name roots only; no driver is lost; shadow and signal agree; nothing waits on a variable; the step ends |

The other two runs each show one disagreement (section 6).

Bounds. One counter is capped: `MaxEvents`, the length of the traces of
`statements`. Nine events are more than two rounds of the longest loop body of a
construct of two levels, and three rows of answers take each condition both ways,
first and second time. Every other state machine is finite for a finite input,
and the bounds are those of the inputs:

* `statements`: two levels of nesting are the least at which a `disable`, `exit`
  or `next` leaves a statement other than the one it is in. An outer loop or
  named block stands around each, so a third level is there for jumps.
* `values`: `int` has four bits instead of 32, which brings the widths where
  `Truncated` matters into reach of literals of one and two digits. Vectors of
  four bits are the least whose part selects can be told from their mirror images
  in position and in direction.
* `translation`: two scopes beside the module's, and three levels of instances,
  the least where completing a port needs an instance completed before it.
* `vhdl_units`: two ports and one generic. With two ports a position, a name, an
  open port and a part can be mixed in every way that names the ports apart.
* `vhdl_ranges`: two dimensions are the least at which references can agree in one
  and differ in another, and two types the least for a reference inside a
  declaration that is copied.
* `refine`: three nets above a port are the smallest graph that has a diamond, a
  net merged into two cones and a merged net with a merged parent; each hazard of
  `generateConeFunctions` and `addConesPCalls` needs at most these. Four places
  (two actions, a list, a wait) tell apart calls, lists and waits.
* `split`: three tokens give two tokens of one declaration and one of another, in
  every order; the parts `lo`, `bit`, `hi` and `all` are disjoint, nested and equal
  in every combination, `g` is a bit that only a genvar names.
* `prerefine`: two ports are the least for which the visit of one changes what
  the visit of the other sees.
* `flatten`: three levels of hierarchy are the least that need a second round
  after the first changed what the nets between the levels are used for.
* `initial`: three initial blocks, one merged into and two merged, are the least
  where the order of two merges matters.

All orders of the loops are explored. No symmetry is declared: the inputs name
their declarations.

Fairness is `WF(Next)`: the program is one thread, a function runs until it
returns or a loop of its own makes no progress. A loop without progress is a
stuttering action, so it satisfies the fairness and violates the termination.
`HifFairness` gives the translator the same, and weak fairness to each process
whose next action cannot suspend it: a process that is ready runs in the end,
whatever the others do. An action with a wait need not ever happen. The execution
of a table in `Statements` is one process that has all its answers, so weak
fairness of its steps is all it needs to produce the promised trace. Modules
without a liveness property state no fairness.

Deadlock is not checked where the program ends: a module of initial blocks, an
executed table, a project written, an expression refined, a source linked. The
modules of step 3 stutter explicitly when they are done, so there it is checked.

## 4. Proofs

For every set of declarations, references and designs that satisfies the
assumptions of the module:

* `RefineToVariables_proofs`, on `fixLogicCones`: `TypeCorrect` with `ContsInv`
  (`lhsContinuous` is a finite set of assignments of the design, needed for the
  orders of a set of addresses to be sequences). `CallsNeverRecurse`: the design's rank orders everything the
  function builds; each edge of `first`, each assignment in a body and each
  reference in a cone goes down in rank (`RankInv`), hence so does each inserted
  call. Merging extends `first` by a parent's parents, which are lower still.
  `ListsAreRooted` is inductive by itself: a visit inserts roots only, and roots
  have no sources. `AccessesAreServed`: a visited cone is called at every access
  (`ServedInv`), and every reading position is an access, except an inout actual
  and an index in an out actual. These two are hypotheses of the theorem and
  described in section 5. `NoDriverIsLost` (`DriversAreReplaced`): a used net
  whose drivers were not taken as constant has a source in the graph, so a place
  in the sorted graph, so a cone (`NodesInv`, `HasConeInv`), if each assignment
  that names a parameter or a function also names something that changes.
  Three theorems follow the roots of a net. A net is *live* if something that
  changes and that nothing drives is among them. `GraphInv`: a live net keeps its
  drivers, and each of its live sources is a source in the graph once it has been
  visited, so what is left out of the graph is never on a path to something that
  changes. Hence `ConstantDriversStay` (`KeptDriversAreConstant`: a net taken for
  constant is not live), and the roots `calculateParentNodes` finds include the
  live ones (`RootsReached`), hence `NoWakeUpIsLost` (`WakesOnRoots`, with
  `EntriesInv` for the lists and `WokenInv` for the visited nets). Hypothesis:
  what a task writes is also written or watched otherwise (`TaskWritesAreSeen`,
  section 5). Reachability is the least set that is closed under the sources
  (`Closure`), so no induction on paths is needed.
* `RefineToVariables_proofs`, on all of step 3: `WritesArePublished`. References
  of processes that write are never removed by `fixSensitivities`, so the visit that shadows a
  declaration sees all its writes. `RefineTypeCorrect` and `ReadersAreRefreshed`
  are about bodies into which calls are put: `HostsInv` says that in every other
  cone that uses it, each mention of a net with a cone is preceded by a call;
  an entry keeps its calls when the body grows before or behind it
  (`InsertedCall`, `PrefixedCalls`, `EachMentionCalled`). What fixLogicCones
  establishes is carried to the end of step 3 by `ConesInv`
  (`ConesOutliveRefinement`, `RefreshesNeverRecurse`, `ListsStayRooted`,
  `AccessesStayServed`); the one hard case is a cone that `refineToVariables`
  adds: it belongs to a register without sources (`EdgesInv`), and its calls go
  down in rank. `ShadowsArePublished`: a live net the design uses is in
  `sensMap` whatever lists name it. `NothingWaitsForVariables`: what is in the
  list of a publishing process has to be a signal. That needs its hypothesis
  `PublishedRoots`, which excludes the bound nets of section 5.
  `ConesRecompute` (`ConesComputeTheirTarget`): executing a cone gives its net the
  value the continuous assignments gave it. The invariant, `FilledInv`, says of
  every phase what a body holds. `NetsInv`: which nets lose their assignments to
  cones, and that everything computed from such a net is such a net.
  `BodiesInv`: a body holds calls and assignments of nets its own is computed
  from, and all assignments of each net it sets (`HasDrivers`). `MergeInv`: while
  the parents of a cone are merged, what an assignment in it reads and nothing
  has set before it is a parent that comes later in the sorted graph
  (`Ordered`), so at the end nothing is missing (`Settled`). `OrderInv` and
  `MentionInv`: the graph is sorted so that this works, and each reference in a
  body is in `coneRefs`, where `addConesPCalls` looks. Together: whatever a body
  reads and the tree no longer drives is set before it or computed by a call
  before it (`ComputedInTime`), so no stale net is read (`NoStaleRoot`); and a
  net that is read and not computed is read first of all without having been
  computed, by the least entry of the cone of least rank (`FirstRead`,
  `ReadIsExposed`), so none is lost (`NoLostRoot`). Its hypothesis
  `NoMixedTargets` excludes the nets that continuous assignments and processes
  both drive (section 5).
* `SplitLogicCones_proofs`: `DriversAreKept` and `LoopsAreLoopsOfParts`, under
  the hypothesis that overlapping drivers drive the same part (else a part is
  driven twice, and Verilog resolves the drivers). The invariant says that the
  references redirected to a token are exactly those that equal it.
  `SignalsAreInScope`: a part driven in a generate must be named only there.
* `PrerefineFixes_proofs`: `NoPortIsAssignedContinuously`. A visited port stays
  settled: no later visit gives it a continuous or blocking assignment.
  `MadeProcessesAreSensitive`: lists and reads are renamed together.
  `ReplacementIsFixed` and `TemporariesAreNeverDelayed` follow from `EntryInv`:
  each reference names what its source reference has become by now
  (`RenamedInv`), so what a visit decides on the references of the moment is what
  the tree on entry decides (`ReplacedInv` for ports, `HowInv` for the kinds of
  assignments).
* `PartialFlattening_proofs`: `NothingInstantiatedIsLeft`. What a round asked for
  is not instantiated when the next begins (`RoundInv`), since inlining goes on
  while anything is pending. So a round that repeats the one before it asks for
  units that no instance refers to, and for no instance.
* `InitialProcesses_proofs`: `TypeCorrect`, `TranslationImplementsVerilog` and
  `NoEarlyTrigger`, for every module. The invariant has four parts. `ShapeInv`:
  a table is an initial block, an untouched process, or the rest of a split one.
  `PartsInv`: the first `Stays(p)` statements of each initial block p are in one
  initial table, in order, with nothing else but such statements around them.
  Split and merge keep this; it is why executing a table from its first action
  to its last is executing each block in order. `LoopInv`: what each loop has
  done and has left to do. `ExecInv`: `last` is determined by the positions, so
  the action a process executes is the following statement of its source block.

* `VhdlRanges_proofs`: `ShapesAreKeptThm`, for any types, dimensions and
  references, under the hypothesis that no declaration that is copied has an
  element that is moved (section 5). The invariant says what each map holds in
  terms of the source: `rangeMap` the references visited so far (`MapInv`), a
  declaration's range `downto` until the first loop reaches it and then the
  direction its references agree on (`DirsInv`), `trMap` the ranges a reference
  inverts and shares with one that does not (`MarkInv`), a copy the directions
  its name stands for (`CopiesInv`), and a reference its declaration or its copy
  (`RefsInv`).

* `VhdlElaboration_proofs`: `BodiesArePlaced` (`BodiesReachTheirUnits`), for any
  set of library units that is a legal library without the cases of section 5
  (`WellFormed`). The invariant has one part per phase. `ParseInv`: each list
  holds the units of its kind that have been read, so the order of the files is
  forgotten. `BuildInv`: each architecture waits in `du_definitions` or its body
  is in the view of its entity; the components that other architectures add to
  the list never replace that view (`Joined`). `LinkInv`: of each declared name
  there is one view, in the list or in a package (`ViewIn`), and whether a unit is
  moved (`Linked`), visited or bound, its name, ports and statements stay
  (`SameUnit`). So an instance that names an entity before it is moved, or an
  architecture before it is parsed, names what is there at the end.

Every design of `MCRefineToVariables` satisfies `TaskWritesAreSeen`,
`NoMixedTargets` and `PublishedRoots`, and a fifth of them have a net that is
driven and bound. All but one of the sources of `MCVhdlUnits` are `WellFormed`;
in the one that is not, two packages declare a component, and step 1 stops.

* `VerilogTranslation_proofs`, for any project of `IsProject`: any number of
  files, each a row of time scale directives and modules in any order, any number
  of items in a module, and no two modules of one name (a second one of the same
  name would be a second unit that no instance can mean).
  `DelaysScaledOnce` (`DelaysAreScaled`). The invariant, `IInv`, has three parts.
  `QueueFollows`: the queue holds what remains of files of the project, and the
  time scale of the parser is the one in force where it has got to in the first
  of them; that needs each file to have a parser of its own, and is where a time
  scale kept from one file to the next breaks the proof. `UnitsFollow`: a unit has
  the time scale in force where its module is written. `Progress`: no value of a
  unit is scaled before step 2 visits it (`PlainUnit`), and after the visit each
  is scaled once (`Finished`), whatever the order of the visits. The long part is
  `PlainUnit`: everything the parser and step 1 do to a unit moves values between
  the header, the declarations, the assignments and the parameters, and none of it
  scales one (`ItemKeeps`, `ViewKeeps`, one lemma for each operation). Most of
  these are folds over a list:
  a fold has a table of its intermediate results (`FoldExists`, `FoldIsFolded`),
  and what each of its steps keeps, it keeps (`FoldKeeps`), by induction over a
  set of numbers (`Stepwise`).
  `OneVisitMarksAll`: the marked units are the least set that has every unit with
  something of the AMS language and every unit that instantiates a member
  (`MarksAreLeast`), and the system is marked if there is one. While marking goes
  on the visited units are closed under instantiation and have the marks they end
  with (`MarksFollow`); the order of `MayVisit` makes one visit of each enough,
  and a mark of the next unit never changes what was found for one before it
  (`UnitMarked`). That is the half of `AmsUnitsAreMarked` about units. The other
  half, that a unit has something of the AMS language exactly when its source
  does, is left to the run.

Only model-checked. Four properties of `VerilogTranslation` compare the finished
unit with the whole text of its module: `NamesMeanTheirDeclarations`,
`PortsAreComplete`, `SymbolsResolve` and `AmsUnitsAreMarked`. Their invariant
would have to say for each of the folds which element it has got to and what the
rest of the list still adds; the proof above uses of a fold only what every step
keeps. `AssociationsAreKept` is of the same kind: each formal of a
component changes the list of associations (`FoldLeft` of `FixOne`). The
properties of `Statements` and `VerilogValues` are about trees that their modules
build recursively, so they would need induction over data. Liveness
(`Step3Termination`, `Termination`, `ProcessesProceed`, the liveness half of
`DoesWhatItMeans`) stays with TLC too.

## 5. Abstractions, excluded inputs, what is not modelled

Excluded from the inputs of a passing run, because the property would fail on
them; each is a behaviour of the code.

Step 3:

* An inout actual that is a shadowed register is not refreshed before the call
  (`getWritingCallFormal`), and a net that indexes an out actual is classified as
  written and gets no call.
* A register that only a task writes is taken to be never written, so the net
  assigned from it is computed once.
* An assignment that names only parameters or functions, where folding left it,
  gets no cone and is deleted.
* A net that continuous assignments and processes both drive: the conditional
  store is built and discarded.
* A net bound to a port and computed from a register that only blocking
  assignments write: the register becomes a `Variable`, and the process
  `refineToVariables` adds to publish the net has it in its sensitivity. So has it
  a net with constant drivers only that the graph visits after the bound one.
* A part of a net with two drivers: the replacement made for the first detaches
  the second, and the assertion on it fails.
* A reference to a part that overlaps a token without being equal to it, from
  the conclusions of `GraphFollowsParts` (`ReadsTokens`): it keeps naming the
  whole declaration.
* A fixed part that is driven inside a for generate and read outside of it: the
  new signal is declared in the generate.
* The call for a net in a loop condition (`FixDescription_3.cpp:1194`) is not
  distinguished from one in any other condition.

Verilog declarations:

* `output signed` with an unsigned body declaration loses its sign; a net or reg
  before its port declaration loses its value or its mark; the non-literal initial
  value of an ANSI `output reg` is dropped; an ANSI port declared again in the body
  is deleted; arrays of several dimensions keep the first, net arrays lose signs.
* The delay of a folded assignment is lost; constants folded inside a generate
  become global (`FixDescription_1.cpp:347`); several constant drivers of a net; a
  net with a non-constant initial value inside a generate.
* A port that is referenced both in a binding and elsewhere may take its type
  from the wrong one (`FixDescription_1.cpp:1261`); ground disciplines; `logic`
  beside a Verilog-AMS file, where the discipline is looked up in every file
  (`FixDescription_1.cpp:809`); ports joined with a type other than bit or logic
  fail an assertion.
* `time` variables without value, `$time`, constants of type time.
* Name conflicts of the moved locals of tasks (a later renaming of hif-core).

Verilog statements:

* A timing control directly under another loses the inner one
  (`verilog_parser.cpp:2119`); `always #d` loses its delay; `repeat` with a count
  below one or not literal; `@*` around other controls; declarations in nested
  blocks (refused); an empty analog block (assertion).
* `disable` of the only named block of an initial construct, which the parser
  makes the process's name (`FixDescription_1.cpp:728`).
* Equal local names of two named initial blocks collide when the blocks are merged.
* HIF runs a process once at elaboration; the meaning of `always` is taken to
  include that run.

Verilog values:

* Decimal literals from 2^31 on (`atoi`); unsized octal literals, read as decimal;
  unsized hexadecimal ones over `int`; unknown digits of unsized ones; upper case X
  and Z in them; unsized binary ones with a leading x or z are not extended; `?` in
  octal and hexadecimal digits, as the first digit of a binary literal that is
  padded, and as the only digit of an unsized one; signed literals (refused);
  width zero.
* A sized binary literal of which only the digit `?` is left, such as `1'b?`, is
  legal Verilog for z, but the parser stops with `Unexpected bit value`
  (`verilog_parser.cpp:4429`), although a longer literal keeps the digit and step 1
  makes it `Z`. The run has these sources: `ValuesKeepTheirMeaning` says that the
  parser stops on no others and translates none of them to something else.
* `buf` passes z; indexed part selects of ascending vectors are reversed.
* Arithmetic, extension to a common width and casts are left to hif-core; the
  option `--ternary`.

VHDL units:

* Components declared in a package or generate, or hidden by a direct
  instantiation, are bound by position and defaults of the entity instead; `open`
  where component and entity differ in the default; `open` at a position before
  the last, which is erased before the positions of the others become names
  (`PostParsingVisitor_step2.cpp:531`); unbound parts of a port bound in parts;
  partial binding of generics.
* Context clauses of architectures, use clauses, components and configurations of
  generates are dropped; configurations have no effect; an entity moved into a
  package takes the package's sign.
* Blocks with generics or ports (assertion), a block in a block in a generate
  (stays a view), declarations of types in an entity, units of other libraries.
* A component that two packages declare: the entity moves into the one its view
  uses, and the other keeps a unit without contents; if it uses neither, step 1
  stops (`SeveralEntities`).
* An architecture whose entity is in no file is deleted without a message
  (`VhdlParser_extension.cpp:238`).

VHDL array types:

* An element that counts up, in a declaration that is copied, of an array with
  references of both directions: if the outer declaration is copied before the
  element is renamed, the copy keeps the old name, and with it the other
  direction; which comes first depends on addresses
  (`PostParsingVisitor_step1.cpp:1125`).
* A subtype without bounds of an unconstrained array that is constrained
  later (assertion); a constant of an unconstrained type with an aggregate as
  value, whose bounds come from the number of its elements.

VHDL statements:

* `exit ... when` (run `exit_when`); `next ... when` deletes the condition it has
  given to its `If` (`VhdlParser.cpp:2204`).
* A loop over the `'range` of an ascending array counts down for ever
  (`VhdlParser.cpp:3300`), and so does a loop over an ascending subtype; a
  constraint put on a user's subtype in a loop is dropped.
* Literals: `_` and exponents in decimals (`atoi`, `VhdlParser.cpp:886`); an
  exponent of a based literal raises the value instead of the base, and `e` in
  lower case makes it 1; digits of base 10 are reversed; `_` counts 47 in base 2;
  octal and hexadecimal bit strings are refused.
* An element by position beside `others` in a descending array goes to the lowest
  indices; a named record aggregate is assigned by position, whatever the names
  (`PostParsingVisitor_step1.cpp:1353`); an attribute of another dimension takes
  the first (`PostParsingVisitor_step2.cpp:439`).
* A conditional assignment without final else; waveforms of several elements; a
  generate loop drops its step action, which hif-core does not read.

Abstractions: whether a reference is in a left-hand side is hif-core's
`isInLeftHandSide`, taken to be true of the target and false of its indexes. Types,
spans and values of expressions are left out of step 3, where the properties are
about which declaration is read, when. hif-core's `moveToScope`, `sortParameters`,
`bindOpenPortAssigns`, `getDeclaration`, `simplify`, `sortGraph` and
`flattenDesign` are external, each taken to do what its callers expect.

Not modelled: `performOriginalDesignChecks`, which only warns; `expandForGenerates`,
a call of hif-core; genvar scopes and `visitPortAssign`; user defined primitives,
specify blocks, analog operators; VHDL types, names with arguments, overload
resolution, casts and the refinement of ranges of types, which rest on the
semantic checks of hif-core (unconstrained arrays apart); PSL. The lexers and grammars, whose automata are
generated, and the parser methods that build one node from its parts.

## 6. Disagreements found

Each has a run that shows it and an entry in PROJECT.json with the lines.

* `wait_condition`: a computed net in the condition of a wait makes
  `fixSensitivities` loop for ever.
* `exit_when`: an exit with a condition leaves its loop whatever the condition is.

## 7. Plan

What the project does not have yet, most important first:

1. `performOriginalDesignChecks` (`FixDescription_3.cpp` 1783-1891), genvar scopes
   (`FixDescription_1.cpp` 1035-1225) and `visitPortAssign`
   (`FixDescription_2.cpp` 652-743).
2. An execution of the refined design beside that of the original, for one
   shadowed register with its task, so that `RefineToVariables` too is shown to
   implement an abstract specification.
3. VHDL types: attributes as bounds, records, names with arguments.
4. Theorems: the invariants section 4 lists as only model-checked so far.
