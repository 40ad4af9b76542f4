----------------------------- MODULE LogicCones -----------------------------
(****************************************************************************)
(* fixLogicCones of FixDescription_3.cpp: every continuous assignment that   *)
(* processes depend on is replaced by a procedure, its cone, which           *)
(* recomputes the target on demand. Cones are built over the graph of the    *)
(* continuous assignments, called where their target is used, and the        *)
(* sensitivity lists that named a target are rewritten to the roots of its   *)
(* graph. Finally the assignments are removed from the tree.                 *)
(*                                                                           *)
(* The maps of the code are keyed by addresses, so the order of a loop over  *)
(* one of them is an arbitrary order: todo holds the declarations the        *)
(* current loop has still to visit, and an action takes any of them.         *)
(****************************************************************************)
EXTENDS ReferenceUse, Naturals, Sequences, SequencesExt

CONSTANTS
    Decls,      \* the signals and ports of the design
    Acts,       \* process actions, sensitivity lists and instances: the places of references
    Designs     \* the designs the refinement may be given

ContAssigns == [tgt : Decls, srcs : SUBSET Decls, ext : BOOLEAN]
Refs        == [decl : Decls, ctx : Contexts, at : Acts]
ConeRefs    == [decl : Decls, use : {"read", "lhsBlocking"}, cone : Decls]

(* An entry of a cone body: a copy of an assignment, the same with its target *)
(* renamed to a variable local to the cone, a call of another cone, or the    *)
(* update of a shadow variable that RefineToVariables adds.                   *)
Items == [op : {"assign", "assignTmp"}, asg : ContAssigns]
             \cup [op : {"call", "refresh"}, cone : Decls]

(* What fixLogicCones is given. splitLogicConesLoops has broken the loops that *)
(* run through parts of one signal, hence the rank; fixOutputPorts has turned  *)
(* the continuous assignments to ports into processes. A port assign names the *)
(* port it binds.                                                              *)
Ranks == [Decls -> 0 .. Cardinality(Decls)]

Layered(C, rank) == \A c \in C : \A s \in c.srcs \ {c.tgt} : rank[s] < rank[c.tgt]

WellFormed(D) ==
    /\ D.ports \subseteq Decls
    /\ D.conts \subseteq ContAssigns /\ IsFiniteSet(D.conts)
    /\ D.refs \subseteq Refs
    /\ \A r \in D.refs : r.ctx = "portAssign" => r.decl \in D.ports
    /\ \A c \in D.conts : c.tgt \notin D.ports
    /\ \E rank \in Ranks : Layered(D.conts, rank)

ASSUME DeclsAssumption == IsFiniteSet(Decls)
ASSUME DesignsAssumption == \A D \in Designs : WellFormed(D)

VARIABLES
    design,             \* the tree on entry (never changed)
    phase,              \* the function of fixLogicCones being executed
    todo,               \* declarations its loop has not visited yet
    cur,                \* the cone whose parents are being merged: {} or {d}
    k,                  \* position in sorted
    conts,              \* continuous assignments in the tree
    refs,               \* references of processes, lists and instances
    coneRefs,           \* references inside cone bodies
    lhsContinuous,      \* InfoStruct::lhsContinuousUsing, as assignments
    wasLhsContinuous,   \* InfoStruct::wasLhsContinuous
    first, second,      \* LogicGraph: sources of a target, targets of a source
    sorted,             \* sortedGraph
    cones,              \* domain of conesMap
    body,               \* the actions of each cone
    calls,              \* callsMap: the cones called just before each action
    sensMap             \* SensitivityMap: the roots found for each declaration

infoVars  == <<refs, coneRefs, lhsContinuous, wasLhsContinuous>>
graphVars == <<first, second>>
coneVars  == <<cones, body, calls>>
loopVars  == <<phase, todo, cur, k>>
vars == <<design, loopVars, conts, infoVars, graphVars, sorted, coneVars, sensMap>>

Phases == {"graph", "sort", "cones", "merge", "calls", "sens", "clear", "refine"}

TypeOK ==
    /\ design \in Designs
    /\ phase \in Phases
    /\ todo \subseteq Decls
    /\ cur \subseteq Decls
    /\ k \in Nat
    /\ conts \subseteq ContAssigns
    /\ refs \subseteq Refs
    /\ coneRefs \subseteq ConeRefs
    /\ lhsContinuous \in [Decls -> SUBSET ContAssigns]
    /\ \A d \in Decls : \A c \in lhsContinuous[d] : c.tgt = d
    /\ wasLhsContinuous \in [Decls -> BOOLEAN]
    /\ first \in [Decls -> SUBSET Decls]
    /\ second \in [Decls -> SUBSET Decls]
    /\ sorted \in Seq(Decls)
    /\ cones \subseteq Decls
    /\ body \in [Decls -> Seq(Items)]
    /\ calls \in [Acts -> SUBSET Decls]
    /\ sensMap \in [Decls -> SUBSET Decls]

-----------------------------------------------------------------------------
(* fillInfoMap: the sets of infoMap[d] that are not empty. *)
Uses(d) ==
    {UseOf(r.ctx) : r \in {q \in refs : q.decl = d}}
        \cup {r.use : r \in {q \in coneRefs : q.decl = d}}
        \cup {u \in {"lhsContinuous"} : lhsContinuous[d] # {}}

(* Fault: every symbol of a continuous assignment counts as its target. *)
fillInfoMap_AnySymbol(D) ==
    /\ refs = D.refs
    /\ lhsContinuous = [d \in Decls |-> {c \in D.conts : d \in {c.tgt} \cup c.srcs}]
    /\ wasLhsContinuous = [d \in Decls |-> \E c \in D.conts : d \in {c.tgt} \cup c.srcs]

fillInfoMap(D) ==
    /\ refs = D.refs
    /\ lhsContinuous = [d \in Decls |-> {c \in D.conts : c.tgt = d}]
    /\ wasLhsContinuous = [d \in Decls |-> \E c \in D.conts : c.tgt = d]

Init ==
    /\ design \in Designs
    /\ phase = "graph" /\ todo = Decls /\ cur = {} /\ k = 1
    /\ conts = design.conts
    /\ fillInfoMap(design)
    /\ coneRefs = {}
    /\ first = [d \in Decls |-> {}]
    /\ second = [d \in Decls |-> {}]
    /\ sorted = <<>>
    /\ cones = {}
    /\ body = [d \in Decls |-> <<>>]
    /\ calls = [a \in Acts |-> {}]
    /\ sensMap = [d \in Decls |-> {}]

(* The end of a loop over a map. *)
Following == [graph |-> "sort", calls |-> "sens", sens |-> "clear", clear |-> "refine"]
LoopOver(p) == CASE p = "sort" -> {} [] p = "sens" -> cones [] OTHER -> Decls

EndLoop ==
    /\ phase \in DOMAIN Following
    /\ todo = {}
    /\ phase' = Following[phase]
    /\ todo' = LoopOver(phase')
    /\ UNCHANGED <<design, cur, k, conts, infoVars, graphVars, sorted, coneVars, sensMap>>

-----------------------------------------------------------------------------
(* generateLogicConesGraph *)

(* A signal nobody writes and nobody waits for will become a variable and is  *)
(* no node of the graph.                                                      *)
StaysSource_NoPorts(s) ==   \* fault: ports are not exempt from the test
    isSignal(FALSE, Uses(s)) \/ isVariable(Uses(s), wasLhsContinuous[s])

StaysSource_SignalsOnly(s) ==   \* fault: registers written by blocking assignments are skipped
    s \in design.ports \/ isSignal(FALSE, Uses(s))

StaysSource(s) ==
    \/ s \in design.ports
    \/ isSignal(FALSE, Uses(s))
    \/ isVariable(Uses(s), wasLhsContinuous[s])

GraphSources(d) ==
    {s \in UNION {c.srcs : c \in lhsContinuous[d]} : s # d /\ StaysSource(s)}

(* Only constants drive d: its assignments stay in the tree. A driver that     *)
(* names anything else than a signal or a port (ext) is not taken as constant. *)
hasOnlyConstantDrivers(d) ==
    GraphSources(d) = {} /\ \A c \in lhsContinuous[d] : ~c.ext

generateLogicConesGraph(d) ==
    /\ phase = "graph"
    /\ d \in todo
    /\ first' = [first EXCEPT ![d] = @ \cup GraphSources(d)]
    /\ second' = [s \in Decls |-> IF s \in GraphSources(d) THEN second[s] \cup {d} ELSE second[s]]
    /\ IF hasOnlyConstantDrivers(d)
       THEN /\ lhsContinuous' = [lhsContinuous EXCEPT ![d] = {}]
            /\ wasLhsContinuous' = [wasLhsContinuous EXCEPT ![d] = FALSE]
       ELSE UNCHANGED <<lhsContinuous, wasLhsContinuous>>
    /\ todo' = todo \ {d}
    /\ UNCHANGED <<design, phase, cur, k, conts, refs, coneRefs, sorted, coneVars, sensMap>>

-----------------------------------------------------------------------------
(* sortGraph of hif-core: a target always comes before the sources it is      *)
(* computed from; the order is otherwise arbitrary.                           *)
GraphNodes == {d \in Decls : first[d] # {} \/ second[d] # {}}

TargetsFirst(s) ==
    \A i, j \in DOMAIN s : s[j] \in first[s[i]] => i < j

sortGraph ==
    /\ phase = "sort"
    /\ sorted' \in {s \in SetToSeqs(GraphNodes) : TargetsFirst(s)}
    /\ phase' = "cones" /\ k' = 1
    /\ UNCHANGED <<design, todo, cur, conts, infoVars, graphVars, coneVars, sensMap>>

-----------------------------------------------------------------------------
(* generateConeFunctions, first loop: a cone for every node that is driven by *)
(* continuous assignments and used elsewhere. The assignments are pushed in   *)
(* front one by one, in the order of a set of addresses.                      *)
NeedsCone_ReadOnly(d) ==    \* fault: nets that are only watched get no cone
    lhsContinuous[d] # {} /\ "read" \in Uses(d)

NeedsCone(d) ==
    lhsContinuous[d] # {} /\ ~isOnlyInContinuousAssignments(Uses(d))

(* d is also the target of an assignment of a process. *)
IsMixedTarget(d) == Uses(d) \cap {"lhsBlocking", "lhsNonBlocking"} # {}

Copies(op, s) == [i \in DOMAIN s |-> [op |-> op, asg |-> s[i]]]

generateConeFunction ==
    /\ phase = "cones"
    /\ k \in DOMAIN sorted
    /\ NeedsCone(sorted[k])
    /\ \E s \in SetToSeqs(lhsContinuous[sorted[k]]) :
          body' = [body EXCEPT ![sorted[k]] =
                      Copies(IF IsMixedTarget(sorted[k]) THEN "assignTmp" ELSE "assign", s)]
    /\ cones' = cones \cup {sorted[k]}
    /\ k' = k + 1
    /\ UNCHANGED <<design, phase, todo, cur, conts, infoVars, graphVars, sorted, calls, sensMap>>

SkipCone ==
    /\ phase = "cones"
    /\ k \in DOMAIN sorted
    /\ ~NeedsCone(sorted[k])
    /\ k' = k + 1
    /\ UNCHANGED <<design, phase, todo, cur, conts, infoVars, graphVars, sorted, coneVars, sensMap>>

EndCones ==
    /\ phase = "cones"
    /\ k \notin DOMAIN sorted
    /\ phase' = "merge" /\ todo' = cones
    /\ UNCHANGED <<design, cur, k, conts, infoVars, graphVars, sorted, coneVars, sensMap>>

(* Second loop: for each cone d, go through sortedGraph. A parent of d without *)
(* a cone of its own is merged into the cone of d, and the parents of that     *)
(* parent become parents of d.                                                 *)
BeginMerge(d) ==
    /\ phase = "merge"
    /\ cur = {} /\ d \in todo
    /\ cur' = {d} /\ todo' = todo \ {d} /\ k' = 1
    /\ UNCHANGED <<design, phase, conts, infoVars, graphVars, sorted, coneVars, sensMap>>

IsMergeable(p, d) == p \in first[d] /\ p \notin cones

(* Fault: the assignments of the parent are appended. *)
MergeParent_PushBack(d) ==
    /\ phase = "merge"
    /\ d \in cur
    /\ k \in DOMAIN sorted
    /\ IsMergeable(sorted[k], d)
    /\ \E s \in SetToSeqs(lhsContinuous[sorted[k]]) :
          body' = [body EXCEPT ![d] = @ \o Copies("assign", s)]
    /\ first' = [first EXCEPT ![d] = @ \cup first[sorted[k]]]
    /\ second' = [g \in Decls |->
                     IF g \in first[sorted[k]] THEN second[g] \cup {d} ELSE second[g]]
    /\ k' = k + 1
    /\ UNCHANGED <<design, phase, todo, cur, conts, infoVars, sorted, cones, calls, sensMap>>

MergeParent(d) ==
    /\ phase = "merge"
    /\ d \in cur
    /\ k \in DOMAIN sorted
    /\ IsMergeable(sorted[k], d)
    /\ \E s \in SetToSeqs(lhsContinuous[sorted[k]]) :
          body' = [body EXCEPT ![d] = Copies("assign", s) \o @]
    /\ first' = [first EXCEPT ![d] = @ \cup first[sorted[k]]]
    /\ second' = [g \in Decls |->
                     IF g \in first[sorted[k]] THEN second[g] \cup {d} ELSE second[g]]
    /\ k' = k + 1
    /\ UNCHANGED <<design, phase, todo, cur, conts, infoVars, sorted, cones, calls, sensMap>>

SkipParent_Stuck(d) ==      \* fault: the iterator does not advance
    /\ phase = "merge"
    /\ d \in cur
    /\ k \in DOMAIN sorted
    /\ ~IsMergeable(sorted[k], d)
    /\ UNCHANGED vars

SkipParent(d) ==
    /\ phase = "merge"
    /\ d \in cur
    /\ k \in DOMAIN sorted
    /\ ~IsMergeable(sorted[k], d)
    /\ k' = k + 1
    /\ UNCHANGED <<design, phase, todo, cur, conts, infoVars, graphVars, sorted, coneVars, sensMap>>

EndMerge(d) ==
    /\ phase = "merge"
    /\ d \in cur
    /\ k \notin DOMAIN sorted
    /\ cur' = {}
    /\ UNCHANGED <<design, phase, todo, k, conts, infoVars, graphVars, sorted, coneVars, sensMap>>

(* Last loop: the references inside the cones are entered in infoMap. The      *)
(* names local to a cone are variables and do not count.                       *)
Assigned(c) == {i \in DOMAIN body[c] : body[c][i].op \in {"assign", "assignTmp"}}

ReadsOf(c)  == UNION {body[c][i].asg.srcs : i \in Assigned(c)}
WritesOf(c) == {body[c][i].asg.tgt : i \in {j \in Assigned(c) : body[c][j].op = "assign"}}

updateInfos ==
    /\ phase = "merge"
    /\ cur = {} /\ todo = {}
    /\ coneRefs' = {r \in ConeRefs :
                       /\ r.cone \in cones
                       /\ \/ r.use = "read" /\ r.decl \in ReadsOf(r.cone)
                          \/ r.use = "lhsBlocking" /\ r.decl \in WritesOf(r.cone)}
    /\ phase' = "calls" /\ todo' = cones
    /\ UNCHANGED <<design, cur, k, conts, refs, lhsContinuous, wasLhsContinuous,
                   graphVars, sorted, coneVars, sensMap>>

-----------------------------------------------------------------------------
(* addConesPCalls *)
AccessUses_Writes == {"lhsBlocking", "lhsNonBlocking"}   \* fault: no call before reads

AccessUses == {"read", "lhsBlocking", "lhsNonBlocking"}

Accesses(d) == {r.at : r \in {q \in refs : q.decl = d /\ UseOf(q.ctx) \in AccessUses}}

Hosts_Own(d) == {r.cone : r \in {q \in coneRefs : q.decl = d}}   \* fault: its own cone too

(* The other cones that use d, and the first action of one of them that does. *)
Hosts(d) == {r.cone : r \in {q \in coneRefs : q.decl = d}} \ {d}

MentionsAt(c, d) ==
    {i \in Assigned(c) : d \in body[c][i].asg.srcs
                            \/ (body[c][i].op = "assign" /\ d = body[c][i].asg.tgt)}

IsFirstMention(i, c, d) == i \in MentionsAt(c, d) /\ \A j \in MentionsAt(c, d) : i <= j

AddedCalls(d) == [a \in Acts |-> IF a \in Accesses(d) THEN calls[a] \cup {d} ELSE calls[a]]

addConesPCalls(d) ==
    /\ phase = "calls"
    /\ d \in todo
    /\ calls' = AddedCalls(d)
    /\ \E pos \in [Hosts(d) -> UNION {MentionsAt(c, d) : c \in Hosts(d)}] :
          /\ \A c \in Hosts(d) : IsFirstMention(pos[c], c, d)
          /\ body' = [c \in Decls |->
                         IF c \in Hosts(d)
                         THEN InsertAt(body[c], pos[c], [op |-> "call", cone |-> d])
                         ELSE body[c]]
    /\ todo' = todo \ {d}
    /\ UNCHANGED <<design, phase, cur, k, conts, infoVars, graphVars, sorted, cones, sensMap>>

-----------------------------------------------------------------------------
(* calculateParentNodes: the nodes without sources that are reached from d.    *)
(* What is reached from S is the least set with S that succ does not leave.    *)
IsClosed(succ, T) == \A t \in T : succ[t] \subseteq T

Closure(succ, S) ==
    LET closed == {T \in SUBSET Decls : S \subseteq T /\ IsClosed(succ, T)}
    IN {d \in Decls : \A T \in closed : d \in T}

Ancestors(d) == Closure(first, first[d])

Roots_Direct(d) == first[d]     \* fault: the direct sources only

Roots(d) == {s \in Decls : s \in Ancestors(d) /\ first[s] = {}}

calculateParentNodes(d) ==
    sensMap' = [n \in Decls |-> IF n \in {d} \cup Ancestors(d) THEN Roots(n) ELSE sensMap[n]]

(* fixSensitivities: the target of a cone is replaced by its roots in every    *)
(* sensitivity list, of a process or of a wait. The entries are unique by name *)
(* in a list, so the references of a list to one declaration are one.          *)
Sensitivities(d) ==
    {r \in refs : r.decl = d /\ UseOf(r.ctx) \in {"sensitivity", "wait"}}

InCondition(d) == \E r \in Sensitivities(d) : r.ctx = "waitCondition"

RootEntries(d) ==
    {[decl |-> s, ctx |-> r.ctx, at |-> r.at] : s \in Roots(d), r \in Sensitivities(d)}

(* Fault: the roots are not computed when no list names d. *)
fixSensitivities_Early(d) ==
    /\ phase = "sens"
    /\ d \in todo
    /\ ~InCondition(d)
    /\ IF Sensitivities(d) = {} THEN UNCHANGED sensMap ELSE calculateParentNodes(d)
    /\ refs' = (refs \ Sensitivities(d)) \cup RootEntries(d)
    /\ todo' = todo \ {d}
    /\ UNCHANGED <<design, phase, cur, k, conts, coneRefs, lhsContinuous, wasLhsContinuous,
                   graphVars, sorted, coneVars>>

fixSensitivities(d) ==
    /\ phase = "sens"
    /\ d \in todo
    /\ ~InCondition(d)
    /\ calculateParentNodes(d)
    /\ refs' = (refs \ Sensitivities(d)) \cup RootEntries(d)
    /\ todo' = todo \ {d}
    /\ UNCHANGED <<design, phase, cur, k, conts, coneRefs, lhsContinuous, wasLhsContinuous,
                   graphVars, sorted, coneVars>>

(* A reference in the condition of a wait has no sensitivity list: the loop    *)
(* over waitUsing continues without advancing its iterator, for ever.          *)
SpinOnWaitCondition(d) ==
    /\ phase = "sens"
    /\ d \in todo
    /\ InCondition(d)
    /\ UNCHANGED vars

-----------------------------------------------------------------------------
(* clearContinuousAssigns *)
clearContinuousAssigns(d) ==
    /\ phase = "clear"
    /\ d \in todo
    /\ conts' = conts \ lhsContinuous[d]
    /\ lhsContinuous' = [lhsContinuous EXCEPT ![d] = {}]
    /\ todo' = todo \ {d}
    /\ UNCHANGED <<design, phase, cur, k, refs, coneRefs, wasLhsContinuous, graphVars,
                   sorted, coneVars, sensMap>>

-----------------------------------------------------------------------------
(* The loop steps of fixLogicCones that concern one declaration. *)
StepOf(d) ==
    \/ generateLogicConesGraph(d)
    \/ BeginMerge(d) \/ MergeParent(d) \/ SkipParent(d) \/ EndMerge(d)
    \/ addConesPCalls(d)
    \/ fixSensitivities(d) \/ SpinOnWaitCondition(d)
    \/ clearContinuousAssigns(d)

fixLogicCones ==
    \/ sortGraph
    \/ generateConeFunction \/ SkipCone \/ EndCones
    \/ updateInfos
    \/ EndLoop
    \/ \E d \in Decls : StepOf(d)

Returned == phase = "refine" /\ UNCHANGED vars

Next == fixLogicCones \/ Returned

(* The function runs to its end unless a loop of its own prevents it. *)
Spec == Init /\ [][Next]_vars /\ WF_vars(Next)

-----------------------------------------------------------------------------
(* Properties *)

OnExit == phase = "refine"

UsesOnEntry(d) == {UseOf(r.ctx) : r \in {q \in design.refs : q.decl = d}}

AssignedByProcess(d) == UsesOnEntry(d) \cap {"lhsBlocking", "lhsNonBlocking"} # {}

(* What the value of d depends on in the tree on entry, and in the set C of   *)
(* continuous assignments.                                                    *)
SourcesIn(C) == [d \in Decls |-> (UNION {c.srcs : c \in {a \in C : a.tgt = d}}) \ {d}]

RootsIn(C, S) == {s \in Closure(SourcesIn(C), S) : \A c \in C : c.tgt # s}

(* Executing the cone c executes the cones of Executed(c). An assignment that   *)
(* names its own target reads what the others have left there; a refresh copies *)
(* the signal into the shadow, which stands for the same declaration.           *)
CalledBy(c) == {body[c][i].cone : i \in {j \in DOMAIN body[c] : body[c][j].op = "call"}}

Executed(c) == Closure([b \in Decls |-> CalledBy(b)], {c})

ReadBy(it) ==
    CASE it.op = "assign"  -> it.asg.srcs \ {it.asg.tgt}
      [] it.op = "refresh" -> {it.cone}
      [] OTHER             -> {}

SetBy(it) ==
    CASE it.op = "assign"  -> {it.asg.tgt}
      [] it.op = "refresh" -> {it.cone}
      [] OTHER             -> {}

Computes(c) ==
    {s \in Decls : \E b \in Executed(c) : \E i \in DOMAIN body[b] : s \in SetBy(body[b][i])}

(* s has been computed when the entry i of the cone c is executed. *)
ComputedBefore(s, c, i) ==
    \E j \in 1 .. i - 1 :
        \/ s \in SetBy(body[c][j])
        \/ body[c][j].op = "call" /\ s \in Computes(body[c][j].cone)

(* What d reads, itself or through the cones it calls, and nobody has computed. *)
EntersWithout(s) ==
    [c \in Decls |-> {body[c][i].cone : i \in {j \in DOMAIN body[c] :
                          body[c][j].op = "call" /\ ~ComputedBefore(s, c, j)}}]

Exposes(d) ==
    {s \in Decls : \E c \in Closure(EntersWithout(s), {d}) : \E i \in DOMAIN body[c] :
                       s \in ReadBy(body[c][i]) /\ ~ComputedBefore(s, c, i)}

(* A cone leaves its target with the value the continuous assignments gave it: *)
(* every input it reads without having recomputed it is a root, or is still    *)
(* driven by an assignment of the tree, and these are the roots the target had *)
(* on entry. A read of a stale intermediate net would add a root; a lost       *)
(* driver would remove one (generateConeFunctions, addConesPCalls).            *)
ConesComputeTheirTarget ==
    OnExit => \A d \in cones : ~AssignedByProcess(d) =>
        /\ d \in Computes(d)
        /\ RootsIn(conts, Exposes(d)) = RootsIn(design.conts, {d})

(* No generated procedure can reach itself through the calls addConesPCalls    *)
(* inserted: executing a cone always returns.                                  *)
ConeCallsAcyclic ==
    OnExit => \E rank \in Ranks : \A c \in Decls : \A d \in CalledBy(c) : rank[d] < rank[c]

(* Every action of a process that needs the value of a net with a cone is      *)
(* preceded by a call of that cone: addConesPCalls adds calls "where related   *)
(* symbol is read or written".                                                 *)
AccessesRefreshed ==
    OnExit => \A r \in design.refs :
        r.ctx \in ReadContexts /\ r.decl \in cones => r.decl \in calls[r.at]

(* Once fixSensitivities has visited a cone, no list names a net that is       *)
(* computed from others: such an entry would never fire, since the net is only *)
(* assigned when some process calls its cone.                                  *)
ListsNameRoots ==
    phase \in {"sens", "clear", "refine"} =>
        \A d \in cones : first[d] # {} /\ (phase = "sens" => d \notin todo)
            => Sensitivities(d) = {}

(* What may change while the design runs, apart from nets: ports and whatever  *)
(* a process writes or an instance is bound to.                                *)
CanChange(s) ==
    \/ s \in design.ports
    \/ \E r \in design.refs : r.decl = s /\ r.ctx \in WriteContexts \cup {"portActual"}

(* No wake-up is lost: a process or wait that was sensitive to a net with a    *)
(* cone is sensitive to everything that may change and that the continuous     *)
(* assignments computed the net from.                                          *)
WakesOnRoots ==
    OnExit => \A r \in design.refs :
        UseOf(r.ctx) \in {"sensitivity", "wait"} /\ r.decl \in cones =>
            \A s \in RootsIn(design.conts, {r.decl}) :
                CanChange(s) => [decl |-> s, ctx |-> r.ctx, at |-> r.at] \in refs

(* A continuous assignment that stays in the tree is executed once, when the   *)
(* simulation starts ("only written by constant", generateLogicConesGraph), so *)
(* nothing it names ever changes, directly or through other nets.              *)
KeptDriversAreConstant ==
    OnExit => \A c \in conts : \A s \in RootsIn(design.conts, c.srcs \ {c.tgt}) : ~CanChange(s)

(* A continuous assignment leaves the tree only if a cone has replaced it or   *)
(* no process, list or instance uses its target.                               *)
DriversAreReplaced ==
    [][\A c \in conts \ conts' :
          c.tgt \in cones \/ isOnlyInContinuousAssignments(UsesOnEntry(c.tgt))]_vars

(* fixLogicCones returns. *)
Termination == <>(phase = "refine")
=============================================================================
