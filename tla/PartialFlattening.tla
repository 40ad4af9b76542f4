--------------------------- MODULE PartialFlattening ---------------------------
(****************************************************************************)
(* partialFlattening of FixDescription_3.cpp: instances are inlined until no  *)
(* port of an instantiated unit, and no net bound to one, has to be both a    *)
(* signal and a variable. Each round classifies the declarations anew, since  *)
(* inlining gives a net the uses of the ports that were bound to it. The loop *)
(* has no bound: it ends when a round asks for nothing, for top units only,   *)
(* or for the same as the round before.                                      *)
(*                                                                           *)
(* flattenDesign is part of hif-core: it drops the losing branches of if      *)
(* generates, inlines the instances it is asked for, innermost first, and may *)
(* delete a unit all of whose instances it has inlined.                       *)
(****************************************************************************)
EXTENDS ReferenceUse, Sequences

CONSTANTS
    Units,      \* design units (views)
    Names,      \* names of declarations in a unit
    InstNames,  \* names of instances
    Designs     \* the designs the loop may be given

Paths == Seq(InstNames)

(* A declaration of a unit; path is the instance it was inlined from.          *)
AllDecls == [in : Units, path : Paths, name : Names]

(* An instance: bind maps the ports of the unit it refers to to declarations   *)
(* of the unit it is in. losing: it is in a branch elaboration will discard.   *)
BoundBy(i) == {i.bind[p] : p \in DOMAIN i.bind}

IsInstance(i) ==
    /\ i.of \in Units /\ i.in \in Units
    /\ i.path \in Paths
    /\ DOMAIN i.bind \subseteq AllDecls /\ BoundBy(i) \subseteq AllDecls
    /\ i.losing \in BOOLEAN

PortUses == {"port", "bind"}
UnitRefs == [decl : AllDecls, use : UseKinds \ PortUses]

WellFormed(D) ==
    /\ D.preserveStructure \in BOOLEAN
    /\ D.topViews \subseteq Units
    /\ D.ports \subseteq AllDecls /\ D.outs \subseteq D.ports
    /\ D.refs \subseteq UnitRefs
    /\ \A i \in D.insts : IsInstance(i) /\ i.of \notin D.topViews

ASSUME DesignsAssumption == \A D \in Designs : WellFormed(D)

VARIABLES
    design,             \* the tree on entry (never changed)
    phase,              \* where the loop is
    insts, refs,        \* instances and references of the tree
    views, viewRefs,    \* units and instances this round asks for
    previous            \* what the previous rounds asked for last: {} or one pair

vars == <<design, phase, insts, refs, views, viewRefs, previous>>

Init ==
    /\ design \in Designs
    /\ phase = "start"
    /\ insts = design.insts
    /\ refs = design.refs
    /\ views = {} /\ viewRefs = {}
    /\ previous = {}

-----------------------------------------------------------------------------
(* fillInfoMap: the references and, for instances, both sides of a binding.    *)
Uses(d) ==
    {r.use : r \in {q \in refs : q.decl = d}}
        \cup {u \in {"port"} : \E i \in insts : d \in DOMAIN i.bind}
        \cup {u \in {"bind"} : \E i \in insts : d \in BoundBy(i)}

IsPort(d) == d \in design.ports

(* Declarations that are connections and have to be signals and variables.     *)
NeedsBoth(d) ==
    /\ isConnectionSignal(IsPort(d), Uses(d))
    /\ isSignal(IsPort(d), Uses(d))
    /\ isVariable(Uses(d), "lhsContinuous" \in Uses(d))

(* collectOnAssigns with fillViewSets. *)
AskedViews == {d.in : d \in {e \in design.ports \cup UNION {DOMAIN i.bind : i \in insts} : NeedsBoth(e)}}

AskedRefs == {i \in insts : \E d \in BoundBy(i) : NeedsBoth(d)}

(* collectOnOutputPorts: before the first round only. *)
OutputPortViews ==
    {p.in : p \in {o \in design.outs : [decl |-> o, use |-> "lhsContinuous"] \in refs}}

Preserve ==
    /\ phase = "start"
    /\ design.preserveStructure
    /\ phase' = "done"
    /\ UNCHANGED <<design, insts, refs, views, viewRefs, previous>>

collectOnOutputPorts ==
    /\ phase = "start"
    /\ ~design.preserveStructure
    /\ views' = OutputPortViews
    /\ phase' = "collect"
    /\ UNCHANGED <<design, insts, refs, viewRefs, previous>>

-----------------------------------------------------------------------------
(* One round: collect, compare with the previous round, flatten. *)
checkTopViews(V) == V \subseteq design.topViews

Asked == [views |-> views \cup AskedViews, viewRefs |-> AskedRefs]

needsFlattening == ~checkTopViews(Asked.views) \/ Asked.viewRefs # {}

Repeated_Never == FALSE     \* fault: rounds are not compared

Repeated_Views == \E p \in previous : p.views = Asked.views     \* fault: only the units are

Repeated == Asked \in previous

BeginRound_Forget ==    \* fault: what was asked for is not remembered
    /\ phase = "collect"
    /\ needsFlattening /\ ~Repeated
    /\ views' = Asked.views /\ viewRefs' = Asked.viewRefs
    /\ phase' = "elaborate"
    /\ UNCHANGED <<design, insts, refs, previous>>

BeginRound ==
    /\ phase = "collect"
    /\ needsFlattening /\ ~Repeated
    /\ views' = Asked.views /\ viewRefs' = Asked.viewRefs
    /\ previous' = {Asked}
    /\ phase' = "elaborate"
    /\ UNCHANGED <<design, insts, refs>>

LastRound ==
    /\ phase = "collect"
    /\ ~needsFlattening \/ Repeated
    /\ phase' = "done"
    /\ UNCHANGED <<design, insts, refs, views, viewRefs, previous>>

DiscardLosingBranches ==
    /\ phase = "elaborate"
    /\ insts' = {i \in insts : ~i.losing}
    /\ phase' = "inline"
    /\ UNCHANGED <<design, refs, views, viewRefs, previous>>

-----------------------------------------------------------------------------
(* Inlining i: its declarations and instances are copied into the unit i is in, *)
(* and a port is the declaration it was bound to.                              *)
Copy(i, d) ==
    IF d \in DOMAIN i.bind THEN i.bind[d] ELSE [in |-> i.in, path |-> i.path \o d.path, name |-> d.name]

CopyInstance(i, j) ==
    [of |-> j.of, in |-> i.in, path |-> i.path \o j.path, losing |-> j.losing,
     bind |-> [p \in DOMAIN j.bind |-> Copy(i, j.bind[p])]]

Pending == {i \in insts : i.of \in views \/ i \in viewRefs}

Inline(i) ==
    /\ phase = "inline"
    /\ i \in Pending
    /\ \A j \in Pending : j.in # i.of
    /\ insts' = (insts \ {i}) \cup {CopyInstance(i, j) : j \in {h \in insts : h.in = i.of}}
    /\ refs' = refs \cup {[decl |-> Copy(i, r.decl), use |-> r.use] : r \in {q \in refs : q.decl.in = i.of}}
    /\ UNCHANGED <<design, phase, views, viewRefs, previous>>

(* The end of flattenDesign, and the new references and empty sets after it.   *)
EndRound ==
    /\ phase = "inline"
    /\ Pending = {}
    /\ \E gone \in SUBSET {u \in views \ design.topViews : \A i \in insts : i.of # u} :
          /\ insts' = {i \in insts : i.in \notin gone}
          /\ refs' = {r \in refs : r.decl.in \notin gone}
    /\ views' = {} /\ viewRefs' = {}
    /\ phase' = "collect"
    /\ UNCHANGED <<design, previous>>

partialFlattening ==
    \/ Preserve \/ collectOnOutputPorts
    \/ BeginRound \/ DiscardLosingBranches \/ (\E i \in insts : Inline(i)) \/ EndRound
    \/ LastRound

Returned == phase = "done" /\ UNCHANGED vars

Next == partialFlattening \/ Returned

Spec == Init /\ [][Next]_vars /\ WF_vars(Next)

-----------------------------------------------------------------------------
(* Properties *)
TypeOK ==
    /\ WellFormed(design)
    /\ phase \in {"start", "collect", "elaborate", "inline", "done"}
    /\ \A i \in insts : IsInstance(i) /\ i.of \notin design.topViews
    /\ refs \subseteq UnitRefs
    /\ views \subseteq Units
    /\ phase \in {"elaborate", "inline"} => previous = {[views |-> views, viewRefs |-> viewRefs]}

(* "The work left undone is flattening a design unit nothing instantiates":    *)
(* when the loop ends, for either reason, no instance is left whose ports, or  *)
(* whose bound nets, need two natures.                                         *)
LeftoverIsUninstantiated ==
    phase = "done" /\ ~design.preserveStructure =>
        \A i \in insts : \A d \in {p \in design.ports : p.in = i.of} \cup BoundBy(i) : ~NeedsBoth(d)

(* The loop ends, although it has no bound of its own: rounds that repeat the   *)
(* previous one are the only ones without progress.                            *)
Termination == <>(phase = "done")
=============================================================================
