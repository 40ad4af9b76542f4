----------------------------- MODULE PrerefineFixes -----------------------------
(****************************************************************************)
(* prerefineFixes of FixDescription_3.cpp, which prepares the tree for        *)
(* fixLogicCones: signals nobody names become variables (fixUnreferenced),     *)
(* output ports are only assigned by non-blocking assignments of processes     *)
(* (fixOutputPorts), and temporaries only by blocking ones (performChecks).    *)
(* Each function walks the reference map, which is keyed by addresses: it      *)
(* visits the declarations in any order, and fixOutputPorts extends the map    *)
(* while it walks it.                                                         *)
(****************************************************************************)
CONSTANTS
    Decls,      \* declarations of the tree on entry
    Assigns,    \* its assignments
    Watchers,   \* processes and lists: the places of the other references
    Designs     \* the designs the function may be given

DeclKinds == {"port", "signal", "variable", "parameter"}     \* port: out or inout

(* continuous: of a global action; the others are in a process.                *)
AssignKinds == {"continuous", "blocking", "nonblocking"}

(* What a reference names: a declaration, or the signal that replaces a port.  *)
Names == [decl : Decls, out_sig : BOOLEAN]

Own(d)     == [decl |-> d, out_sig |-> FALSE]
OutSig(d)  == [decl |-> d, out_sig |-> TRUE]

(* A global action assigns ports and signals only. watched: what the          *)
(* references outside of the assignments read.                                *)
WellFormed(D) ==
    /\ D.kind \in [Decls -> DeclKinds]
    /\ D.target \in [Assigns -> Decls]
    /\ D.how \in [Assigns -> AssignKinds]
    /\ D.reads \in [Assigns -> SUBSET Decls]
    /\ D.watched \in [Watchers -> SUBSET Decls]
    /\ \A a \in Assigns : D.how[a] = "continuous" => D.kind[D.target[a]] \in {"port", "signal"}

ASSUME DesignsAssumption == \A D \in Designs : WellFormed(D)

VARIABLES
    design,     \* the tree on entry (never changed)
    phase,      \* the function being executed
    todo,       \* declarations its loop has not visited yet
    kind,       \* what each declaration is
    target,     \* what each assignment assigns
    how,        \* the kind of each assignment
    reads,      \* what each assignment reads
    watched,    \* what the other references name
    sens,       \* sensitivity of the process a global action became, {} for none
    updated     \* ports with an update process

vars == <<design, phase, todo, kind, target, how, reads, watched, sens, updated>>

Phases == {"unreferenced", "ports", "checks", "done"}

TypeOK ==
    /\ WellFormed(design)
    /\ phase \in Phases
    /\ todo \subseteq Decls
    /\ kind \in [Decls -> DeclKinds]
    /\ target \in [Assigns -> Names]
    /\ how \in [Assigns -> AssignKinds]
    /\ reads \in [Assigns -> SUBSET Names]
    /\ watched \in [Watchers -> SUBSET Names]
    /\ sens \in [Assigns -> SUBSET Names]
    /\ updated \subseteq {d \in Decls : kind[d] = "port"}

Init ==
    /\ design \in Designs
    /\ phase = "unreferenced"
    /\ todo = Decls
    /\ kind = design.kind
    /\ target = [a \in Assigns |-> Own(design.target[a])]
    /\ how = design.how
    /\ reads = [a \in Assigns |-> {Own(d) : d \in design.reads[a]}]
    /\ watched = [w \in Watchers |-> {Own(d) : d \in design.watched[w]}]
    /\ sens = [a \in Assigns |-> {}]
    /\ updated = {}

-----------------------------------------------------------------------------
Following == [unreferenced |-> "ports", ports |-> "checks", checks |-> "done"]

EndLoop ==
    /\ phase \in DOMAIN Following
    /\ todo = {}
    /\ phase' = Following[phase]
    /\ todo' = IF phase' = "done" THEN {} ELSE Decls
    /\ UNCHANGED <<design, kind, target, how, reads, watched, sens, updated>>

Visits(p, d) ==
    /\ phase = p
    /\ d \in todo
    /\ todo' = todo \ {d}

(* The references to a name that read it, sensitivities included.              *)
IsRead_NoLists(n) ==    \* fault: only expressions count
    \E a \in Assigns : n \in reads[a]

IsRead(n) ==
    \/ \E a \in Assigns : n \in reads[a] \cup sens[a]
    \/ \E w \in Watchers : n \in watched[w]

IsReferenced(n) == IsRead(n) \/ \E a \in Assigns : target[a] = n

fixUnreferenced(d) ==
    /\ Visits("unreferenced", d)
    /\ kind' = IF kind[d] = "signal" /\ ~IsReferenced(Own(d))
               THEN [kind EXCEPT ![d] = "variable"] ELSE kind
    /\ UNCHANGED <<design, phase, target, how, reads, watched, sens, updated>>

-----------------------------------------------------------------------------
(* fixOutputPorts *)

IsOutputPort_OrSignal(p) == kind[p] \in {"port", "signal"}     \* fault: every declaration is treated

IsOutputPort(p) == kind[p] = "port"

continuousTargets(p) ==
    {a \in Assigns : target[a] = Own(p) /\ how[a] \in {"continuous", "blocking"}}

(* Only non-blocking assignments: readers see a delta cycle, as in Verilog.    *)
SkipPort(p) ==
    /\ Visits("ports", p)
    /\ ~IsOutputPort(p) \/ continuousTargets(p) = {}
    /\ UNCHANGED <<design, phase, kind, target, how, reads, watched, sens, updated>>

(* Nobody reads the port: every assignment becomes non-blocking, and the       *)
(* global actions become processes that are sensitive to what they read.       *)
ToGlobal(p) == {a \in continuousTargets(p) : how[a] = "continuous"}

ToNonBlocking_Global(p) == ToGlobal(p)      \* fault: assignments of processes are left as they are

ToNonBlocking(p) == continuousTargets(p)

AssignByProcess(p) ==
    /\ Visits("ports", p)
    /\ IsOutputPort(p) /\ continuousTargets(p) # {}
    /\ ~IsRead(Own(p))
    /\ how' = [a \in Assigns |-> IF a \in ToNonBlocking(p) THEN "nonblocking" ELSE how[a]]
    /\ sens' = [a \in Assigns |-> IF a \in ToGlobal(p) THEN reads[a] ELSE sens[a]]
    /\ UNCHANGED <<design, phase, kind, target, reads, watched, updated>>

(* The port is read too: a signal takes all its references but the bindings    *)
(* of instances, and a process copies the signal to the port. The lists of     *)
(* the processes made for other ports are in the reference map by now.         *)
Renamed(p, S) == {IF n = Own(p) THEN OutSig(p) ELSE n : n \in S}

RenamedLists_Old(p) == sens     \* fault: the lists made by this function are not in the map

RenamedLists(p) == [a \in Assigns |-> Renamed(p, sens[a])]

ReplaceByOutSig(p) ==
    /\ Visits("ports", p)
    /\ IsOutputPort(p) /\ continuousTargets(p) # {}
    /\ IsRead(Own(p))
    /\ target' = [a \in Assigns |-> IF target[a] = Own(p) THEN OutSig(p) ELSE target[a]]
    /\ reads' = [a \in Assigns |-> Renamed(p, reads[a])]
    /\ sens' = RenamedLists(p)
    /\ watched' = [w \in Watchers |-> Renamed(p, watched[w])]
    /\ updated' = updated \cup {p}
    /\ UNCHANGED <<design, phase, kind, how>>

fixOutputPorts(p) == SkipPort(p) \/ AssignByProcess(p) \/ ReplaceByOutSig(p)

-----------------------------------------------------------------------------
(* performChecks: parameters and variables of tasks and functions are          *)
(* temporaries, they cannot be assigned as non-blocking.                       *)
MustBlock_Parameters(d) == kind[d] = "parameter"    \* fault: variables are forgotten

MustBlock(d) == kind[d] \in {"parameter", "variable"}

performChecks(d) ==
    /\ Visits("checks", d)
    /\ how' = [a \in Assigns |->
                  IF MustBlock(d) /\ target[a] = Own(d) /\ how[a] = "nonblocking"
                  THEN "blocking" ELSE how[a]]
    /\ UNCHANGED <<design, phase, kind, target, reads, watched, sens, updated>>

-----------------------------------------------------------------------------
prerefineFixes ==
    \/ \E d \in Decls : fixUnreferenced(d) \/ fixOutputPorts(d) \/ performChecks(d)
    \/ EndLoop

Returned == phase = "done" /\ UNCHANGED vars

Next == prerefineFixes \/ Returned

Spec == Init /\ [][Next]_vars /\ WF_vars(Next)

-----------------------------------------------------------------------------
(* Properties *)
Done == phase = "done"

(* What fixLogicCones relies on: no port is the target of a continuous or      *)
(* blocking assignment any more. A port has one driver more than its           *)
(* non-blocking assignments only if a signal has taken its references.         *)
PortsAreAssignedByProcesses ==
    Done => \A p \in Decls : kind[p] = "port" =>
        /\ continuousTargets(p) = {}
        /\ p \in updated => \A a \in Assigns : target[a] # Own(p)

(* A process made from a global action wakes on exactly what it reads, also    *)
(* after a port it reads has been replaced by a signal: fixOutputPorts enters   *)
(* the new references in the map it is walking.                                *)
MadeProcessesWakeOnReads ==
    \A a \in Assigns : how[a] # "continuous" /\ design.how[a] = "continuous" => sens[a] = reads[a]

(* Which ports are replaced is decided by the tree on entry alone, although    *)
(* each port is decided on references that the visits before may have changed: *)
(* the result is the same in every order, and readers and immediate writers    *)
(* of a port agree on one declaration.                                         *)
ReadOnEntry(p) ==
    (\E a \in Assigns : p \in design.reads[a]) \/ (\E w \in Watchers : p \in design.watched[w])

ReplacedPortsAreFixed ==
    Done => updated =
        {p \in Decls : /\ design.kind[p] = "port" /\ ReadOnEntry(p)
                       /\ \E a \in Assigns : /\ design.target[a] = p
                                             /\ design.how[a] # "nonblocking"}

(* No temporary is left with a non-blocking assignment, and no assignment of a *)
(* signal or port changes its kind here unless its port is not read.           *)
TemporariesAreBlocking ==
    Done => \A a \in Assigns :
        IF kind[target[a].decl] \in {"parameter", "variable"} THEN how[a] # "nonblocking"
        ELSE how[a] # design.how[a] =>
                 design.kind[target[a].decl] = "port" /\ ~ReadOnEntry(target[a].decl)
=============================================================================
