-------------------------- MODULE RefineToVariables --------------------------
(****************************************************************************)
(* refineToVariables of FixDescription_3.cpp, run after fixLogicCones: every  *)
(* signal stays a signal, becomes a variable, or is shadowed by a variable    *)
(* (x_sig_var) that takes over the blocking writes and the reads while the    *)
(* signal itself keeps the non-blocking writes, the sensitivities and the     *)
(* bindings. The two are kept in step by write-backs after each write of the  *)
(* shadow, by the cone of the signal, which copies it into the shadow, and by *)
(* a process that publishes the shadow when a root of the signal changes.     *)
(****************************************************************************)
EXTENDS LogicCones

VARIABLES
    kind,           \* what each declaration has been refined to
    writeBacks,     \* references followed by an assignment signal <= shadow
    syncList        \* sensitivity of the sync process of each signal, {} for none

refineVars == <<kind, writeBacks, syncList>>
step3Vars  == <<vars, refineVars>>

Kinds == {"unrefined", "signal", "variable", "shadowed"}

RefineTypeOK ==
    /\ TypeOK
    /\ kind \in [Decls -> Kinds]
    /\ writeBacks \subseteq Refs
    /\ syncList \in [Decls -> SUBSET Decls]

Step3Init ==
    /\ Init
    /\ kind = [d \in Decls |-> "unrefined"]
    /\ writeBacks = {}
    /\ syncList = [d \in Decls |-> {}]

-----------------------------------------------------------------------------
MustBeSignal(d)   == isSignal(d \in design.ports, Uses(d))
MustBeVariable(d) == isVariable(Uses(d), wasLhsContinuous[d])

Visit(d, result) ==
    /\ phase = "refine"
    /\ d \in todo
    /\ todo' = todo \ {d}
    /\ kind' = [kind EXCEPT ![d] = result]

KeepSignal(d) ==
    /\ MustBeSignal(d) /\ ~MustBeVariable(d)
    /\ Visit(d, "signal")
    /\ UNCHANGED <<design, phase, cur, k, conts, infoVars, graphVars, sorted, coneVars,
                   sensMap, writeBacks, syncList>>

BecomeVariable(d) ==
    /\ ~MustBeSignal(d)
    /\ Visit(d, "variable")
    /\ UNCHANGED <<design, phase, cur, k, conts, infoVars, graphVars, sorted, coneVars,
                   sensMap, writeBacks, syncList>>

(* The blocking assignments and the calls that write d now write the shadow    *)
(* and are followed by its publication; no reference of refs is in a cone,     *)
(* where nothing is published.                                                 *)
WrittenBack_Assigns(d) ==   \* fault: only assignments are followed by a publication
    {r \in refs : r.decl = d /\ UseOf(r.ctx) = "lhsBlocking"}

WrittenBack(d) ==
    {r \in refs : r.decl = d /\ UseOf(r.ctx) \in {"lhsBlocking", "lhsCall"}}

Refresh(d) == [op |-> "refresh", cone |-> d]

(* The body of c with its entry n moved to place[n] and calls of d in between. *)
CallsBetween(c, d, place) ==
    [j \in 1 .. Len(body[c]) + Cardinality(MentionsAt(c, d)) |->
        IF \E n \in DOMAIN body[c] : place[n] = j
        THEN body[c][CHOOSE n \in DOMAIN body[c] : place[n] = j]
        ELSE [op |-> "call", cone |-> d]]

(* The second use of addConesPCalls sees a map with the cone of d alone, so    *)
(* every action of another cone that mentions d gets a call of its own.        *)
CallAtEachMention_After(c, d) ==    \* fault: the call follows the action
    CallsBetween(c, d, [n \in DOMAIN body[c] |-> n + Cardinality({m \in MentionsAt(c, d) : m < n})])

CallAtEachMention(c, d) ==
    CallsBetween(c, d, [n \in DOMAIN body[c] |-> n + Cardinality({m \in MentionsAt(c, d) : m <= n})])

(* Non-blocking writes reach the shadow through the cone of d: the cone is      *)
(* created and called where d is accessed if d has none, and starts with        *)
(* "if (d !== old_d) { old_d = d; shadow = old_d; }".                           *)
AddRefresh_NoCalls(d) ==    \* fault: a new cone is not called by processes
    /\ cones' = cones \cup {d}
    /\ body' = [c \in Decls |->
                   IF c = d THEN <<Refresh(d)>> \o body[d]
                   ELSE IF c \in Hosts(d) /\ d \notin cones THEN CallAtEachMention(c, d)
                   ELSE body[c]]
    /\ UNCHANGED calls

AddRefresh(d) ==
    IF d \in cones
    THEN /\ body' = [body EXCEPT ![d] = <<Refresh(d)>> \o @]
         /\ UNCHANGED <<cones, calls>>
    ELSE /\ cones' = cones \cup {d}
         /\ calls' = AddedCalls(d)
         /\ body' = [c \in Decls |->
                        IF c = d THEN <<Refresh(d)>>
                        ELSE IF c \in Hosts(d) THEN CallAtEachMention(c, d)
                        ELSE body[c]]

ShadowSignal(d) ==
    /\ MustBeSignal(d) /\ MustBeVariable(d)
    /\ Visit(d, "shadowed")
    /\ writeBacks' = writeBacks \cup WrittenBack(d)
    /\ IF "lhsNonBlocking" \in Uses(d) THEN AddRefresh(d) ELSE UNCHANGED coneVars
    /\ syncList' = [syncList EXCEPT ![d] = sensMap[d]]
    /\ UNCHANGED <<design, phase, cur, k, conts, infoVars, graphVars, sorted, sensMap>>

refineToVariables(d) == KeepSignal(d) \/ BecomeVariable(d) \/ ShadowSignal(d)

Step3Returned == phase = "refine" /\ todo = {} /\ UNCHANGED step3Vars

Step3Next ==
    \/ fixLogicCones /\ UNCHANGED refineVars
    \/ \E d \in Decls : refineToVariables(d)
    \/ Step3Returned

Step3Spec == Step3Init /\ [][Step3Next]_step3Vars /\ WF_step3Vars(Step3Next)

-----------------------------------------------------------------------------
(* Properties *)
Refined == phase = "refine" /\ todo = {}

(* Every write a process makes to the shadow of a signal is published to the   *)
(* signal, a write through an out or inout argument of a task included.        *)
ShadowWritesPublished ==
    Refined => \A r \in design.refs :
        /\ kind[r.decl] = "shadowed"
        /\ r.ctx \in WriteContexts \ {"nonblockingLhs"}
        => r \in writeBacks

(* What processes, waits and the generated sync processes are sensitive to,    *)
(* and what is bound to a port, is still a signal: nothing wakes on a variable. *)
WatchersSeeSignals ==
    Refined => \A d \in Decls : kind[d] = "variable" =>
        /\ \A r \in refs : r.decl = d => UseOf(r.ctx) \notin {"sensitivity", "wait", "bind", "port"}
        /\ \A s \in Decls : d \notin syncList[s]

(* A net with a cone whose signal is still visible outside the processes that  *)
(* call the cone (a bound net) is published by a process that is sensitive to  *)
(* everything that may change and that the net was computed from.              *)
ShadowedNetsPublished ==
    Refined => \A d \in Decls :
        kind[d] = "shadowed" /\ (\E c \in design.conts : c.tgt = d) =>
            {s \in RootsIn(design.conts, {d}) : CanChange(s)} \subseteq syncList[d]

(* A cone that refreshes a shadow is called before every access to it, in the   *)
(* bodies of other cones as well.                                              *)
ShadowReadersRefreshed ==
    Refined => \A d \in cones : kind[d] = "shadowed" => \A c \in Hosts(d) :
        \A n \in MentionsAt(c, d) :
            \E m \in 1 .. n : body[c][m] = [op |-> "call", cone |-> d]

(* A net that is named in the condition of a wait. *)
WaitsOnNet == \E d \in Decls : InCondition(d) /\ d \in cones

(* Both functions return, unless a wait condition names a net with a cone.     *)
Step3Termination == <>(Refined \/ WaitsOnNet)
=============================================================================
