---------------------------- MODULE SplitLogicCones ----------------------------
(****************************************************************************)
(* splitLogicConesLoops of FixDescription_3.cpp. Every continuous assignment *)
(* to a part of a declaration (a member or a slice) is redirected to a fresh  *)
(* signal, a second assignment copies that signal back to the part, and the    *)
(* references that name exactly this part name the signal instead. A net      *)
(* whose parts depend on each other then no longer depends on itself.         *)
(*                                                                           *)
(* The left-hand side of such an assignment is its token. Declarations and     *)
(* tokens are kept in sets of addresses: they are visited in any order, the    *)
(* tokens of one declaration together.                                        *)
(****************************************************************************)
EXTENDS Naturals

CONSTANTS
    Decls,      \* the declarations of the design
    Parts,      \* the ways to name a declaration or a part of it
    BitsOf,     \* [Parts -> SUBSET Nat]: the bits a part covers
    Whole,      \* the part that is the declaration itself, no member or slice
    None,       \* no token
    Tokens,     \* continuous assignments; an assignment stands for its left-hand side
    Places,     \* processes, bindings and lists: everything else that has references
    Scopes,     \* "module" and the for generates
    Designs     \* the designs splitLogicConesLoops may be given

Exprs == [decl : Decls, part : Parts]

(* A reference: the maximal member or slice chain it is the prefix of, what    *)
(* contains it, and the scope it is in. An index is a reference whose chain    *)
(* climbs into the expression it indexes.                                      *)
Sites == [expr : Exprs, in : Tokens \cup Places, scope : Scopes,
          role : {"target", "read", "index"}]

TargetSite(D, t) == [expr |-> D.tgt[t], in |-> t, scope |-> D.scope[t], role |-> "target"]

(* Only the assignments of a design have a reference that is their target.     *)
WellFormed(D) ==
    /\ D.assigns \subseteq Tokens
    /\ D.tgt \in [Tokens -> Exprs]
    /\ D.scope \in [Tokens -> Scopes]
    /\ D.sites \subseteq Sites
    /\ \A t \in D.assigns : TargetSite(D, t) \in D.sites
    /\ \A s \in D.sites : s.in \in Tokens =>
            s.in \in D.assigns /\ (s.role = "target" => s = TargetSite(D, s.in))

ASSUME PartsAssumption ==
    /\ Whole \in Parts
    /\ BitsOf \in [Parts -> (SUBSET Nat) \ {{}}]
    /\ \A p \in Parts : BitsOf[p] \subseteq BitsOf[Whole]
ASSUME TokensAssumption == None \notin Tokens /\ Tokens \cap Places = {}
ASSUME DesignsAssumption == \A D \in Designs : WellFormed(D)

VARIABLES
    design,     \* the tree on entry (never changed)
    phase,      \* "split", or how the function ended: "done" or "aborted"
    todo,       \* tokens not visited yet
    names,      \* the token whose signal a reference names now, or None
    splitIn,    \* the scope of the signal of each token, "" if it has none
    copied      \* tokens with an assignment that copies the signal to the part

vars == <<design, phase, todo, names, splitIn, copied>>

(* assignQuery: continuous assignments to a member or a slice. *)
Candidates(D) == {t \in D.assigns : D.tgt[t].part # Whole}

TypeOK ==
    /\ WellFormed(design)
    /\ phase \in {"split", "done", "aborted"}
    /\ todo \subseteq Candidates(design)
    /\ names \in [design.sites -> Tokens \cup {None}]
    /\ splitIn \in [Tokens -> Scopes \cup {""}]
    /\ copied = Candidates(design) \ todo

Init ==
    /\ design \in Designs
    /\ phase = "split"
    /\ todo = Candidates(design)
    /\ names = [s \in design.sites |-> None]
    /\ splitIn = [t \in Tokens |-> ""]
    /\ copied = {}

-----------------------------------------------------------------------------
(* refMatchesToken compares the whole chain with the token: a part of the part *)
(* or a range that contains it is another expression.                          *)
refMatchesToken_Overlap(s, t) ==    \* fault: a range that shares a bit is replaced
    /\ s.role # "index"
    /\ s.expr.decl = design.tgt[t].decl
    /\ BitsOf[s.expr.part] \cap BitsOf[design.tgt[t].part] # {}

refMatchesToken_Targets(s, t) ==    \* fault: only the assignments are redirected
    s.role = "target" /\ s.expr = design.tgt[t]

refMatchesToken(s, t) == s.role # "index" /\ s.expr = design.tgt[t]

(* A reference that was replaced is detached: it matches its token only.       *)
Attached(s) == names[s] = None

(* The tokens of one declaration are visited before those of the next.         *)
Started(d) ==
    LET ofDecl == {t \in Candidates(design) : design.tgt[t].decl = d}
    IN ofDecl \cap todo # {} /\ ~(ofDecl \subseteq todo)

Visits(t) ==
    /\ phase = "split"
    /\ t \in todo
    /\ \A d \in Decls \ {design.tgt[t].decl} : ~Started(d)

(* The signal is declared in the for generate of the assignment, if any, and   *)
(* beside the declaration otherwise.                                           *)
SplitScope(t) == design.scope[t]

SplitToken_Again(t) ==      \* fault: the token is left in the set
    /\ Visits(t)
    /\ Attached(TargetSite(design, t))
    /\ splitIn' = [splitIn EXCEPT ![t] = SplitScope(t)]
    /\ copied' = copied \cup {t}
    /\ names' = [s \in design.sites |->
                    IF Attached(s) /\ refMatchesToken(s, t) THEN t ELSE names[s]]
    /\ UNCHANGED <<design, phase, todo>>

SplitToken(t) ==
    /\ Visits(t)
    /\ Attached(TargetSite(design, t))
    /\ splitIn' = [splitIn EXCEPT ![t] = SplitScope(t)]
    /\ copied' = copied \cup {t}
    /\ names' = [s \in design.sites |->
                    IF Attached(s) /\ refMatchesToken(s, t) THEN t ELSE names[s]]
    /\ todo' = todo \ {t}
    /\ UNCHANGED <<design, phase>>

(* messageAssert: the left-hand side has no parent any more.                   *)
AbortOnDetachedToken(t) ==
    /\ Visits(t)
    /\ ~Attached(TargetSite(design, t))
    /\ phase' = "aborted"
    /\ UNCHANGED <<design, todo, names, splitIn, copied>>

EndSplit ==
    /\ phase = "split"
    /\ todo = {}
    /\ phase' = "done"
    /\ UNCHANGED <<design, todo, names, splitIn, copied>>

splitLogicConesLoops ==
    \/ \E t \in Tokens : SplitToken(t) \/ AbortOnDetachedToken(t)
    \/ EndSplit

Ended == phase # "split" /\ UNCHANGED vars

Next == splitLogicConesLoops \/ Ended

Spec == Init /\ [][Next]_vars /\ WF_vars(Next)

-----------------------------------------------------------------------------
(* Properties *)

Done == phase = "done"

Writers == {w \in design.sites : w.role = "target"}
Readers == design.sites \ Writers

Overlap(e, f) == e.decl = f.decl /\ BitsOf[e.part] \cap BitsOf[f.part] # {}

(* Who drives what s reads: in the tree on entry, and now. A reference to a    *)
(* declaration sees the writers of the declaration itself and, through the     *)
(* copies, the writers of its signals: those of the bits it reads, or all of   *)
(* them in the graph of the declarations, which knows no bits.                 *)
DriversOnEntry(s) == {w \in Writers : Overlap(w.expr, s.expr)}

WritersOf(t) == {w \in Writers : names[w] = t}

BitDrivers(s) ==
    IF ~Attached(s) THEN WritersOf(names[s])
    ELSE {w \in DriversOnEntry(s) : Attached(w)}
             \cup UNION {WritersOf(t) : t \in {c \in copied : Overlap(design.tgt[c], s.expr)}}

NetDrivers(s) ==
    IF ~Attached(s) THEN WritersOf(names[s])
    ELSE {w \in Writers : Attached(w) /\ w.expr.decl = s.expr.decl}
             \cup UNION {WritersOf(t) : t \in {c \in copied : design.tgt[c].decl = s.expr.decl}}

(* No reference loses or gains a driver: whatever drove the bits it reads       *)
(* still does, directly, through a signal or through a copy, in every order of *)
(* the declarations and tokens.                                                *)
ReadersKeepTheirDrivers == Done => \A s \in Readers : BitDrivers(s) = DriversOnEntry(s)

(* The chain is exactly a token, or the whole declaration, or no part of the  *)
(* declaration is driven on its own.                                           *)
ReadsTokens(s) ==
    \/ s.expr.part = Whole
    \/ s.role # "index" /\ \E t \in Candidates(design) : design.tgt[t] = s.expr
    \/ \A w \in Writers : w.expr.decl = s.expr.decl => w.expr.part = Whole

(* What the transformation is for: in the graph of the declarations, an        *)
(* assignment depends on exactly the assignments that drive the bits it reads, *)
(* so a loop of the graph is a loop through the same part, if every reference  *)
(* is to a token or to a whole declaration.                                    *)
GraphFollowsParts ==
    Done /\ (\A s \in Readers : ReadsTokens(s)) =>
        \A s \in Readers : s.in \in Tokens => NetDrivers(s) = DriversOnEntry(s)

(* A reference that names a signal is in the scope the signal is declared in:  *)
(* the signals of assignments in a for generate are local to it.               *)
SplitSignalsResolve ==
    \A s \in design.sites : ~Attached(s) => splitIn[names[s]] \in {"module", s.scope}

(* "The token is the assign's left-hand side and is never detached before the  *)
(* write-back is inserted."                                                    *)
TokensAreAttached == phase # "aborted"
=============================================================================
