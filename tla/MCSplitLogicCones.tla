--------------------------- MODULE MCSplitLogicCones ---------------------------
(****************************************************************************)
(* The designs of the runs of SplitLogicCones: a is driven in parts, b as a   *)
(* whole or in a for generate; the assignments and one process read each      *)
(* other through tokens, other parts, indexes and whole declarations.         *)
(****************************************************************************)
EXTENDS SplitLogicCones

(* lo is a range with bit in it, g the bit an iteration of the loop is about.  *)
MCParts  == {"lo", "bit", "hi", "g", "all"}
MCBitsOf == [lo |-> {0, 1}, bit |-> {0}, hi |-> {2}, g |-> {0, 1, 2}, all |-> {0, 1, 2}]

Expr(d, p) == [decl |-> d, part |-> p]

Site(e, c, sc, role) == [expr |-> e, in |-> c, scope |-> sc, role |-> role]

(* reads: for each assignment and for the process, the references it reads as  *)
(* pairs of an expression and a role; writes: what the process writes.         *)
DesignOf(tgt, scope, reads, writes) ==
    LET As == DOMAIN tgt
        full == [t \in Tokens |-> IF t \in As THEN tgt[t] ELSE Expr("a", "all")]
        scopes == [t \in Tokens |-> IF t \in As THEN scope[t] ELSE "module"]
    IN [assigns |-> As, tgt |-> full, scope |-> scopes,
        sites |-> {Site(tgt[t], t, scope[t], "target") : t \in As}
                   \cup {Site(e, "p", "module", "target") : e \in writes}
                   \cup UNION {{Site(r[1], t, scope[t], r[2]) : r \in reads[t]} : t \in As}
                   \cup {Site(r[1], "p", "module", r[2]) : r \in reads["p"]}]

Reads(S) == {{}} \cup {{<<e, "read">>} : e \in S}

OfA == {Expr("a", p) : p \in {"lo", "bit", "hi", "all"}}
OfB == {Expr("b", "all")}
Indexed == {{<<Expr("a", "lo"), "index">>}}

ReadSets == [t1 : Reads(OfA \cup OfB), t2 : Reads(OfA \cup OfB) \cup Indexed,
             t3 : Reads(OfA) \cup Indexed, p : Reads(OfA \cup OfB)]

Module == [t \in {"t1", "t2", "t3"} |-> "module"]

(* Two tristate drivers of one bit. *)
TwoDriverDesigns ==
    {DesignOf([t1 |-> Expr("a", "hi"), t2 |-> Expr("a", "hi")], Module, r, {}) :
        r \in {q \in ReadSets : q.t1 = {} /\ q.t2 = {} /\ q.t3 = {}}}

(* a in two parts and b as a whole; a in one part, the other written by the    *)
(* process; b in a loop, one part per iteration.                               *)
MCDesigns ==
    {DesignOf([t1 |-> Expr("a", "lo"), t2 |-> Expr("a", "hi"), t3 |-> Expr("b", "all")],
              Module, r, {}) : r \in ReadSets}
    \cup {DesignOf([t1 |-> Expr("a", "lo"), t3 |-> Expr("b", "all")], Module, r,
                   {Expr("a", "hi")}) : r \in {q \in ReadSets : q.t2 = {}}}
    \cup {DesignOf([t1 |-> Expr("a", "lo"), t2 |-> Expr("a", "hi"), t3 |-> Expr("b", "g")],
                   [Module EXCEPT !["t3"] = "loop"],
                   [r EXCEPT !["t3"] = @ \cup {<<Expr("b", "g"), "read">>}], {}) :
              r \in {q \in ReadSets : q.t2 \notin Indexed}}
    \cup TwoDriverDesigns
=============================================================================
