---------------------------- MODULE MCPrerefineFixes ----------------------------
(****************************************************************************)
(* The designs of the run of PrerefineFixes: two output ports and a third      *)
(* declaration of any kind, three assignments of any kind that read each       *)
(* other's targets, and a process that reads up to one of them.                *)
(****************************************************************************)
EXTENDS PrerefineFixes, Naturals, FiniteSets

AtMostOne(S) == {T \in SUBSET S : Cardinality(T) <= 1}

Third == {"signal", "variable", "parameter"}

(* a and b assign the ports o and q, c any declaration. *)
MCDesigns ==
    {D \in [kind : {[o |-> "port", q |-> "port", x |-> t] : t \in Third},
            target : {[a |-> "o", b |-> "q", c |-> d] : d \in Decls},
            how : [Assigns -> AssignKinds],
            reads : {[a |-> R, b |-> S, c |-> T] : R \in {{}, {"q"}, {"q", "x"}},
                        S \in AtMostOne(Decls), T \in AtMostOne(Decls)},
            watched : [Watchers -> {{}, {"o"}, {"x"}}]] : WellFormed(D)}
=============================================================================
