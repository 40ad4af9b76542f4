-------------------------- MODULE MCPartialFlattening --------------------------
(****************************************************************************)
(* A top unit with an instance of mid, of leaf, and of leaf in a branch of an  *)
(* if generate; mid holds an instance of leaf of its own. What a net is used   *)
(* for passes from unit to unit as the instances between them are inlined.     *)
(****************************************************************************)
EXTENDS PartialFlattening, TLC

MCUnits == {"top", "mid", "leaf"}

D(u, n) == [in |-> u, path |-> <<>>, name |-> n]

Inst(n, u, v, b, losing) == [of |-> v, in |-> u, path |-> <<n>>, losing |-> losing, bind |-> b]

Y(u) == D(u, "y")

(* What mid binds the port of its leaf to, and top the ports of its instances. *)
MidLeaf(d) == Inst("l", "mid", "leaf", (Y("leaf") :> d), FALSE)
TopMid(d)  == Inst("m", "top", "mid", (Y("mid") :> d), FALSE)
TopLeaf(d, losing) == Inst("k", "top", "leaf", (Y("leaf") :> d), losing)

Used(d, S) == {[decl |-> d, use |-> u] : u \in S}

Writes == {{}, {"lhsContinuous"}, {"lhsBlocking"}, {"lhsNonBlocking"}}

MCDesigns ==
    {[preserveStructure |-> ps, topViews |-> {"top"},
      ports |-> {Y(u) : u \in MCUnits}, outs |-> {Y(u) : u \in MCUnits},
      insts |-> is, refs |-> Used(Y("leaf"), ul) \cup Used(D("mid", "n"), um)
                                 \cup Used(Y("mid"), vm) \cup Used(D("top", "n"), ut)] :
        ps \in BOOLEAN,
        is \in {{MidLeaf(dm), TopMid(dt)} \cup k :
                   dm \in {Y("mid"), D("mid", "n")}, dt \in {Y("top"), D("top", "n")},
                   k \in {{}, {TopLeaf(D("top", "n"), FALSE)}, {TopLeaf(Y("top"), TRUE)}}}
               \cup {{TopLeaf(Y("top"), TRUE)}},
        ul \in Writes, um \in {{}, {"lhsContinuous"}, {"sensitivity"}},
        vm \in Writes, ut \in {{}, {"read"}, {"lhsBlocking"}}}
=============================================================================
