------------------------ MODULE MCRefineToVariables ------------------------
(****************************************************************************)
(* Small designs for the whole of step 3 after flattening: fixLogicCones      *)
(* followed by refineToVariables. i is a port, x and z are nets, y a register. *)
(****************************************************************************)
EXTENDS RefineToVariables

CONSTANTS i, x, y, z, p, q, l, w

MCDecls == {i, x, y, z}
MCActs  == {p, q, l, w}

Assign(d, s)  == [tgt |-> d, srcs |-> s, ext |-> FALSE]
ExtAssign(d, s) == [tgt |-> d, srcs |-> s, ext |-> TRUE]
Ref(d, c, a)  == [decl |-> d, ctx |-> c, at |-> a]
Design(cs, rs) == [ports |-> {i}, conts |-> cs, refs |-> rs]

(* At most one assignment to d, reading one of the sets of SS.                 *)
MaybeAssign(d, SS) == {{}} \cup {{Assign(d, s)} : s \in SS}

(* Chains, trees and diamonds of assignments; each net is read by an action,  *)
(* watched by a list or a wait, or used by other assignments only.             *)
DagDesigns ==
    {Design(cx \cup cy \cup cz, ux \cup u) :
        cx \in MaybeAssign(x, {{i}}), cy \in MaybeAssign(y, {{i}, {x}, {i, x}}),
        cz \in MaybeAssign(z, {{y}, {x, y}, {i, y}}),
        ux \in {{}, {Ref(x, "assignRhs", p)}},
        u \in {{Ref(z, "assignRhs", p)}, {Ref(z, "waitSensitivity", w)},
               {Ref(z, "sensitivity", l), Ref(z, "callIn", q)},
               {Ref(y, "condition", q), Ref(z, "assignRhs", p)},
               {Ref(y, "sensitivity", l), Ref(y, "assignRhs", p), Ref(z, "sensitivity", l)}}}

(* Nets assigned in two parts, drivers that name a constant or a function, and *)
(* self references.                                                            *)
PartDesigns ==
    {Design(cx \cup cy \cup {ExtAssign(z, {i, y})}, ux \cup uy \cup {Ref(z, "assignRhs", q)}) :
        cx \in {{Assign(x, {i}), ExtAssign(x, {i})}, {Assign(x, {i, x}), Assign(x, {i})}},
        cy \in {{Assign(y, {i, x}), Assign(y, {x})}, {ExtAssign(y, {x, y})}, {Assign(y, {})}},
        ux \in {{}, {Ref(x, "sensitivity", l), Ref(x, "assignRhs", p)}},
        uy \in {{}, {Ref(y, "sensitivity", l)}, {Ref(y, "assignRhs", q)}}}

(* A register that is only written by blocking assignments.                    *)
SourceDesigns ==
    {Design({Assign(x, {i, y}), Assign(z, sz)},
            {Ref(y, "blockingLhs", p), Ref(x, "assignRhs", q), Ref(z, "sensitivity", l)}) :
        sz \in {{x}, {y}, {x, y}}}

(* A net in the condition of a wait: fixSensitivities does not get past it. *)
WaitConditionDesigns ==
    {Design({Assign(x, {i}), Assign(y, {x})}, {Ref(y, "waitCondition", w)} \cup u) :
        u \in {{}, {Ref(x, "assignRhs", p)}}}

(* The register y is written in the ways a process can write a register, read  *)
(* by processes and by the nets x and z; the nets are read, watched and bound. *)
RegisterDesigns ==
    {Design({Assign(x, sx), Assign(z, sz)}, {Ref(y, c, p) : c \in ws} \cup ux \cup uz \cup uy) :
        sx \in {{i}, {i, y}}, sz \in {{x}, {x, y}},
        ws \in {{"nonblockingLhs"}, {"nonblockingLhs", "blockingLhs"}},
        ux \in {{}, {Ref(x, "assignRhs", q)}, {Ref(x, "portActual", w)}},
        uy \in {{}, {Ref(y, "assignRhs", q)}, {Ref(y, "sensitivity", l)}},
        uz \in {{Ref(z, "sensitivity", l), Ref(z, "assignRhs", p)}, {Ref(z, "portActual", w)}}}

(* A register that a task writes through its arguments and that is watched.    *)
TaskDesigns ==
    {Design({Assign(z, {y})}, {Ref(y, "blockingLhs", p), Ref(y, "sensitivity", l), Ref(y, c, q)} \cup uz) :
        c \in {"callOut", "callInout"},
        uz \in {{}, {Ref(z, "sensitivity", l)}, {Ref(z, "assignRhs", q)}}}

MCDesigns == DagDesigns \cup PartDesigns \cup SourceDesigns \cup WaitConditionDesigns
                 \cup RegisterDesigns \cup TaskDesigns
=============================================================================
