--------------------------- MODULE VhdlElaboration ---------------------------
(***************************************************************************)
(* What a VHDL source means once it is elaborated, read from its library   *)
(* units alone, and what the system built by vhdl2hif has to have in       *)
(* common with it.                                                         *)
(***************************************************************************)
EXTENDS VhdlUnits

Named(kind, n) == {u \in OfKind(kind) : u.name = n}

\* The component a statement names: the innermost one declared around it,
\* else one of a package that the architecture or its entity uses.
Declaring(components, n) == {k \in DOMAIN components : components[k].name = n}

Around(arch, st) ==
  [k \in DOMAIN st.path |-> st.path[k].components] \o <<arch.components>>

Used(arch) ==
  arch.uses \cup arch.context \cup UNION {e.uses : e \in Named("entity", arch.of)}

Packaged(arch, n) ==
  {c \in UNION {ToSet(p.components) : p \in
                  {q \in OfKind("package") : q.name \in Used(arch)}} : c.name = n}

LocalComponent(arch, st) ==
  LET around == Around(arch, st)
      levels == {k \in DOMAIN around : Declaring(around[k], st.name.unit) # {}}
  IN IF levels # {}
       THEN LET level == around[Min(levels)]
            IN level[Min(Declaring(level, st.name.unit))]
       ELSE CHOOSE c \in Packaged(arch, st.name.unit) : TRUE

\* The parts of a local formal and what the association list gives them.
Associated(assigns, formals, k) ==
  {j \in DOMAIN assigns : IF assigns[j].formal = "position" THEN j = k
                          ELSE assigns[j].name = formals[k].name}

Local(assigns, formals, k) ==
  LET given == {j \in Associated(assigns, formals, k) : assigns[j].value # Open}
  IN IF given # {} THEN {<<IF assigns[j].formal = "part" THEN assigns[j].part ELSE Whole,
                          assigns[j].value>> : j \in given}
     ELSE IF formals[k].default # None THEN {<<Whole, formals[k].default>>}
     ELSE {}

\* A formal of the entity is connected to the local formal of its name, and
\* has its own default when nothing is.
Means(assigns, locals, formals) ==
  [f \in {formals[k].name : k \in DOMAIN formals} |->
     LET same == {k \in DOMAIN locals : locals[k].name = f}
         default == formals[CHOOSE k \in DOMAIN formals : formals[k].name = f].default
         through == IF same = {} THEN {} ELSE Local(assigns, locals, Min(same))
     IN IF through # {} THEN through
        ELSE IF default # None THEN {<<Whole, default>>} ELSE {}]

\* What the built system gives the formals of the declared view.
Gets(connected, formals) ==
  [f \in {formals[k].name : k \in DOMAIN formals} |->
     IF f \in DOMAIN connected THEN connected[f]
     ELSE LET default == formals[CHOOSE k \in DOMAIN formals :
                                   formals[k].name = f].default
          IN IF default # None THEN {<<Whole, default>>} ELSE {}]

Places(n) ==
  (IF n \in DOMAIN du_declarations THEN {"system"} ELSE {}) \cup Elsewhere(n)

IsKept(arch, st) ==
  LET locals == IF st.name.form = "identifier" THEN LocalComponent(arch, st)
                ELSE CHOOSE e \in Named("entity", st.name.unit) : TRUE
      view == DeclaredView(st.name.unit)
      built == CHOOSE b \in DeclaredView(arch.of).contents.statements :
                 b.label = st.label
  IN /\ Means(st.generics, locals.generics, view.generics)
          = Gets(built.generics, view.generics)
     /\ Means(st.ports, locals.ports, view.ports)
          = Gets(built.ports, view.ports)

(***************************************************************************)
(* Every generic and every port of every instance is connected to what     *)
(* VHDL connects it to, whatever was named, left to its position, opened,  *)
(* bound part by part or left out, and wherever the component is declared. *)
(***************************************************************************)
AssociationsAreKept ==
  phase = "done" =>
    \A arch \in OfKind("architecture") : \A st \in arch.statements :
      st.kind = "instance" => IsKept(arch, st)

Labels(statements) == {st.label : st \in statements}

ReachesItsEntity(arch) ==
  /\ Cardinality(Places(arch.of)) = 1
  /\ LET view == DeclaredView(arch.of)
         entity == CHOOSE e \in Named("entity", arch.of) : TRUE
     IN /\ view.contents.name = arch.name /\ view.name = arch.name
        /\ ~ view.standard
        /\ view.ports = entity.ports /\ view.generics = entity.generics
        /\ Labels(view.contents.statements) = Labels(arch.statements)

(***************************************************************************)
(* In whatever order the files come, the contents of every architecture    *)
(* end up in the one design unit of its entity, with every statement and   *)
(* no block left around them; every instance refers to the view that is    *)
(* there; and a package has the declarations of its body.                  *)
(***************************************************************************)
BodiesReachTheirUnits ==
  phase = "done" =>
    /\ \A arch \in OfKind("architecture") : ReachesItsEntity(arch)
    /\ \A arch \in OfKind("architecture") :
         \A st \in DeclaredView(arch.of).contents.statements :
           /\ \A k \in DOMAIN st.path : st.path[k].kind = "generate"
           /\ st.kind = "instance" =>
                /\ Cardinality(Places(st.unit)) = 1
                /\ st.arch = DeclaredView(st.unit).name
    /\ \A b \in OfKind("package body") :
         /\ b.name \in DOMAIN lib_declarations
         /\ b.items \subseteq lib_declarations[b.name].items
=============================================================================
