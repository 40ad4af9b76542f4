----------------------------- MODULE VerilogStep1 -----------------------------
(***************************************************************************)
(* Step 1 of verilog2hif on the declarations of a unit: disciplines and    *)
(* `logic` get types, constant assignments are folded into declarations,   *)
(* initial values that are not constant become assignments, registers get  *)
(* their default value, and what Verilog leaves implicit is declared.      *)
(* libs says that the Verilog-AMS libraries are part of the system.        *)
(***************************************************************************)
EXTENDS VerilogDeclarations, FiniteSets

CONSTANT SystemFunctions      \* functions of the standard libraries

DefaultX == Literal("X")

NamesIn(decls) == {decls[n].name : n \in DOMAIN decls}
OfNames(decls, names) == Selected(decls, LAMBDA d : d.name \in names)
TemplateNames(u) == NamesIn(u.tps)
PortNames(u) == NamesIn(u.ports)
ContentsNames(u) == NamesIn(u.subs) \cup UNION {NamesIn(u.scopes[s].decls) : s \in DOMAIN u.scopes}

\* What a symbol can resolve to from the entity and from a scope.
EntitySees(u) == TemplateNames(u) \cup SystemFunctions
ScopeSees(u, s) ==
  EntitySees(u) \cup PortNames(u) \cup NamesIn(u.subs) \cup NamesIn(u.scopes[Top].decls) \cup NamesIn(u.scopes[s].decls)

DeclaredAs(u, s, n, objs) ==
  \/ n \in PortNames(u) /\ "Port" \in objs
  \/ \E t \in {Top, s} : \E i \in DOMAIN u.scopes[t].decls :
       u.scopes[t].decls[i].name = n /\ u.scopes[t].decls[i].obj \in objs

-------------------------------------------------------------------------------
(* Template parameters and local parameters.                               *)

Consts(u) == {n \in NamesIn(u.scopes[Top].decls) : DeclaredAs(u, Top, n, {"Const"})}

\* The local parameters that the values of the declarations of some names use.
ConstsUsedBy(u, names) ==
  LET decls == ToSet(u.tps) \cup ToSet(u.scopes[Top].decls)
  IN  Consts(u) \cap UNION {d.val.syms : d \in {e \in decls : e.name \in names}}

\* A local parameter that a parameter needs becomes a parameter itself: those
\* in every set that holds what the parameters and its own members use.
Needed(u) ==
  LET Closed(names) == ConstsUsedBy(u, TemplateNames(u) \cup names) \subseteq names
  IN  {n \in Consts(u) : \A names \in SUBSET Consts(u) : Closed(names) => n \in names}

_fixLocalParam(u) ==
  LET moved == OfNames(u.scopes[Top].decls, Needed(u))
  IN  [u EXCEPT !.tps = [n \in DOMAIN moved |-> [moved[n] EXCEPT !.obj = "ValueTP"]] \o @,
                !.scopes[Top].decls = OfNames(@, NamesIn(@) \ Needed(u))]

\* Parameters and constants take the type of their value.
_fixMissingDeclarationType(d) == IF d.type = NoType THEN [d EXCEPT !.type = Named("integer")] ELSE d

visitTemplateParameters(u) ==
  LET v == _fixLocalParam(u)
  IN  [v EXCEPT !.tps = [n \in DOMAIN @ |-> _fixMissingDeclarationType(@[n])]]

-------------------------------------------------------------------------------
(* Types: `logic` is the discipline of the Verilog-AMS library where it is *)
(* part of the system, and a variable of four states where it is not.      *)

IsLogic(type) == type.of = "logic"

_fixAMSDisciplines(d, libs) ==
  CASE d.type.of = Nil -> d
    [] IsLogic(d.type) /\ ~libs ->
         [d EXCEPT !.type = getSemanticType(@.span, @.signed), !.var = TRUE]
    [] IsLogic(d.type) /\ libs ->
         IF d.type.base = "array" THEN [d EXCEPT !.type = getSemanticType(@.span, @.signed)]
         ELSE [d EXCEPT !.type.of = "ams_logic"]
    [] ~IsLogic(d.type) /\ libs /\ d.type.base = "reference" -> [d EXCEPT !.type.base = "discipline"]
    [] OTHER -> d

-------------------------------------------------------------------------------
(* Ports.                                                                  *)

\* The formals a port is bound to, by the instances of the unit.
BoundTo(u, p, views) ==
  UNION {LET bs == u.insts[i].ports IN
           {views[u.insts[i].unit].ports[n] : n \in
              {m \in DOMAIN views[u.insts[i].unit].ports : \E b \in DOMAIN bs :
                 bs[b].actual = p /\ (bs[b].formal = views[u.insts[i].unit].ports[m].name
                                      \/ (bs[b].formal = Nil /\ b = m))}}
         : i \in DOMAIN u.insts}

\* A missing direction that is never looked up.
_fixMissingPortAsInout(p, formals, f) ==
  [p EXCEPT !.type = IF @ = NoType THEN f.type ELSE @,
            !.dir = IF @ # Nil THEN @ ELSE "inout"]

\* f is the formal of the first reference to the port, in an arbitrary order.
_fixMissingPort(p, formals, f) ==
  [p EXCEPT !.type = IF @ = NoType THEN f.type ELSE @,
            !.dir = IF @ # Nil THEN @ ELSE IF formals = {} THEN "inout" ELSE f.dir]

Incomplete(p) == p.dir = Nil \/ p.type = NoType

visitPort(p, libs) ==
  LET q == _fixAMSDisciplines(p, libs)
  IN  IF q.var THEN [q EXCEPT !.var = FALSE, !.val = DefaultX] ELSE q

visitPorts(u, libs, views, first) ==
  [u EXCEPT !.ports = [n \in DOMAIN @ |->
     LET p == @[n]
         formals == BoundTo(u, p.name, views)
     IN  visitPort(IF Incomplete(p) /\ (p.type # NoType \/ formals # {})
                   THEN _fixMissingPort(p, formals, IF formals = {} THEN p ELSE first[p.name])
                   ELSE p, libs)]]

-------------------------------------------------------------------------------
(* Global actions.                                                         *)

_isConstantExpr(u, s, v) == \A n \in v.syms : ~DeclaredAs(u, s, n, {"Port", "Signal", "Variable"})

\* A constant that only the contents can see.
_isFoldableWhenConstant(u, s, v) == _isConstantExpr(u, s, v)

_isFoldableIntoDeclaration(u, s, v) ==
  _isConstantExpr(u, s, v) /\ \A n \in v.syms : n \notin ContentsNames(u)

Position(decls, n) == SelectInSeq(decls, LAMBDA d : d.name = n)

SetValue(u, s, n, val) ==
  LET inner == Position(u.scopes[s].decls, n)
      outer == Position(u.scopes[Top].decls, n)
      port == Position(u.ports, n)
  IN  CASE inner # 0 -> [u EXCEPT !.scopes[s].decls[inner].val = val]
        [] inner = 0 /\ outer # 0 -> [u EXCEPT !.scopes[Top].decls[outer].val = val]
        [] OTHER -> [u EXCEPT !.ports[port].val = val]

Fold(u, s, a) ==
  IF _isFoldableIntoDeclaration(u, s, a.rhs) THEN SetValue(u, s, a.lhs, a.rhs) ELSE AddAct(u, s, a)

DeclarationIn(u, s, n) ==
  LET decls == u.scopes[s].decls \o u.scopes[Top].decls \o u.ports
  IN  decls[Position(decls, n)]

\* A name that nothing declares becomes a net of the nearest scope, with the
\* type of what it is assigned to, assigned from or bound to.
_fixImplicitDeclaredNets(u, s, n, type) ==
  IF n \in ScopeSees(u, s) THEN u
  ELSE [u EXCEPT !.scopes[s].decls = <<Declaration("Signal", n, Nil, type, NoValue, FALSE)>> \o @]

\* The operands of an assignment; an expression is taken for one of one bit.
visitAssign(u, s, a) ==
  LET known == {a.lhs} \cap ScopeSees(u, s)
      lhsType == IF known # {} THEN DeclarationIn(u, s, a.lhs).type ELSE Bit
      rhsType == IF a.rhs.id = "ref" /\ a.rhs.syms \subseteq PortNames(u)
                 THEN DeclarationIn(u, s, CHOOSE n \in a.rhs.syms : TRUE).type ELSE Bit
      Imply(v, n) == _fixImplicitDeclaredNets(v, s, n, lhsType)
  IN  FoldLeft(Imply, _fixImplicitDeclaredNets(u, s, a.lhs, rhsType), SetToSeq(a.rhs.syms))

visitGlobalAction(u, s) ==
  LET Visit(w, a) == visitAssign(w, s, a)
      v == FoldLeft(Visit, u, u.scopes[s].acts)
      DoFold(w, a) == Fold(w, s, a)
  IN  FoldLeft(DoFold, [v EXCEPT !.scopes[s].acts = <<>>], v.scopes[s].acts)

-------------------------------------------------------------------------------
(* Declarations of the contents.                                           *)

\* A discipline and an RTL net of one name are one declaration.
JoinDouble(decls, d) ==
  LET n == Position(decls, d.name)
  IN  IF n = 0 \/ d.obj # "Signal" \/ decls[n].obj # "Signal" THEN Append(decls, d)
      ELSE [decls EXCEPT ![n].type = IF @ = Bit THEN d.type ELSE @,
                         ![n].val = IF @ = NoValue THEN d.val ELSE @]

JoinDoubles(decls) == FoldLeft(JoinDouble, <<>>, decls)

\* The initial value of a net is a process, unless it is a constant.
IsDriver(u, s, d) == d.obj = "Signal" /\ ~d.var /\ ~_isConstantExpr(u, s, d.val)

visitDeclaration(u, s, d, libs) ==
  LET e == _fixAMSDisciplines(_fixMissingDeclarationType(d), libs)
  IN  CASE e.obj = "Signal" /\ e.var ->
             [e EXCEPT !.var = FALSE, !.val = IF @ = NoValue THEN DefaultX ELSE @]
        [] IsDriver(u, s, e) -> [e EXCEPT !.val = NoValue]
        [] OTHER -> e

visitDeclarations(u, s, libs) ==
  LET Drives(d) == IsDriver(u, s, _fixAMSDisciplines(d, libs))
      drivers == Selected(u.scopes[s].decls, Drives)
  IN  [u EXCEPT !.scopes[s].decls = [n \in DOMAIN @ |-> visitDeclaration(u, s, @[n], libs)],
                !.scopes[Top].acts = @ \o [n \in DOMAIN drivers |-> Assign(drivers[n].name, drivers[n].val)]]

visitGenerate(u, s, libs) == visitGlobalAction(visitDeclarations(visitGlobalAction(u, s), s, libs), s)

-------------------------------------------------------------------------------
(* Functions, tasks and calls.                                             *)

\* The local variables of a subprogram are variables like any other; those of
\* a task that is not automatic move to the module, in their order.
visitSubprogram(u, n, libs) ==
  LET sub == u.subs[n]
      decls == [m \in DOMAIN sub.decls |-> visitDeclaration(u, Top, sub.decls[m], libs)]
  IN  IF ~sub.static THEN [u EXCEPT !.subs[n].decls = decls]
      ELSE [u EXCEPT !.scopes[Top].decls = @ \o decls, !.subs[n].decls = <<>>, !.subs[n].static = FALSE]

visitSubprograms(u, libs) ==
  LET Visit(v, n) == visitSubprogram(v, n, libs)
  IN  FoldLeft(Visit, u, [n \in DOMAIN u.subs |-> n])

\* A system task keeps its arguments; another call has a declaration.
_fixParameterNames(u, c) ==
  LET decl == SelectInSeq(u.subs, LAMBDA s : s.name = c.callee)
  IN  [c EXCEPT !.args = [n \in DOMAIN @ |-> [@[n] EXCEPT !.formal = u.subs[decl].params[n].name]]]

visitCalls(u) == [u EXCEPT !.calls = [n \in DOMAIN @ |-> _fixParameterNames(u, @[n])]]

visitContents(u, libs) ==
  LET joined == [u EXCEPT !.scopes[Top].decls = JoinDoubles(@)]
      visited == visitDeclarations(visitGlobalAction(joined, Top), Top, libs)
      Visit(v, s) == visitGenerate(v, s, libs)
      generates == FoldLeft(Visit, visited, SetToSeq(DOMAIN u.scopes \ {Top}))
  IN  visitCalls(visitGlobalAction(visitSubprograms(generates, libs), Top))

\* Ordered lists of ports and of parameters are given the names of the unit.
WithFormals(list, decls) ==
  [n \in DOMAIN list |-> IF list[n].formal # Nil THEN list[n]
                         ELSE [list[n] EXCEPT !.formal = decls[n].name]]

visitInstance(inst, view) ==
  [inst EXCEPT !.ports = WithFormals(@, view.ports), !.params = WithFormals(@, view.tps)]

FormalType(view, b) == view.ports[Position(view.ports, b.formal)].type

visitPortAssigns(u, inst, views) ==
  LET Imply(v, b) == _fixImplicitDeclaredNets(v, Top, b.actual, FormalType(views[inst.unit], b))
  IN  FoldLeft(Imply, u, inst.ports)

visitInstances(u, views) ==
  LET v == [u EXCEPT !.insts = [i \in DOMAIN @ |-> visitInstance(@[i], views[@[i].unit])]]
      Visit(w, inst) == visitPortAssigns(w, inst, views)
  IN  FoldLeft(Visit, v, v.insts)

\* A port that needs its references has the contents visited first, so that
\* the bindings have names, and again with the view.
visitView(u, libs, views, first) ==
  LET v == visitTemplateParameters(u)
      w == IF \E p \in ToSet(v.ports) : Incomplete(p) /\ BoundTo(v, p.name, views) # {}
           THEN visitInstances(visitContents(v, libs), views) ELSE v
  IN  visitInstances(visitContents(visitPorts(w, libs, views, first), libs), views)
===============================================================================
