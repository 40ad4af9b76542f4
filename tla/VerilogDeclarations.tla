-------------------------- MODULE VerilogDeclarations --------------------------
(***************************************************************************)
(* The declarations the Verilog parser makes of the items of a module, and *)
(* how it merges those that Verilog writes twice: a port of a header that  *)
(* only lists names is declared again, with a direction, and perhaps a     *)
(* third time as a reg or with a discipline.                               *)
(*                                                                         *)
(* A unit is a record [name, scale, tps, ports, insts, scopes, ...]; its   *)
(* scopes are the contents, named Top, and its if-generates.  A value is   *)
(* its identity and the symbols that occur in it.                          *)
(***************************************************************************)
EXTENDS Naturals, Sequences, SequencesExt

Top == "top"
Nil == "none"

\* The elements of a sequence that pass a test, in their order.
Selected(seq, Test(_)) ==
  FoldLeft(LAMBDA found, x : IF Test(x) THEN Append(found, x) ELSE found, <<>>, seq)

\* scales: the time scales it has been multiplied by.
Value(id, syms) == [id |-> id, syms |-> syms, scales |-> <<>>]
NoValue == Value(Nil, {})
Literal(id) == Value(id, {})

\* A type: bits and vectors of bits, the Verilog types that are neither, and
\* references to a name that may turn out to be a discipline.
Type(base, span, signed, of) == [base |-> base, span |-> span, signed |-> signed, of |-> of]
NoType == Type(Nil, Nil, FALSE, Nil)
Bit == Type("bit", Nil, FALSE, Nil)
Named(base) == Type(base, Nil, FALSE, Nil)
TypeReference(n) == Type("reference", Nil, FALSE, n)

getSemanticType(span, signed) ==
  IF span = Nil THEN Bit ELSE Type("bitvector", span, signed, Nil)

\* A name where the type belongs, perhaps with a range.
Discipline(disc, span, signed) ==
  IF span = Nil THEN TypeReference(disc) ELSE Type("array", span, signed, disc)

parse_PortType(i) ==
  IF i.disc = Nil THEN getSemanticType(i.span, i.signed) ELSE Discipline(i.disc, i.span, i.signed)

Declaration(obj, name, dir, type, val, var) ==
  [obj |-> obj, name |-> name, dir |-> dir, type |-> type, val |-> val, var |-> var]

-------------------------------------------------------------------------------
(* Declarations, one operator for each form of the grammar. var is the     *)
(* property IS_VARIABLE_TYPE.                                              *)

parse_PortReference(name) == Declaration("Port", name, Nil, NoType, NoValue, FALSE)

parse_InputDeclaration(i) == Declaration("Port", i.name, "in", parse_PortType(i), NoValue, FALSE)
parse_InoutDeclaration(i) == Declaration("Port", i.name, "inout", parse_PortType(i), NoValue, FALSE)
parse_OutputDeclaration(i) == Declaration("Port", i.name, "out", parse_PortType(i), NoValue, FALSE)

\* output reg: the list form keeps literal initial values only.
OutputRegDeclaration(i) ==
  LET val == IF i.val.syms = {} THEN i.val ELSE NoValue
  IN  Declaration("Port", i.name, "out", getSemanticType(i.span, i.signed), val, val = NoValue)

PortDeclaration(i) ==
  CASE i.dir = "in" -> parse_InputDeclaration(i)
    [] i.dir = "inout" -> parse_InoutDeclaration(i)
    [] i.dir = "out" /\ i.k = "outreg" -> OutputRegDeclaration(i)
    [] OTHER -> parse_OutputDeclaration(i)

\* parse_Type: what a list of variables declares before it is given a type.
Variable(i, type) == Declaration("Signal", i.name, Nil, type, i.val, TRUE)

parse_RegDeclaration(i) == Variable(i, getSemanticType(i.span, i.signed))
parse_IntegerDeclaration(i) == Variable(i, Named("integer"))
parse_TimeDeclaration(i) == Variable(i, Named("time"))
parse_RealDeclaration(i) == Variable(i, Named("real"))
parse_NetDeclaration(i) ==
  Declaration("Signal", i.name, Nil, getSemanticType(i.span, i.signed), i.val, FALSE)
\* A declaration by a discipline's name is parsed like an instantiation.
parse_ModuleInstance(i) ==
  Declaration("Signal", i.name, Nil, Discipline(i.disc, i.span, i.signed), i.val, FALSE)
parse_EventDeclaration(i) == Declaration("Variable", i.name, Nil, Named("event"), NoValue, FALSE)
parse_ParameterDeclaration(i) ==
  Declaration("ValueTP", i.name, Nil,
              IF i.span = Nil THEN NoType ELSE getSemanticType(i.span, i.signed), i.val, FALSE)
\* The type of a literal is known at once; that of an expression is not.
parse_LocalParameterDeclaration(i) ==
  [parse_ParameterDeclaration(i) EXCEPT
     !.obj = "Const",
     !.type = IF @ = NoType /\ i.val.syms = {} THEN Named("integer") ELSE @]

ContentsDeclaration(i) ==
  CASE i.k = "reg" -> parse_RegDeclaration(i)
    [] i.k = "integer" -> parse_IntegerDeclaration(i)
    [] i.k = "time" -> parse_TimeDeclaration(i)
    [] i.k = "real" -> parse_RealDeclaration(i)
    [] i.k = "net" -> parse_NetDeclaration(i)
    [] i.k = "discipline" -> parse_ModuleInstance(i)
    [] i.k = "event" -> parse_EventDeclaration(i)
    [] i.k = "localparam" -> parse_LocalParameterDeclaration(i)

-------------------------------------------------------------------------------
(* Functions and tasks.  In both forms of header the arguments come in the *)
(* order they are written and the other declarations are local.            *)

parse_TfDeclaration(t) == Declaration("Parameter", t.name, t.dir, getSemanticType(t.span, t.signed), NoValue, FALSE)

parse_BlockItemDeclaration(b) ==
  CASE b.k = "reg" -> Variable(b, getSemanticType(b.span, b.signed))
    [] b.k = "integer" -> Variable(b, Named("integer"))

IsArgument(t) == t.k = "tf"
IsLocal(t) == t.k # "tf"

Subprogram(i) ==
  LET args == Selected(i.binds, IsArgument)
      locals == Selected(i.binds, IsLocal)
  IN  [obj |-> "Procedure", name |-> i.name, static |-> ~i.named, result |-> NoType,
       params |-> [n \in DOMAIN args |-> parse_TfDeclaration(args[n])],
       decls |-> [n \in DOMAIN locals |-> parse_BlockItemDeclaration(locals[n])]]

\* A task that is not automatic is marked.
parse_TaskDeclaration(i) == Subprogram(i)

\* A function has a variable of its own name, which it returns.
parse_FunctionDeclaration(i) ==
  LET t == getSemanticType(i.span, i.signed)
  IN  [Subprogram(i) EXCEPT
        !.obj = "Function", !.static = FALSE, !.result = t,
        !.decls = Append(@, Declaration("Variable", i.name, Nil, t, NoValue, FALSE))]

\* A call passes its arguments in order; they have no names yet.
parse_TaskEnable(i) ==
  [callee |-> i.disc, args |-> [n \in DOMAIN i.binds |-> [formal |-> Nil, actual |-> i.binds[n]]]]

-------------------------------------------------------------------------------
(* Units under construction.                                               *)

Scope(cond) == [cond |-> cond, decls |-> <<>>, acts |-> <<>>, tables |-> <<>>]
Assign(lhs, rhs) == [lhs |-> lhs, rhs |-> rhs, delay |-> NoValue]

\* scale is the pair of constants of the view, or Nil.
parse_ModuleDeclarationStart(name, scale, conds) ==
  [name |-> name, scale |-> scale, tps |-> <<>>, ports |-> <<>>, insts |-> <<>>, subs |-> <<>>, calls |-> <<>>,
   scopes |-> [s \in DOMAIN conds |-> Scope(conds[s])], ams |-> FALSE]

Declare(u, s, d) == [u EXCEPT !.scopes[s].decls = Append(@, d)]
AddAct(u, s, a) == [u EXCEPT !.scopes[s].acts = Append(@, a)]

PortNamed(u, n) == SelectInSeq(u.ports, LAMBDA p : p.name = n)

\* In a module whose header declares its ports, another declaration of a
\* port is dropped, but for its value; in a generate it hides the port.
_manageModuleItemDeclarations(u, s, d, ansi) ==
  IF ~ansi \/ s # Top \/ PortNamed(u, d.name) = 0 THEN Declare(u, s, d)
  ELSE IF d.obj = "Signal" /\ d.val # NoValue THEN AddAct(u, s, Assign(d.name, d.val)) ELSE u

\* `u #(..) name (..)`: the formals of ordered lists have no names yet.
parse_ParameterValueAssignment(params, named) ==
  [n \in DOMAIN params |-> [params[n] EXCEPT !.formal = IF named THEN @ ELSE Nil]]

parse_ModuleInstantiation(i) ==
  [unit |-> i.disc, name |-> i.name,
   params |-> parse_ParameterValueAssignment(i.params, i.named),
   ports |-> [n \in DOMAIN i.binds |->
                [formal |-> IF i.named THEN i.binds[n].formal ELSE Nil, actual |-> i.binds[n].actual]]]

\* One item of a module, in the scope it is written in.
_fillBaseContentsFromModuleOrGenerateItem(u, i, ansi) ==
  CASE i.k = "assign" -> AddAct(u, i.scope, [Assign(i.name, i.val) EXCEPT !.delay = i.num])
    [] i.k \in {"always", "analog"} ->
         [u EXCEPT !.scopes[i.scope].tables =
                     Append(@, [k |-> i.k, delay |-> i.num, syms |-> i.val.syms])]
    [] i.k = "instance" -> [u EXCEPT !.insts = Append(@, parse_ModuleInstantiation(i))]
    [] i.k = "function" -> [u EXCEPT !.subs = Append(@, parse_FunctionDeclaration(i))]
    [] i.k = "task" -> [u EXCEPT !.subs = Append(@, parse_TaskDeclaration(i))]
    [] i.k = "call" -> [u EXCEPT !.calls = Append(@, parse_TaskEnable(i))]
    [] i.k = "localparam" -> Declare(u, i.scope, ContentsDeclaration(i))
    [] OTHER -> _manageModuleItemDeclarations(u, i.scope, ContentsDeclaration(i), ansi)

PortKinds == {"port", "outreg"}

ParseItem(u, i, ansi) ==
  IF i.k \in PortKinds
  THEN IF ansi THEN [u EXCEPT !.ports = Append(@, PortDeclaration(i))] ELSE Declare(u, Top, PortDeclaration(i))
  ELSE IF i.k = "param" THEN [u EXCEPT !.tps = Append(@, parse_ParameterDeclaration(i))]
  ELSE _fillBaseContentsFromModuleOrGenerateItem(u, i, ansi)

-------------------------------------------------------------------------------
(* The end of a module whose header lists names.                           *)

\* A discipline qualifies the port's type; any other type replaces it.
_composeAmsType(portType, declType) ==
  IF portType = NoType \/ portType.base = "bit" \/ declType.base # "reference" THEN declType
  ELSE IF portType.base = "bitvector" THEN Type("array", portType.span, portType.signed, declType.of)
  ELSE portType

\* The merge that forgets that a port is a variable.
JoinDeclarationAsNet(p, d) ==
  LET driver == d.obj = "Signal" /\ d.val # NoValue /\ ~d.var
  IN  [p EXCEPT !.type = _composeAmsType(p.type, d.type), !.val = IF driver THEN @ ELSE d.val]

\* A reg, net or discipline declaration d of the port p.
JoinDeclaration(p, d) ==
  LET driver == d.obj = "Signal" /\ d.val # NoValue /\ ~d.var
      val == IF d.val # NoValue /\ ~driver THEN d.val ELSE p.val
  IN  [p EXCEPT !.type = _composeAmsType(p.type, d.type), !.val = val,
                !.var = @ \/ (d.obj = "Signal" /\ d.var /\ val = NoValue)]

\* The declaration d, with a direction, of what is known as the port p.
JoinPort(p, d) ==
  IF p.type = NoType THEN d ELSE [d EXCEPT !.type = _composeAmsType(d.type, p.type)]

JoinPorts(u, d) ==
  LET n == PortNamed(u, d.name)
  IN  IF n = 0 THEN Declare(u, Top, d)
      ELSE IF d.obj = "Port" THEN [u EXCEPT !.ports[n] = JoinPort(@, d)]
      ELSE LET v == [u EXCEPT !.ports[n] = JoinDeclaration(@, d)]
           IN  IF d.obj = "Signal" /\ d.val # NoValue /\ ~d.var
               THEN AddAct(v, Top, Assign(d.name, d.val)) ELSE v

parse_ModuleDeclaration(u, header) ==
  LET listed == [u EXCEPT !.ports = [n \in DOMAIN header |-> parse_PortReference(header[n])],
                          !.scopes[Top].decls = <<>>]
  IN  FoldLeft(JoinPorts, listed, u.scopes[Top].decls)
===============================================================================
