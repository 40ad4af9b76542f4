----------------------------- MODULE ModuleMeaning -----------------------------
(***************************************************************************)
(* What a Verilog module says of its names, read off its items and nothing *)
(* else: direction, range, sign, initial value, and what drives the name   *)
(* under which condition and with which delay.                             *)
(***************************************************************************)
EXTENDS VerilogDeclarations

Variables == {"reg", "integer", "time", "real", "outreg"}

\* A name declared with the type logic is a variable, unless the file is of
\* Verilog-AMS, where it is the discipline of that name.
IsVariableItem(i, ams) == i.k \in Variables \/ (i.k = "discipline" /\ i.disc = "logic" /\ ~ams)

\* Items that declare nothing of the module, or a name of another kind.
Others == {"assign", "instance", "always", "analog", "function", "task", "call"}

ItemsOf(src, n) == {src.items[m] : m \in {x \in DOMAIN src.items : src.items[x].name = n}}
DeclaringItems(src, n) == {i \in ItemsOf(src, n) : i.k \notin Others}
DeclaredNames(src) == {src.items[m].name : m \in {x \in DOMAIN src.items :
                        src.items[x].k \notin Others}}

Direction(src, n) ==
  LET dirs == {i.dir : i \in DeclaringItems(src, n)} \ {Nil}
  IN  IF dirs = {} THEN Nil ELSE CHOOSE d \in dirs : TRUE
Span(src, n) ==
  LET spans == {i.span : i \in DeclaringItems(src, n)} \ {Nil}
  IN  IF spans = {} THEN Nil ELSE CHOOSE s \in spans : TRUE
Signed(src, n) == \E i \in DeclaringItems(src, n) : i.signed

IsVariable(src, n, ams) == \E i \in DeclaringItems(src, n) : IsVariableItem(i, ams)
Written(src, n) == {i.val : i \in DeclaringItems(src, n)} \ {NoValue}

\* A variable holds its initial value, or unknowns, when nothing has been
\* assigned to it yet; the value of a parameter is the one it is declared with.
Initial(src, n, ams) ==
  IF Written(src, n) # {} /\ ~\E i \in DeclaringItems(src, n) : i.k = "net"
  THEN CHOOSE v \in Written(src, n) : TRUE
  ELSE IF IsVariable(src, n, ams) THEN Literal("X") ELSE NoValue

Constants(src) ==
  {src.items[m].name : m \in {x \in DOMAIN src.items : src.items[x].k \in {"param", "localparam", "function"}}}

\* A net is driven by its continuous assignments, and by the value of its
\* own declaration.
Drivers(src, n) ==
  {[val |-> i.val, cond |-> src.conds[i.scope], delay |-> i.num] :
     i \in {j \in ItemsOf(src, n) : j.k = "assign" \/ (j.k = "net" /\ j.val # NoValue)}}

\* The arguments and the local variables of a subprogram, and where the latter
\* live: those of a static task are variables of the module.
Arguments(i) ==
  [n \in DOMAIN Selected(i.binds, LAMBDA b : b.k = "tf") |->
     LET a == Selected(i.binds, LAMBDA b : b.k = "tf")[n] IN <<a.name, a.dir, a.span, a.signed>>]
Locals(i) == {b.name : b \in {x \in ToSet(i.binds) : x.k # "tf"}}
LivesInModule(i) == i.k = "task" /\ ~i.named

\* A module is analog when it declares something of a discipline, has an
\* analog block, or has an instance of an analog module.
IsAnalogItem(i, ams) ==
  i.k = "analog" \/ (i.disc # Nil /\ i.k \notin {"instance", "call"} /\ (ams \/ i.disc # "logic"))

HoldsAnalog(src, ams, analog) ==
  \E m \in DOMAIN src.items :
     \/ IsAnalogItem(src.items[m], ams)
     \/ src.items[m].k = "instance" /\ src.items[m].disc \in analog

\* The least set of modules with those that hold something analog.  sources:
\* the modules of the project by name; ams: those of Verilog-AMS files.
AnalogModules(sources, ams) ==
  {n \in DOMAIN sources : \A found \in SUBSET DOMAIN sources :
     {m \in DOMAIN sources : HoldsAnalog(sources[m], m \in ams, found)} \subseteq found => n \in found}
===============================================================================
