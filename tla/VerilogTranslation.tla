-------------------------- MODULE VerilogTranslation --------------------------
(***************************************************************************)
(* The translation of a project by verilog2hif, from the command line to   *)
(* the file it writes: the files are parsed, Verilog before Verilog-AMS,   *)
(* the units become one system, step 1 visits every unit after those it    *)
(* instantiates, step 2 scales the times, and the units of a project with  *)
(* Verilog-AMS files are marked.  Steps 1 and 3 on the processes of a unit *)
(* are the business of other modules.                                      *)
(***************************************************************************)
EXTENDS VerilogStep1, ModuleMeaning

CONSTANT CommandLines       \* the projects: their options and files

VARIABLES
  cLine,         \* the command line
  queue,         \* files and pieces of files that are not parsed yet
  timescale,     \* _unit and _precision of the parser of the current file
  units,         \* _designUnits, then the units of the system
  stage,         \* the pass that runs
  done,          \* the units the pass has visited
  libs,          \* the Verilog-AMS libraries are part of the system
  defaultScale,  \* the system declares a time scale of its own
  systemAms      \* the system is marked

vars == <<cLine, queue, timescale, units, stage, done, libs, defaultScale, systemAms>>

DefaultScale == "1ns/10ps"

-------------------------------------------------------------------------------
(* The projects.  An item is a record [k, name, val, num, scope, binds,    *)
(* ...]: its kind, its value, its delay, the scope it is written in, and   *)
(* what it lists between parentheses or between its begin and end.         *)

ItemKinds == {"port", "outreg", "param", "localparam", "reg", "integer", "time", "real", "net", "discipline",
              "event", "function", "task", "call", "instance", "assign", "always", "analog"}

IsRow(q) == IsFiniteSet(DOMAIN q) /\ q = [n \in 1 .. Cardinality(DOMAIN q) |-> q[n]]
IsWritten(v) == v = Value(v.id, v.syms) /\ IsFiniteSet(v.syms)

IsItem(i, scopes) ==
  /\ i.k \in ItemKinds /\ i.scope \in scopes
  /\ IsWritten(i.val) /\ IsWritten(i.num)
  /\ IsRow(i.binds)
  /\ i.k \in {"function", "task"} =>
       \A n \in DOMAIN i.binds : i.binds[n].k \in {"tf", "reg", "integer"} /\ IsWritten(i.binds[n].val)

\* A file is made of time scale directives and of modules.
IsPiece(p) ==
  \/ p.k = "timescale" /\ p.scale # Nil
  \/ /\ p.k = "module"
     /\ Top \in DOMAIN p.conds /\ IsFiniteSet(DOMAIN p.conds)
     /\ IsRow(p.header) /\ IsRow(p.items)
     /\ \A n \in DOMAIN p.items : IsItem(p.items[n], DOMAIN p.conds)

\* Where the modules are written: the file and the place in the file.
ModulePlaces(c) ==
  UNION {{<<f, p>> : p \in {q \in DOMAIN c.files[f].pieces : c.files[f].pieces[q].k = "module"}} : f \in DOMAIN c.files}
PieceAt(c, at) == c.files[at[1]].pieces[at[2]]

\* No two modules of a project have the same name.
IsProject(c) ==
  /\ IsRow(c.files)
  /\ \A f \in DOMAIN c.files :
       /\ c.files[f] = [ext |-> c.files[f].ext, pieces |-> c.files[f].pieces]
       /\ IsRow(c.files[f].pieces)
       /\ \A p \in DOMAIN c.files[f].pieces : IsPiece(c.files[f].pieces[p])
  /\ \A a, b \in ModulePlaces(c) : PieceAt(c, a).name = PieceAt(c, b).name => a = b

ASSUME CommandLinesAssumption == \A c \in CommandLines : IsProject(c)

-------------------------------------------------------------------------------
(* The command line and the parsers.                                       *)

AmsExtensions == {".va", ".vams"}
IsAmsFile(f) == f.ext \in AmsExtensions
FilesOf(files, exts) == Selected(files, LAMBDA f : f.ext \in exts)

_validateArguments(files) == FilesOf(files, {".v"}) \o FilesOf(files, AmsExtensions)

Init ==
  /\ cLine \in CommandLines
  /\ queue = _validateArguments(cLine.files)
  /\ timescale = Nil
  /\ units = [n \in {} |-> Nil]
  /\ stage = "parse"
  /\ done = {}
  /\ libs = FALSE
  /\ defaultScale = FALSE
  /\ systemAms = FALSE

Piece == Head(Head(queue).pieces)
MorePieces == stage = "parse" /\ queue # <<>> /\ Head(queue).pieces # <<>>
Advance == queue' = [queue EXCEPT ![1].pieces = Tail(@)]

SetTimescale ==
  /\ MorePieces /\ Piece.k = "timescale"
  /\ timescale' = Piece.scale
  /\ Advance
  /\ UNCHANGED <<cLine, units, stage, done, libs, defaultScale, systemAms>>

\* The items of the module in order, then what the header says.
ParseUnit(src, scale) ==
  LET Add(u, i) == ParseItem(u, i, src.ansi)
      body == FoldLeft(Add, parse_ModuleDeclarationStart(src.name, scale, src.conds), src.items)
  IN  IF src.ansi THEN body ELSE parse_ModuleDeclaration(body, src.header)

ParseModule ==
  /\ MorePieces /\ Piece.k = "module"
  /\ units' = [n \in DOMAIN units \cup {Piece.name} |->
                 IF n = Piece.name THEN ParseUnit(Piece, timescale) ELSE units[n]]
  /\ Advance
  /\ UNCHANGED <<cLine, timescale, stage, done, libs, defaultScale, systemAms>>

\* A time scale that outlives its file.
EndOfFileKeepingTimescale ==
  /\ stage = "parse" /\ queue # <<>> /\ Head(queue).pieces = <<>>
  /\ libs' = (libs \/ IsAmsFile(Head(queue)))
  /\ queue' = Tail(queue)
  /\ UNCHANGED <<cLine, timescale, units, stage, done, defaultScale, systemAms>>

\* Every file has a parser of its own.
EndOfFile ==
  /\ stage = "parse" /\ queue # <<>> /\ Head(queue).pieces = <<>>
  /\ timescale' = Nil
  /\ libs' = (libs \/ IsAmsFile(Head(queue)))
  /\ queue' = Tail(queue)
  /\ UNCHANGED <<cLine, units, stage, done, defaultScale, systemAms>>

buildSystemObject ==
  /\ stage = "parse" /\ queue = <<>>
  /\ stage' = IF cLine.parseOnly THEN "raw" ELSE "step1"
  /\ UNCHANGED <<cLine, queue, timescale, units, done, libs, defaultScale, systemAms>>

-------------------------------------------------------------------------------
(* The passes over the units of the system.                                *)

Instantiated(u) == {u.insts[i].unit : i \in DOMAIN u.insts}

\* A pass in the order of the list of units.
MayVisitInAnyOrder(n) == n \in (DOMAIN units) \ done

\* A pass follows the instances before it completes the unit they are in.
MayVisit(n) == n \in (DOMAIN units) \ done /\ Instantiated(units[n]) \subseteq done

\* Any of the formals a port is bound to may be the first of its references.
FirstReferences(u) ==
  LET ports == {p \in PortNames(u) : BoundTo(u, p, units) # {}}
  IN  {f \in [ports -> UNION {BoundTo(u, p, units) : p \in ports}] :
         \A p \in ports : f[p] \in BoundTo(u, p, units)}

performStep1Refinements ==
  /\ stage = "step1"
  /\ \E n \in DOMAIN units : \E first \in FirstReferences(units[n]) :
       /\ MayVisit(n)
       /\ units' = [units EXCEPT ![n] = visitView(@, libs, units, first)]
       /\ done' = done \cup {n}
  /\ UNCHANGED <<cLine, queue, timescale, stage, libs, defaultScale, systemAms>>

\* A value of the type time is absolute.
IsTime(u, s, v) ==
  v.syms # {} /\ \A n \in v.syms : \E t \in {Top, s} : \E d \in ToSet(u.scopes[t].decls) :
                                       d.name = n /\ d.type = Named("time")

\* The value times the unit that is visible: the unit's own or the system's.
_scaleTimeValue(u, s, v) ==
  IF v = NoValue \/ IsTime(u, s, v) THEN v
  ELSE [v EXCEPT !.scales = Append(@, IF u.scale # Nil THEN u.scale ELSE DefaultScale)]

ScaleScope(u, s) ==
  LET sc == u.scopes[s]
  IN  [sc EXCEPT
        !.decls = [m \in DOMAIN sc.decls |-> IF sc.decls[m].type # Named("time") THEN sc.decls[m]
                                             ELSE [sc.decls[m] EXCEPT !.val = _scaleTimeValue(u, s, @)]],
        !.acts = [m \in DOMAIN sc.acts |-> [sc.acts[m] EXCEPT !.delay = _scaleTimeValue(u, s, @)]],
        !.tables = [m \in DOMAIN sc.tables |-> [sc.tables[m] EXCEPT !.delay = _scaleTimeValue(u, s, @)]]]

HasTimes(u) ==
  \E s \in DOMAIN u.scopes :
     \/ \E d \in ToSet(u.scopes[s].decls) : d.type = Named("time")
     \/ \E a \in ToSet(u.scopes[s].acts) : a.delay # NoValue
     \/ \E t \in ToSet(u.scopes[s].tables) : t.delay # NoValue

_checkViewTimeScale(u) == HasTimes(u) /\ u.scale = Nil

performStep2Refinements ==
  /\ stage = "step2"
  /\ \E n \in DOMAIN units :
       /\ MayVisit(n)
       /\ units' = [units EXCEPT ![n].scopes = [s \in DOMAIN @ |-> ScaleScope(units[n], s)]]
       /\ defaultScale' = (defaultScale \/ _checkViewTimeScale(units[n]))
       /\ done' = done \cup {n}
  /\ UNCHANGED <<cLine, queue, timescale, stage, libs, systemAms>>

\* A declaration of a discipline, an analog process or an instance of a marked
\* view: symbols whose declarations are of the AMS language.
_checkAmsSymbol(u) ==
  \/ \E d \in ToSet(u.ports) : d.type.of # Nil
  \/ \E i \in DOMAIN u.insts : units[u.insts[i].unit].ams
  \/ \E s \in DOMAIN u.scopes : \/ \E d \in ToSet(u.scopes[s].decls) : d.type.of # Nil
                                \/ \E t \in ToSet(u.scopes[s].tables) : t.k = "analog"

markAmsLanguage ==
  /\ stage = "mark"
  /\ \E n \in DOMAIN units :
       /\ MayVisit(n)
       /\ units' = [units EXCEPT ![n].ams = _checkAmsSymbol(units[n])]
       /\ systemAms' = (systemAms \/ _checkAmsSymbol(units[n]))
       /\ done' = done \cup {n}
  /\ UNCHANGED <<cLine, queue, timescale, stage, libs, defaultScale>>

\* main and postParsingRefinements: the passes in order.
NextPass ==
  /\ stage \in {"step1", "step2", "mark"} /\ done = DOMAIN units
  /\ stage' = CASE stage = "step1" -> "step2"
                [] stage = "step2" /\ libs -> "mark"
                [] OTHER -> "written"
  /\ done' = {}
  /\ UNCHANGED <<cLine, queue, timescale, units, libs, defaultScale, systemAms>>

Next ==
  \/ SetTimescale \/ ParseModule \/ EndOfFile \/ buildSystemObject
  \/ performStep1Refinements \/ performStep2Refinements \/ markAmsLanguage
  \/ NextPass

Spec == Init /\ [][Next]_vars

-------------------------------------------------------------------------------
(* Properties.                                                             *)

Sources ==
  LET found == {PieceAt(cLine, at) : at \in ModulePlaces(cLine)}
  IN  [n \in {s.name : s \in found} |-> CHOOSE s \in found : s.name = n]
AmsSources == {PieceAt(cLine, at).name : at \in {x \in ModulePlaces(cLine) : IsAmsFile(cLine.files[x[1]])}}

Translated(n) == n \in DOMAIN units /\ stage \notin {"parse", "raw", "step1"}

\* What the translated unit declares under a name, wherever it declares it.
DeclarationsOf(u, n) ==
  {d \in ToSet(u.tps) \cup ToSet(u.ports) \cup UNION {ToSet(u.scopes[s].decls) : s \in DOMAIN u.scopes}
     : d.name = n}
TranslatedDrivers(u, n) ==
  UNION {{[val |-> a.rhs, cond |-> u.scopes[s].cond, delay |-> [a.delay EXCEPT !.scales = <<>>]]
            : a \in {b \in ToSet(u.scopes[s].acts) : b.lhs = n}} : s \in DOMAIN u.scopes}

\* A constant that drives a net for good may be the value of its declaration.
MayBeFolded(drivers) ==
  Cardinality(drivers) = 1 /\ \A r \in drivers : r.cond = "always"

\* A function or task has its arguments in order, with their directions and
\* types; a function the variable it returns; the variables of a task keep
\* their values from call to call unless it is automatic; and the arguments of
\* a call go where their positions say.
SubprogramsMean(n) ==
    LET u == units[n]
        items == ToSet(Sources[n].items)
        Known(name) == CHOOSE i \in items : i.k \in {"function", "task"} /\ i.name = name
    IN  /\ \A m \in DOMAIN u.subs :
             LET sub == u.subs[m]
                 i == Known(sub.name)
                 local == IF LivesInModule(i) THEN {} ELSE Locals(i)
             IN  /\ [a \in DOMAIN sub.params |-> <<sub.params[a].name, sub.params[a].dir,
                        sub.params[a].type.span, sub.params[a].type.signed>>] = Arguments(i)
                 /\ NamesIn(sub.decls) = local \cup IF i.k = "function" THEN {i.name} ELSE {}
                 /\ Locals(i) \ local \subseteq NamesIn(u.scopes[Top].decls)
                 /\ i.k = "function" => sub.result = getSemanticType(i.span, i.signed)
        /\ \A c \in DOMAIN u.calls : \A a \in DOMAIN u.calls[c].args :
             u.calls[c].args[a].formal = Arguments(Known(u.calls[c].callee))[a][1]

\* A name the module declares has one declaration after step 1, with the
\* direction, range and sign the items of the module give it together, and the
\* same drivers and initial value: whatever form the header has, in whichever
\* order a port, a reg and a discipline of one name are merged and whatever
\* the two passes over the global actions fold.  Its functions and tasks mean
\* what they say too.
NamesMeanTheirDeclarations ==
  \A n \in DOMAIN Sources : Translated(n) =>
    /\ SubprogramsMean(n)
    /\ \A x \in DeclaredNames(Sources[n]) :
      \E d \in DeclarationsOf(units[n], x) :
        LET src == Sources[n]
            drivers == Drivers(src, x)
            initial == Initial(src, x, n \in AmsSources)
            val == [d.val EXCEPT !.scales = <<>>]
        IN  /\ DeclarationsOf(units[n], x) = {d}
            /\ d.dir = Direction(src, x)
            /\ d.type.span = Span(src, x)
            /\ d.type.signed = Signed(src, x)
            /\ \/ TranslatedDrivers(units[n], x) = drivers /\ val = initial
               \/ /\ MayBeFolded(drivers) /\ TranslatedDrivers(units[n], x) = {}
                  /\ \A r \in drivers : val = r.val /\ r.val.syms \subseteq Constants(src) \cup SystemFunctions

\* A port that only the header of its module names is given the type and the
\* direction of a port it is bound to, however deep the instances are nested.
PortsAreComplete ==
  \A n \in DOMAIN units : Translated(n) =>
    \A p \in ToSet(units[n].ports) :
      /\ p.type # NoType /\ p.dir # Nil
      /\ p.name \notin DeclaredNames(Sources[n]) =>
           \E f \in BoundTo(units[n], p.name, units) : p.type = f.type /\ p.dir = f.dir

\* Every symbol that step 1 leaves in a unit has a declaration where it is
\* used: a value in the entity names parameters only, local parameters that
\* parameters need have become parameters, and a net that nothing declares has
\* been declared where its assignment or the binding of a port needs it.
SymbolsResolve ==
  \A n \in DOMAIN units : Translated(n) =>
    LET u == units[n]
    IN  /\ \A d \in ToSet(u.tps) \cup ToSet(u.ports) : d.val.syms \subseteq EntitySees(u)
        /\ \A s \in DOMAIN u.scopes :
             /\ \A d \in ToSet(u.scopes[s].decls) : d.val.syms \subseteq ScopeSees(u, s)
             /\ \A a \in ToSet(u.scopes[s].acts) : {a.lhs} \cup a.rhs.syms \cup a.delay.syms \subseteq ScopeSees(u, s)
        /\ \A i \in DOMAIN u.insts : \A b \in DOMAIN u.insts[i].ports :
             /\ u.insts[i].ports[b].actual \in ScopeSees(u, Top)
             /\ u.insts[i].ports[b].formal \in PortNames(units[u.insts[i].unit])
        /\ \A i \in DOMAIN u.insts : \A b \in DOMAIN u.insts[i].params :
             /\ u.insts[i].params[b].val.syms \subseteq ScopeSees(u, Top)
             /\ u.insts[i].params[b].formal \in TemplateNames(units[u.insts[i].unit])

\* The time scale in force at a place: that of the last directive before it in
\* its file, or none.
ScaleAt(c, f, p) ==
  LET pieces == c.files[f].pieces
      before == {q \in DOMAIN pieces : q < p /\ pieces[q].k = "timescale"}
  IN  IF before = {} THEN Nil ELSE pieces[CHOOSE q \in before : \A r \in before : r <= q].scale
ScaleOf(n) ==
  LET at == CHOOSE at \in ModulePlaces(cLine) : PieceAt(cLine, at).name = n
  IN  ScaleAt(cLine, at[1], at[2])

\* After step 2 every delay has been scaled once, by the time scale in force
\* where its module was written, or by the default one where there is none, or
\* not at all when it is a time already, in which case the time has; and the
\* system declares the default time scale if a unit needs it.
DelaysAreScaled ==
  \A n \in DOMAIN units : stage \in {"mark", "written"} =>
    LET u == units[n]
        scale == IF ScaleOf(n) = Nil THEN DefaultScale ELSE ScaleOf(n)
        Scaled(s, v) == v.scales = IF v = NoValue \/ IsTime(u, s, v) THEN <<>> ELSE <<scale>>
    IN  /\ \A s \in DOMAIN u.scopes :
             /\ \A a \in ToSet(u.scopes[s].acts) : Scaled(s, a.delay)
             /\ \A t \in ToSet(u.scopes[s].tables) : Scaled(s, t.delay)
             /\ \A d \in ToSet(u.scopes[s].decls) :
                  IF d.type = Named("time") THEN Scaled(s, d.val) ELSE d.val.scales = <<>>
        /\ HasTimes(u) /\ ScaleOf(n) = Nil => defaultScale

\* When the file is written the units of the AMS language are those that are
\* analog or contain an analog unit at any depth, and the system is of the AMS
\* language when one of its units is.
AmsUnitsAreMarked ==
  stage = "written" =>
    LET analog == AnalogModules(Sources, AmsSources)
    IN  /\ {n \in DOMAIN units : units[n].ams} = analog
        /\ systemAms <=> analog # {}
===============================================================================
