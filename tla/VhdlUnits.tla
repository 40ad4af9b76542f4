------------------------------ MODULE VhdlUnits ------------------------------
(***************************************************************************)
(* How vhdl2hif puts a VHDL source together.  The parser collects the      *)
(* library units of all files in four lists (parse_DesignUnit),            *)
(* buildSystemObject matches the bodies with the declarations, step 1      *)
(* moves the entities into the packages that declare them as components,   *)
(* and step 2 gives every association of an instance its formal.           *)
(*                                                                         *)
(* A source is a set of library units.  They are parsed in any order: the  *)
(* files come in the order of the command line, which need not be the      *)
(* order of analysis.  Names are unique in each list, as in a VHDL         *)
(* library, so a list is a function of the name.                           *)
(***************************************************************************)
EXTENDS Naturals, Sequences, FiniteSetsExt, SequencesExt, Functions

CONSTANT Sources

VARIABLES source, unread, du_declarations, du_definitions,
          lib_declarations, lib_definitions, visited, phase

vars == <<source, unread, du_declarations, du_definitions,
          lib_declarations, lib_definitions, visited, phase>>

None == "none"                        \* NameTable::none(), and a null value
Open == "open"                        \* an actual that is a null pointer
Whole == "whole"                      \* an association without partial bind

Empty == [x \in {} |-> x]

\* A list with the units of another whose names it does not have.
Joined(units, others) ==
  [n \in (DOMAIN units) \cup DOMAIN others |->
     IF n \in DOMAIN units THEN units[n] ELSE others[n]]

OfKind(kind) == {u \in source : u.kind = kind}

-----------------------------------------------------------------------------
(* Instances and their associations *)

\* An association of the source has a formal by position, by name, or by an
\* index or a slice of a name.
parse_AssociationElement(assoc) ==
  [name |-> IF assoc.formal = "position" THEN None ELSE assoc.name,
   part |-> IF assoc.formal = "part" THEN assoc.part ELSE Whole,
   value |-> assoc.value]

parse_PortMapAspect(list) ==
  [k \in DOMAIN list |-> parse_AssociationElement(list[k])]

\* A generic association is copied without its partial bind.
parse_GenericMapAspect(list) ==
  [k \in DOMAIN list |-> [parse_AssociationElement(list[k]) EXCEPT !.part = Whole]]

\* "e", "work.e" and "work.e(arch)".
parse_InstantiatedUnit(name) ==
  [unit |-> name.unit, arch |-> IF name.form = "call" THEN name.arch ELSE None]

\* A process or an assignment has no name of a unit and no associations.
parse_ConcurrentStatement(st) ==
  LET unit == parse_InstantiatedUnit(st.name)
  IN [label |-> st.label, kind |-> st.kind, path |-> st.path,
      unit |-> unit.unit, arch |-> unit.arch,
      generics |-> parse_GenericMapAspect(st.generics),
      ports |-> parse_PortMapAspect(st.ports)]

\* _fixIntancesWithComponent, for one formal of the component: the first
\* association that is unnamed or has its name is its own; a formal without
\* association is given a copy of its default.
FixOne(assigns, formal) ==
  LET own == {k \in DOMAIN assigns : assigns[k].name \in {None, formal.name}}
  IN IF own # {}
       THEN [assigns EXCEPT ![Min(own)].name = formal.name]
     ELSE IF formal.default # None
       THEN Append(assigns, [name |-> formal.name, part |-> Whole,
                             value |-> formal.default])
     ELSE assigns

\* The components of an instance, in the order in which they fix it.
ComponentsOf(inst, components) ==
  SelectSeq(components, LAMBDA c : c.name = inst.unit /\ inst.arch \in {None, "behav"})

FixInstance(inst, components) ==
  LET own == ComponentsOf(inst, components)
      generics == FlattenSeq([k \in DOMAIN own |-> own[k].generics])
      ports == FlattenSeq([k \in DOMAIN own |-> own[k].ports])
  IN [generics |-> FoldLeft(FixOne, inst.generics, generics),
      ports |-> FoldLeft(FixOne, inst.ports, ports)]

\* Mutant: the outer blocks fix the instances first.
BlockComponentsOutermostFirst(path) ==
  FlattenSeq(Reverse([k \in DOMAIN path |->
                IF path[k].kind = "block" THEN path[k].components ELSE <<>>]))

\* A path holds the blocks and generates around a statement, innermost first.
\* A block fixes the instances inside it when it is reduced, a generate drops
\* the components it declares.
BlockComponents(path) ==
  FlattenSeq([k \in DOMAIN path |->
                IF path[k].kind = "block" THEN path[k].components ELSE <<>>])

\* parse_GenerateStatement merges the blocks directly inside a generate into
\* it; _fixBlockStatements moves the blocks directly inside a view into it.
Merged(path) ==
  {k \in DOMAIN path : /\ path[k].kind = "block"
                       /\ k < Len(path) /\ path[k + 1].kind = "generate"}

\* Mutant: the recursion of _fixBlockStatements is forgotten.
MovedOnce(path) ==
  {k \in DOMAIN path : path[k].kind = "block" /\ \A j \in DOMAIN path : j <= k}

Moved(path) ==
  {k \in DOMAIN path : \A j \in DOMAIN path : j >= k => path[j].kind = "block"}

\* The regions that are left keep their places in the path.
Without(path, removed) == Restrict(path, (DOMAIN path) \ removed)

ParsedStatement(st, components) ==
  LET inst == parse_ConcurrentStatement(st)
      fixed == FixInstance(inst, BlockComponents(st.path) \o components)
  IN [inst EXCEPT !.path = Without(@, Merged(@)),
                  !.generics = fixed.generics, !.ports = fixed.ports]

-----------------------------------------------------------------------------
(* The parser *)

NoContents == [name |-> None, libraries |-> {}, statements |-> {}, sign |-> None]

parse_EntityHeader(e) ==
  [name |-> None, libraries |-> {}, generics |-> e.generics, ports |-> e.ports,
   contents |-> NoContents, standard |-> FALSE, sign |-> None]

parse_EntityDeclaration(e) ==
  [parse_EntityHeader(e) EXCEPT !.name = e.name, !.libraries = e.uses]

parse_ComponentDeclaration(c) ==
  [parse_EntityHeader(c) EXCEPT !.name = "behav", !.standard = TRUE]

\* The use clauses of the architecture are kept, the ones of the context
\* clause in front of it are deleted with the clause.
parse_ArchitectureBody(a) ==
  [of |-> a.of, components |-> a.components,
   contents |-> [NoContents EXCEPT
                   !.name = a.name, !.libraries = a.uses,
                   !.statements = {ParsedStatement(st, a.components) :
                                     st \in a.statements}]]

ViewsOf(components) ==
  [n \in {components[k].name : k \in DOMAIN components} |->
     parse_ComponentDeclaration(components[Min({k \in DOMAIN components :
                                     components[k].name = n})])]

parse_PackageDeclaration(p) ==
  [libraries |-> p.uses, items |-> p.items, units |-> ViewsOf(p.components)]

Init ==
  /\ source \in Sources
  /\ unread = source
  /\ du_declarations = Empty
  /\ du_definitions = {}
  /\ lib_declarations = Empty
  /\ lib_definitions = Empty
  /\ visited = {}
  /\ phase = "parse"

Read(u) == unread' = unread \ {u}

ParseEntity(u) ==
  /\ u.kind = "entity"
  /\ du_declarations' = Joined(du_declarations, [n \in {u.name} |-> parse_EntityDeclaration(u)])
  /\ UNCHANGED <<du_definitions, lib_declarations, lib_definitions>>

ParseArchitecture(u) ==
  /\ u.kind = "architecture"
  /\ du_definitions' = du_definitions \cup {parse_ArchitectureBody(u)}
  /\ UNCHANGED <<du_declarations, lib_declarations, lib_definitions>>

ParsePackage(u) ==
  /\ u.kind = "package"
  /\ lib_declarations' = Joined(lib_declarations, [n \in {u.name} |-> parse_PackageDeclaration(u)])
  /\ UNCHANGED <<du_declarations, du_definitions, lib_definitions>>

ParsePackageBody(u) ==
  /\ u.kind = "package body"
  /\ lib_definitions' = Joined(lib_definitions, [n \in {u.name} |-> u.items])
  /\ UNCHANGED <<du_declarations, du_definitions, lib_declarations>>

\* A configuration fills a map of the parser that nothing reads.
ParseConfiguration(u) ==
  /\ u.kind = "configuration"
  /\ UNCHANGED <<du_declarations, du_definitions, lib_declarations, lib_definitions>>

Parse(u) ==
  /\ phase = "parse"
  /\ Read(u)
  /\ \/ ParseEntity(u)
     \/ ParseArchitecture(u)
     \/ ParsePackage(u)
     \/ ParsePackageBody(u)
     \/ ParseConfiguration(u)
  /\ UNCHANGED <<source, visited, phase>>

ParsingEnds ==
  /\ phase = "parse"
  /\ unread = {}
  /\ phase' = "build"
  /\ UNCHANGED <<source, unread, du_declarations, du_definitions,
                 lib_declarations, lib_definitions, visited>>
-----------------------------------------------------------------------------
(* buildSystemObject *)

setContents(view, contents) ==
  [view EXCEPT !.contents = contents, !.name = contents.name, !.standard = FALSE]

\* The contents of an architecture go to the declaration of its name, an
\* architecture without one is deleted; its components without a declaration
\* become declarations.
PlaceArchitecture(b) ==
  /\ phase = "build"
  /\ du_definitions' = du_definitions \ {b}
  /\ IF b.of \in DOMAIN du_declarations
        THEN /\ du_declarations[b.of].contents = NoContents
             /\ du_declarations' =
                  Joined([du_declarations EXCEPT
                            ![b.of] = setContents(@, b.contents)],
                         ViewsOf(b.components))
        ELSE du_declarations' = Joined(du_declarations, ViewsOf(b.components))
  /\ UNCHANGED <<source, unread, lib_declarations, lib_definitions, visited, phase>>

\* "Multiple architectures are not supported yet"
SecondArchitecture(b) ==
  /\ phase = "build"
  /\ b.of \in DOMAIN du_declarations
  /\ du_declarations[b.of].contents # NoContents
  /\ phase' = "error"
  /\ UNCHANGED <<source, unread, du_declarations, du_definitions,
                 lib_declarations, lib_definitions, visited>>

\* A package takes the declarations of the body of its name.
BuildSystem ==
  /\ phase = "build"
  /\ du_definitions = {}
  /\ lib_declarations' =
       [n \in DOMAIN lib_declarations |->
          IF n \in DOMAIN lib_definitions
            THEN [lib_declarations[n] EXCEPT !.items = @ \cup lib_definitions[n]]
            ELSE lib_declarations[n]]
  /\ lib_definitions' = Empty
  /\ phase' = "link"
  /\ UNCHANGED <<source, unread, du_declarations, du_definitions, visited>>

-----------------------------------------------------------------------------
(* Step 1: visitSystem *)

\* The packages with a design unit of this name.
Elsewhere(n) == {p \in DOMAIN lib_declarations : n \in DOMAIN lib_declarations[p].units}

\* The ones that getDeclaration finds from inside the view.
Visible(n) ==
  Elsewhere(n) \cap (du_declarations[n].libraries
                       \cup du_declarations[n].contents.libraries)

Link(n) ==
  /\ phase = "link"
  /\ n \in DOMAIN du_declarations \ visited
  /\ visited' = visited \cup {n}
  /\ \/ /\ Elsewhere(n) = {}
        /\ UNCHANGED <<du_declarations, lib_declarations>>
     \/ \E p \in IF Visible(n) # {} THEN Visible(n) ELSE Elsewhere(n) :
           /\ Visible(n) # {} \/ Elsewhere(n) = {p}
           /\ lib_declarations' =
                [lib_declarations EXCEPT ![p].units[n] = du_declarations[n]]
           /\ du_declarations' = Restrict(du_declarations, DOMAIN du_declarations \ {n})
  /\ UNCHANGED <<source, unread, du_definitions, lib_definitions, phase>>

\* "Found more than one entities with same name, this is not supported yet"
SeveralEntities(n) ==
  /\ phase = "link"
  /\ n \in DOMAIN du_declarations \ visited
  /\ Visible(n) = {}
  /\ Cardinality(Elsewhere(n)) > 1
  /\ phase' = "error"
  /\ UNCHANGED <<source, unread, du_declarations, du_definitions,
                 lib_declarations, lib_definitions, visited>>

(* Step 1: the views *)

\* visitBitvector: the first list with one of the two packages decides.
SignPackages == {"std_logic_signed", "std_logic_unsigned"}

SignFrom(lists) ==
  LET deciding == {k \in DOMAIN lists : lists[k] \cap SignPackages # {}}
  IN IF deciding = {} THEN None
     ELSE CHOOSE s \in lists[Min(deciding)] \cap SignPackages : TRUE

\* The declared view of a unit name, wherever the unit is now.
DeclaredView(n) ==
  IF n \in DOMAIN du_declarations THEN du_declarations[n]
  ELSE lib_declarations[CHOOSE p \in Elsewhere(n) : TRUE].units[n]

\* visitViewReference gives a reference without architecture the one there is.
VisitedStatement(st) ==
  [st EXCEPT !.path = Without(@, Moved(@)),
             !.arch = IF st.kind = "instance" /\ @ = None
                        THEN DeclaredView(st.unit).name ELSE @]

VisitedContents(contents, itself, outer) ==
  LET libraries == contents.libraries \ itself
  IN [contents EXCEPT !.libraries = libraries,
                      !.sign = SignFrom(<<libraries>> \o outer),
                      !.statements = {VisitedStatement(st) : st \in @}]

\* outer lists the libraries of the package around the view, if any.
\* _fixUselessLibraryInclusions drops the libraries named as a design unit;
\* visitLibraryDef drops the ones that name the package itself.
VisitedView(view, itself, outer) ==
  LET libraries == view.libraries \ (DOMAIN du_declarations \cup itself)
  IN [view EXCEPT !.libraries = libraries,
                  !.sign = SignFrom(<<libraries>> \o outer),
                  !.contents = VisitedContents(@, itself, <<libraries>> \o outer)]

VisitedPackage(p, lib) ==
  LET libraries == lib.libraries \ {p}
  IN [lib EXCEPT !.libraries = libraries,
                 !.units = [n \in DOMAIN @ |-> VisitedView(@[n], {p}, <<libraries>>)]]

VisitViews ==
  /\ phase = "link"
  /\ DOMAIN du_declarations \subseteq visited
  /\ du_declarations' = [n \in DOMAIN du_declarations |->
                            VisitedView(du_declarations[n], {}, <<>>)]
  /\ lib_declarations' =
       [p \in DOMAIN lib_declarations |-> VisitedPackage(p, lib_declarations[p])]
  /\ phase' = "instances"
  /\ UNCHANGED <<source, unread, du_definitions, lib_definitions, visited>>

-----------------------------------------------------------------------------
(* Step 2: visitInstance *)

\* Partial bindings of a port are joined, open ports are dropped, and the
\* associations still without a name take the names of the declared view in
\* order.  What is left is what each formal is connected to, part by part.
Connected(assigns, formals) ==
  LET kept == {k \in DOMAIN assigns : assigns[k].value # Open}
      name(k) == IF assigns[k].name # None THEN assigns[k].name
                 ELSE formals[Cardinality({j \in kept : j <= k})].name
  IN [f \in {name(k) : k \in kept} |->
        {<<assigns[k].part, assigns[k].value>> : k \in {j \in kept : name(j) = f}}]

BoundStatement(st) ==
  IF st.kind # "instance" THEN st
  ELSE LET view == DeclaredView(st.unit)
       IN [st EXCEPT !.generics = Connected(@, view.generics),
                     !.ports = Connected(@, view.ports)]

BoundView(view) ==
  [view EXCEPT !.contents.statements = {BoundStatement(st) : st \in @}]

\* Before that visitLibraryDef of step 2 replaces a unit of a package by the
\* design unit of its name, if there still is one.
BoundPackage(lib) ==
  [lib EXCEPT !.units = [n \in DOMAIN @ |->
     BoundView(IF n \in DOMAIN du_declarations THEN du_declarations[n] ELSE @[n])]]

VisitInstances ==
  /\ phase = "instances"
  /\ lib_declarations' =
       [p \in DOMAIN lib_declarations |-> BoundPackage(lib_declarations[p])]
  /\ du_declarations' =
       [n \in {m \in DOMAIN du_declarations : Elsewhere(m) = {}} |->
          BoundView(du_declarations[n])]
  /\ phase' = "done"
  /\ UNCHANGED <<source, unread, du_definitions, lib_definitions, visited>>

Next ==
  \/ \E u \in unread : Parse(u)
  \/ ParsingEnds
  \/ \E b \in du_definitions : PlaceArchitecture(b) \/ SecondArchitecture(b)
  \/ BuildSystem
  \/ \E n \in DOMAIN du_declarations : Link(n) \/ SeveralEntities(n)
  \/ VisitViews
  \/ VisitInstances

Spec == Init /\ [][Next]_vars
=============================================================================
