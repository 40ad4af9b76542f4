----------------------- MODULE VhdlElaboration_proofs -----------------------
(***************************************************************************)
(* Proofs about VhdlUnits: where the bodies of a source end up.            *)
(***************************************************************************)
EXTENDS VhdlElaboration, FiniteSetTheorems, TLAPS

-----------------------------------------------------------------------------
(* What a source has to be for its bodies to have a place: a legal library,    *)
(* without the three cases of section 5 of the README (an architecture whose    *)
(* entity is in no file, a block in a block in a generate, a component that two *)
(* packages declare).                                                           *)
UnitsOf(S, kind) == {u \in S : u.kind = kind}

NamesAreUnique(S) ==
    \A u, v \in S : u.kind = v.kind /\ u.kind \in {"entity", "package", "package body"} /\ u.name = v.name => u = v

BodiesAreDeclared(S) ==
    /\ \A a \in UnitsOf(S, "architecture") : a.name # None /\ \E e \in UnitsOf(S, "entity") : e.name = a.of
    /\ \A b \in UnitsOf(S, "package body") : \E p \in UnitsOf(S, "package") : p.name = b.name

BlocksAreRemoved(S) ==
    \A a \in UnitsOf(S, "architecture") : \A st \in a.statements :
        \A k \in DOMAIN st.path :
            /\ DOMAIN st.path = 1 .. Len(st.path) /\ Len(st.path) \in Nat
            /\ \/ st.path[k].kind = "generate"
               \/ st.path[k].kind = "block" /\ k < Len(st.path) /\ st.path[k + 1].kind = "generate"
               \/ \A j \in DOMAIN st.path : j >= k => st.path[j].kind = "block"

ComponentNames(u) == {u.components[k].name : k \in DOMAIN u.components}

Packages(S, n) == {p.name : p \in {q \in UnitsOf(S, "package") : n \in ComponentNames(q)}}

Listed(S) ==
    {e.name : e \in UnitsOf(S, "entity")} \cup UNION {ComponentNames(a) : a \in UnitsOf(S, "architecture")}

Declared(S, n) == n \in Listed(S) \/ Packages(S, n) # {}

InstancesAreDeclared(S) ==
    \A a \in UnitsOf(S, "architecture") : \A st \in a.statements :
        st.kind = "instance" =>
            /\ Declared(S, st.name.unit)
            /\ st.name.form = "call" =>
                   \E b \in UnitsOf(S, "architecture") : b.of = st.name.unit /\ b.name = st.name.arch

ComponentsAreUnique(S) == \A n : \A p, q \in Packages(S, n) : p = q

WellFormed(S) ==
    /\ NamesAreUnique(S) /\ BodiesAreDeclared(S) /\ BlocksAreRemoved(S) /\ InstancesAreDeclared(S)
    /\ ComponentsAreUnique(S)

-----------------------------------------------------------------------------
(* Views, contents and statements. *)
IsContents(c) ==
    /\ DOMAIN c = {"name", "libraries", "statements", "sign"}
    /\ \A st \in c.statements : DOMAIN st = {"label", "kind", "path", "unit", "arch", "generics", "ports"}

IsView(v) ==
    /\ DOMAIN v = {"name", "libraries", "generics", "ports", "contents", "standard", "sign"}
    /\ IsContents(v.contents)

(* A statement of the source once the architecture is parsed. *)
LEMMA ParsedFacts ==
    ASSUME NEW st, NEW components
    PROVE  LET x == ParsedStatement(st, components)
           IN /\ DOMAIN x = {"label", "kind", "path", "unit", "arch", "generics", "ports"}
              /\ x.label = st.label /\ x.kind = st.kind
              /\ x.path = Without(st.path, Merged(st.path))
              /\ x.unit = st.name.unit
              /\ x.arch = IF st.name.form = "call" THEN st.name.arch ELSE None
BY DEF ParsedStatement, parse_ConcurrentStatement, parse_InstantiatedUnit

LEMMA VisitedFacts ==
    ASSUME NEW st, DOMAIN st = {"label", "kind", "path", "unit", "arch", "generics", "ports"}
    PROVE  LET x == VisitedStatement(st)
           IN /\ DOMAIN x = {"label", "kind", "path", "unit", "arch", "generics", "ports"}
              /\ x.label = st.label /\ x.kind = st.kind /\ x.unit = st.unit
              /\ x.path = Without(st.path, Moved(st.path))
              /\ x.arch = IF st.kind = "instance" /\ st.arch = None THEN DeclaredView(st.unit).name ELSE st.arch
BY DEF VisitedStatement

LEMMA BoundFacts ==
    ASSUME NEW st, DOMAIN st = {"label", "kind", "path", "unit", "arch", "generics", "ports"}
    PROVE  LET x == BoundStatement(st)
           IN /\ DOMAIN x = {"label", "kind", "path", "unit", "arch", "generics", "ports"}
              /\ x.label = st.label /\ x.kind = st.kind /\ x.unit = st.unit
              /\ x.path = st.path /\ x.arch = st.arch
BY DEF BoundStatement

(* Everything of a view but its libraries, its signs and its statements.       *)
SameUnit(x, v) ==
    /\ IsView(x)
    /\ x.name = v.name /\ x.standard = v.standard
    /\ x.ports = v.ports /\ x.generics = v.generics
    /\ x.contents.name = v.contents.name

LEMMA VisitedViewFacts ==
    ASSUME NEW v, IsView(v), NEW itself, NEW outer
    PROVE  /\ SameUnit(VisitedView(v, itself, outer), v)
           /\ VisitedView(v, itself, outer).contents.statements = {VisitedStatement(st) : st \in v.contents.statements}
<1>1. PICK d : \E o : d = VisitedContents(v.contents, itself, o) /\ d = VisitedView(v, itself, outer).contents
  BY DEF VisitedView, IsView
<1>2. IsContents(d) /\ d.name = v.contents.name /\ d.statements = {VisitedStatement(st) : st \in v.contents.statements}
  BY <1>1, VisitedFacts DEF VisitedContents, IsView, IsContents
<1>3. QED BY <1>1, <1>2 DEF VisitedView, IsView, SameUnit

LEMMA BoundViewFacts ==
    ASSUME NEW v, IsView(v)
    PROVE  /\ SameUnit(BoundView(v), v)
           /\ BoundView(v).contents.statements = {BoundStatement(st) : st \in v.contents.statements}
BY BoundFacts DEF BoundView, IsView, IsContents, SameUnit

LEMMA ViewsOfFacts ==
    ASSUME NEW components
    PROVE  /\ DOMAIN ViewsOf(components) = {components[k].name : k \in DOMAIN components}
           /\ \A n \in DOMAIN ViewsOf(components) :
                  /\ IsView(ViewsOf(components)[n])
                  /\ ViewsOf(components)[n].contents.statements = {}
BY DEF ViewsOf, parse_ComponentDeclaration, parse_EntityHeader, IsView, IsContents, NoContents

(* The path of a statement once its architecture is parsed: what is left of     *)
(* the blocks is what step 1 moves.                                             *)
Movable(path) == \A k \in DOMAIN path : path[k].kind = "generate" \/ k \in Moved(path)

LEMMA MergedPath ==
    ASSUME NEW S, BlocksAreRemoved(S), NEW a \in UnitsOf(S, "architecture"), NEW st \in a.statements
    PROVE  Movable(Without(st.path, Merged(st.path)))
<1>1. PICK p : p = Without(st.path, Merged(st.path))
  OBVIOUS
<1>2. DOMAIN p = (DOMAIN st.path) \ Merged(st.path) /\ \A k \in DOMAIN p : p[k] = st.path[k]
  BY <1>1 DEF Without, Restrict
<1>3. ASSUME NEW k \in DOMAIN p, p[k].kind # "generate" PROVE k \in Moved(p)
  <2>1. k \in DOMAIN st.path /\ k \notin Merged(st.path) /\ st.path[k].kind # "generate"
    BY <1>2, <1>3
  <2>2. \A j \in DOMAIN st.path : j >= k => st.path[j].kind = "block"
    BY <2>1 DEF BlocksAreRemoved, Merged
  <2>3. \A j \in DOMAIN p : j >= k => p[j].kind = "block"
    BY <1>2, <2>2
  <2>4. QED BY <1>3, <2>3 DEF Moved
<1>4. QED BY <1>1, <1>3 DEF Movable

LEMMA MovedPath ==
    ASSUME NEW path, Movable(path)
    PROVE  \A k \in DOMAIN Without(path, Moved(path)) : Without(path, Moved(path))[k].kind = "generate"
BY DEF Movable, Without, Restrict

-----------------------------------------------------------------------------
(* Where the view of a name is. *)
OfPackages(S, lib) ==
    /\ DOMAIN lib = {p.name : p \in UnitsOf(S, "package")}
    /\ \A p \in UnitsOf(S, "package") :
           DOMAIN lib[p.name] = {"libraries", "items", "units"} /\ DOMAIN lib[p.name].units = ComponentNames(p)

ViewIn(du, lib, n) ==
    IF n \in DOMAIN du THEN du[n]
    ELSE lib[CHOOSE p \in {q \in DOMAIN lib : n \in DOMAIN lib[q].units} : TRUE].units[n]

LEMMA PackagesOf ==
    ASSUME NEW S, WellFormed(S), NEW lib, OfPackages(S, lib), NEW n
    PROVE  {q \in DOMAIN lib : n \in DOMAIN lib[q].units} = Packages(S, n)
<1>1. ASSUME NEW q \in DOMAIN lib, n \in DOMAIN lib[q].units PROVE q \in Packages(S, n)
  <2>1. PICK p \in UnitsOf(S, "package") : q = p.name
    BY DEF OfPackages
  <2>2. n \in ComponentNames(p)
    BY <1>1, <2>1 DEF OfPackages
  <2>3. QED BY <2>1, <2>2 DEF Packages
<1>2. ASSUME NEW q \in Packages(S, n) PROVE q \in DOMAIN lib /\ n \in DOMAIN lib[q].units
  BY DEF Packages, OfPackages
<1>3. QED BY <1>1, <1>2

LEMMA ViewInFacts ==
    ASSUME NEW S, WellFormed(S), NEW du, NEW lib, OfPackages(S, lib), NEW n
    PROVE  /\ n \in DOMAIN du => ViewIn(du, lib, n) = du[n]
           /\ \A p \in Packages(S, n) : n \notin DOMAIN du => ViewIn(du, lib, n) = lib[p].units[n]
<1>1. n \in DOMAIN du => ViewIn(du, lib, n) = du[n]
  BY DEF ViewIn
<1>2. ASSUME NEW p \in Packages(S, n), n \notin DOMAIN du PROVE ViewIn(du, lib, n) = lib[p].units[n]
  <2>1. PICK T : T = {q \in DOMAIN lib : n \in DOMAIN lib[q].units}
    OBVIOUS
  <2>2. T = Packages(S, n)
    BY <2>1, PackagesOf
  <2>3. (CHOOSE q \in T : TRUE) \in T
    BY <1>2, <2>2
  <2>4. (CHOOSE q \in T : TRUE) = p
    BY <2>2, <2>3 DEF WellFormed, ComponentsAreUnique
  <2>5. ViewIn(du, lib, n) = lib[CHOOSE q \in T : TRUE].units[n]
    BY <1>2, <2>1, Zenon DEF ViewIn
  <2>6. QED BY <2>4, <2>5
<1>3. QED BY <1>1, <1>2

LEMMA ViewsMeet ==
    ASSUME NEW n
    PROVE  /\ DeclaredView(n) = ViewIn(du_declarations, lib_declarations, n)
           /\ DeclaredView(n)' = ViewIn(du_declarations', lib_declarations', n)
BY DEF DeclaredView, ViewIn, Elsewhere

-----------------------------------------------------------------------------
(* What the phases keep. *)
StatementsParsed(S, v) ==
    \A st \in v.contents.statements :
        /\ Movable(st.path)
        /\ st.kind = "instance" =>
               /\ Declared(S, st.unit)
               /\ st.arch = None \/ \E b \in UnitsOf(S, "architecture") : b.of = st.unit /\ b.name = st.arch

StatementsVisited(S, v) ==
    \A st \in v.contents.statements :
        /\ \A k \in DOMAIN st.path : st.path[k].kind = "generate"
        /\ st.kind = "instance" => Declared(S, st.unit) /\ st.arch = DeclaredView(st.unit).name

Placed(v, a) ==
    /\ v.name = a.name /\ v.contents.name = a.name
    /\ Labels(v.contents.statements) = Labels(a.statements)

OfEntity(v, e) == v.standard = FALSE /\ v.ports = e.ports /\ v.generics = e.generics

(* A list holds the views of some units by their names. *)
Lists(list, units, view) ==
    DOMAIN list = {u.name : u \in units} /\ \A u \in units : list[u.name] = view[u]

EntityViews(S) == [u \in S |-> parse_EntityDeclaration(u)]
PackageViews(S) == [u \in S |-> parse_PackageDeclaration(u)]
BodyViews(S) == [u \in S |-> u.items]

ParseInv(S) ==
    phase = "parse" =>
        /\ unread \subseteq S /\ visited = {}
        /\ Lists(du_declarations, UnitsOf(S, "entity") \ unread, EntityViews(S))
        /\ du_definitions = {parse_ArchitectureBody(a) : a \in UnitsOf(S, "architecture") \ unread}
        /\ Lists(lib_declarations, UnitsOf(S, "package") \ unread, PackageViews(S))
        /\ Lists(lib_definitions, UnitsOf(S, "package body") \ unread, BodyViews(S))

ListsInv(S) ==
    /\ visited = {}
    /\ Lists(lib_declarations, UnitsOf(S, "package"), PackageViews(S))
    /\ Lists(lib_definitions, UnitsOf(S, "package body"), BodyViews(S))

BuildInv(S) ==
    phase = "build" =>
        /\ ListsInv(S)
        /\ du_definitions \subseteq {parse_ArchitectureBody(a) : a \in UnitsOf(S, "architecture")}
        /\ DOMAIN du_declarations \subseteq Listed(S)
        /\ \A n \in DOMAIN du_declarations :
               IsView(du_declarations[n]) /\ StatementsParsed(S, du_declarations[n])
        /\ \A e \in UnitsOf(S, "entity") : e.name \in DOMAIN du_declarations /\ OfEntity(du_declarations[e.name], e)
        /\ \A a \in UnitsOf(S, "architecture") :
               \/ parse_ArchitectureBody(a) \in du_definitions
               \/ ComponentNames(a) \subseteq DOMAIN du_declarations /\ Placed(du_declarations[a.of], a)

LinkInv(S) ==
    phase \in {"link", "instances", "done"} =>
        /\ OfPackages(S, lib_declarations)
        /\ \A b \in UnitsOf(S, "package body") : b.items \subseteq lib_declarations[b.name].items
        /\ DOMAIN du_declarations \subseteq Listed(S)
        /\ \A n : Declared(S, n) =>
               /\ n \in DOMAIN du_declarations \/ Packages(S, n) # {}
               /\ n \in DOMAIN du_declarations /\ (phase = "link" => n \in visited) => Packages(S, n) = {}
               /\ IsView(DeclaredView(n))
               /\ IF phase = "link" THEN StatementsParsed(S, DeclaredView(n))
                                    ELSE StatementsVisited(S, DeclaredView(n))
        /\ \A a \in UnitsOf(S, "architecture") :
               /\ Placed(DeclaredView(a.of), a)
               /\ \A e \in UnitsOf(S, "entity") : e.name = a.of => OfEntity(DeclaredView(a.of), e)

UnitsInv(S) == source = S /\ ParseInv(S) /\ BuildInv(S) /\ LinkInv(S)

-----------------------------------------------------------------------------
(* Parsing. *)
LEMMA JoinedFacts ==
    ASSUME NEW f, NEW g
    PROVE  /\ DOMAIN Joined(f, g) = (DOMAIN f) \cup DOMAIN g
           /\ \A n \in DOMAIN f : Joined(f, g)[n] = f[n]
           /\ \A n \in (DOMAIN g) \ DOMAIN f : Joined(f, g)[n] = g[n]
BY DEF Joined

(* A list that holds the units of one kind that have been read takes another.   *)
LEMMA UnitAdded ==
    ASSUME NEW S, NamesAreUnique(S), NEW R, R \subseteq S, NEW u \in S \ R,
           u.kind \in {"entity", "package", "package body"}, \A e \in R : e.kind = u.kind,
           NEW list, NEW view, Lists(list, R, view), NEW single, single = [n \in {u.name} |-> view[u]]
    PROVE  Lists(Joined(list, single), R \cup {u}, view)
<1>1. u.name \notin DOMAIN list
  <2>1. ASSUME NEW e \in R, e.name = u.name PROVE FALSE
    BY <2>1 DEF NamesAreUnique
  <2>2. QED BY <2>1 DEF Lists
<1>2. PICK list2 : list2 = Joined(list, single)
  OBVIOUS
<1>3. list2 = [n \in (DOMAIN list) \cup {u.name} |-> IF n \in DOMAIN list THEN list[n] ELSE single[n]]
  BY <1>2 DEF Joined
<1>4. list2[u.name] = view[u]
  BY <1>1, <1>3
<1>5. \A e \in R : list2[e.name] = view[e]
  BY <1>3 DEF Lists
<1>6. DOMAIN list2 = {e.name : e \in R \cup {u}}
  <2>1. DOMAIN list2 = (DOMAIN list) \cup {u.name}
    BY <1>3
  <2>2. {e.name : e \in R \cup {u}} = {e.name : e \in R} \cup {u.name}
    OBVIOUS
  <2>3. QED BY <2>1, <2>2 DEF Lists
<1>7. QED BY <1>2, <1>4, <1>5, <1>6 DEF Lists

LEMMA ParseStep ==
    ASSUME NEW S, WellFormed(S), source = S, ParseInv(S), NEW u \in unread, Parse(u)
    PROVE  ParseInv(S)'
<1>1. /\ phase = "parse" /\ phase' = "parse" /\ unread \subseteq S /\ u \in S /\ NamesAreUnique(S)
      /\ unread' = unread \ {u} /\ unread' \subseteq S /\ visited' = {}
  BY DEF Parse, Read, ParseInv, WellFormed
<1>2. PICK R \in SUBSET S : R = UnitsOf(S, u.kind) \ unread
  BY DEF UnitsOf
<1>3. /\ u \notin R /\ \A e \in R : e.kind = u.kind
      /\ \A kind : UnitsOf(S, kind) \ unread' = IF u.kind = kind THEN R \cup {u} ELSE UnitsOf(S, kind) \ unread
  BY <1>1, <1>2 DEF UnitsOf
<1>4. CASE ParseEntity(u)
  <2>1. /\ u.kind = "entity" /\ UNCHANGED <<du_definitions, lib_declarations, lib_definitions>>
        /\ du_declarations' = Joined(du_declarations, [n \in {u.name} |-> EntityViews(S)[u]])
    BY <1>1, <1>4 DEF ParseEntity, EntityViews
  <2>2. Lists(du_declarations, R, EntityViews(S))
    BY <1>1, <1>2, <2>1 DEF ParseInv
  <2>3. Lists(du_declarations', R \cup {u}, EntityViews(S))
    BY <1>1, <1>2, <1>3, <2>1, <2>2, UnitAdded
  <2>4. QED BY <1>1, <1>2, <1>3, <2>1, <2>3 DEF ParseInv
<1>5. CASE ParsePackage(u)
  <2>1. /\ u.kind = "package" /\ UNCHANGED <<du_declarations, du_definitions, lib_definitions>>
        /\ lib_declarations' = Joined(lib_declarations, [n \in {u.name} |-> PackageViews(S)[u]])
    BY <1>1, <1>5 DEF ParsePackage, PackageViews
  <2>2. Lists(lib_declarations, R, PackageViews(S))
    BY <1>1, <1>2, <2>1 DEF ParseInv
  <2>3. Lists(lib_declarations', R \cup {u}, PackageViews(S))
    BY <1>1, <1>2, <1>3, <2>1, <2>2, UnitAdded
  <2>4. QED BY <1>1, <1>2, <1>3, <2>1, <2>3 DEF ParseInv
<1>6. CASE ParsePackageBody(u)
  <2>1. /\ u.kind = "package body" /\ UNCHANGED <<du_declarations, du_definitions, lib_declarations>>
        /\ lib_definitions' = Joined(lib_definitions, [n \in {u.name} |-> BodyViews(S)[u]])
    BY <1>1, <1>6 DEF ParsePackageBody, BodyViews
  <2>2. Lists(lib_definitions, R, BodyViews(S))
    BY <1>1, <1>2, <2>1 DEF ParseInv
  <2>3. Lists(lib_definitions', R \cup {u}, BodyViews(S))
    BY <1>1, <1>2, <1>3, <2>1, <2>2, UnitAdded
  <2>4. QED BY <1>1, <1>2, <1>3, <2>1, <2>3 DEF ParseInv
<1>7. CASE ParseArchitecture(u)
  <2>1. /\ u.kind = "architecture" /\ UNCHANGED <<du_declarations, lib_declarations, lib_definitions>>
        /\ du_definitions' = du_definitions \cup {parse_ArchitectureBody(u)}
    BY <1>7 DEF ParseArchitecture
  <2>2. du_definitions' = {parse_ArchitectureBody(a) : a \in R \cup {u}}
    BY <1>1, <1>2, <2>1 DEF ParseInv
  <2>3. QED BY <1>1, <1>2, <1>3, <2>1, <2>2 DEF ParseInv
<1>8. CASE ParseConfiguration(u)
  <2>1. u.kind = "configuration" /\ UNCHANGED <<du_declarations, du_definitions, lib_declarations, lib_definitions>>
    BY <1>8 DEF ParseConfiguration
  <2>2. QED BY <1>1, <1>2, <1>3, <2>1 DEF ParseInv
<1>9. QED BY <1>4, <1>5, <1>6, <1>7, <1>8 DEF Parse

(* When all units are read, the lists hold all of them. *)
LEMMA EntityView ==
    ASSUME NEW S, NEW e
    PROVE  /\ IsView(parse_EntityDeclaration(e)) /\ OfEntity(parse_EntityDeclaration(e), e)
           /\ parse_EntityDeclaration(e).contents.statements = {}
BY DEF parse_EntityDeclaration, parse_EntityHeader, NoContents, IsView, IsContents, OfEntity

LEMMA ParseEnds ==
    ASSUME NEW S, WellFormed(S), source = S, ParseInv(S), ParsingEnds
    PROVE  BuildInv(S)'
<1>1. /\ phase = "parse" /\ phase' = "build" /\ visited = {} /\ visited' = visited
      /\ UNCHANGED <<du_declarations, du_definitions, lib_declarations, lib_definitions>>
      /\ \A kind : UnitsOf(S, kind) \ unread = UnitsOf(S, kind)
  BY DEF ParsingEnds, ParseInv
<1>2. ListsInv(S)'
  BY <1>1 DEF ParseInv, ListsInv
<1>3. Lists(du_declarations, UnitsOf(S, "entity"), EntityViews(S))
  BY <1>1 DEF ParseInv
<1>4. \A e \in UnitsOf(S, "entity") : e.name \in DOMAIN du_declarations
                                     /\ du_declarations[e.name] = parse_EntityDeclaration(e)
  BY <1>3 DEF Lists, EntityViews, UnitsOf
<1>5. ASSUME NEW n \in DOMAIN du_declarations
      PROVE  n \in Listed(S) /\ IsView(du_declarations[n]) /\ StatementsParsed(S, du_declarations[n])
  <2>1. PICK e \in UnitsOf(S, "entity") : n = e.name
    BY <1>3 DEF Lists
  <2>2. du_declarations[n] = parse_EntityDeclaration(e)
    BY <1>4, <2>1
  <2>3. QED BY <2>1, <2>2, EntityView DEF Listed, StatementsParsed
<1>6. \A e \in UnitsOf(S, "entity") : OfEntity(du_declarations[e.name], e)
  BY <1>4, EntityView
<1>7. du_definitions = {parse_ArchitectureBody(a) : a \in UnitsOf(S, "architecture")}
  BY <1>1 DEF ParseInv
<1>8. QED BY <1>1, <1>2, <1>4, <1>5, <1>6, <1>7 DEF BuildInv, StatementsParsed

-----------------------------------------------------------------------------
(* Matching the bodies with the declarations. *)

(* The view w that the body of the architecture a makes of v.                   *)
HasBody(S, w, v, a) ==
    /\ IsView(w) /\ Placed(w, a) /\ StatementsParsed(S, w) /\ w.contents # NoContents
    /\ w.standard = FALSE /\ w.ports = v.ports /\ w.generics = v.generics

LEMMA ParsedArchitecture ==
    ASSUME NEW S, WellFormed(S), NEW a \in UnitsOf(S, "architecture"), NEW v, IsView(v)
    PROVE  HasBody(S, setContents(v, parse_ArchitectureBody(a).contents), v, a)
<1>1. PICK c : c = parse_ArchitectureBody(a).contents
  OBVIOUS
<1>a. PICK w : w = setContents(v, c)
  OBVIOUS
<1>2. /\ c.name = a.name /\ DOMAIN c = {"name", "libraries", "statements", "sign"}
      /\ c.statements = {ParsedStatement(st, a.components) : st \in a.statements}
  BY <1>1 DEF parse_ArchitectureBody, NoContents
<1>3. /\ DOMAIN w = DOMAIN v /\ w.contents = c /\ w.name = a.name /\ w.standard = FALSE
      /\ w.ports = v.ports /\ w.generics = v.generics
  BY <1>a, <1>2 DEF IsView, setContents
<1>4. IsContents(c)
  BY <1>2, ParsedFacts DEF IsContents
<1>5. a.name # None
  BY DEF WellFormed, BodiesAreDeclared
<1>6. Labels(c.statements) = Labels(a.statements)
  BY <1>2, ParsedFacts DEF Labels
<1>7. ASSUME NEW x \in c.statements
      PROVE  /\ Movable(x.path)
             /\ x.kind = "instance" =>
                    /\ Declared(S, x.unit)
                    /\ x.arch = None \/ \E b \in UnitsOf(S, "architecture") : b.of = x.unit /\ b.name = x.arch
  <2>1. PICK st \in a.statements : x = ParsedStatement(st, a.components)
    BY <1>2
  <2>2. /\ x.kind = st.kind /\ x.unit = st.name.unit /\ x.path = Without(st.path, Merged(st.path))
        /\ x.arch = IF st.name.form = "call" THEN st.name.arch ELSE None
    BY <2>1, ParsedFacts
  <2>3. Movable(x.path)
    BY <2>2, MergedPath DEF WellFormed
  <2>4. QED BY <2>2, <2>3 DEF WellFormed, InstancesAreDeclared
<1>8. c # NoContents
  BY <1>2, <1>5 DEF NoContents
<1>9. IsView(w)
  BY <1>3, <1>4 DEF IsView
<1>10. StatementsParsed(S, w)
  BY <1>3, <1>7 DEF StatementsParsed
<1>11. Placed(w, a)
  BY <1>2, <1>3, <1>6 DEF Placed
<1>12. HasBody(S, w, v, a)
  BY <1>3, <1>8, <1>9, <1>10, <1>11 DEF HasBody
<1>13. QED BY <1>1, <1>a, <1>12

(* Placing the body of an architecture, in a list that other architectures may  *)
(* have extended with their components, keeps what BuildInv says.               *)
LEMMA PlaceStep ==
    ASSUME NEW S, WellFormed(S), source = S, BuildInv(S), NEW b \in du_definitions, PlaceArchitecture(b)
    PROVE  BuildInv(S)'
<1>1. /\ phase = "build" /\ phase' = "build" /\ du_definitions' = du_definitions \ {b}
      /\ UNCHANGED <<lib_declarations, lib_definitions, visited>>
  BY DEF PlaceArchitecture
<1>2. PICK a \in UnitsOf(S, "architecture") : b = parse_ArchitectureBody(a)
  BY <1>1 DEF BuildInv
<1>3. b.of = a.of /\ b.components = a.components
  BY <1>2 DEF parse_ArchitectureBody
<1>4. PICK e \in UnitsOf(S, "entity") : e.name = a.of
  BY DEF WellFormed, BodiesAreDeclared
<1>5. b.of \in DOMAIN du_declarations /\ OfEntity(du_declarations[b.of], e) /\ IsView(du_declarations[b.of])
  BY <1>1, <1>3, <1>4 DEF BuildInv
<1>6. PICK w : w = setContents(du_declarations[b.of], b.contents)
  OBVIOUS
<1>7. HasBody(S, w, du_declarations[b.of], a)
  BY <1>2, <1>5, <1>6, ParsedArchitecture
<1>8. PICK new : new = ViewsOf(b.components)
  OBVIOUS
<1>9. PICK du : du = [du_declarations EXCEPT ![b.of] = w]
  OBVIOUS
<1>10. du_declarations[b.of].contents = NoContents /\ du_declarations' = Joined(du, new)
  BY <1>5, <1>6, <1>8, <1>9 DEF PlaceArchitecture
<1>11. /\ DOMAIN new = ComponentNames(a)
       /\ \A n \in DOMAIN new : IsView(new[n]) /\ new[n].contents.statements = {}
  BY <1>3, <1>8, ViewsOfFacts DEF ComponentNames
<1>12. /\ DOMAIN du_declarations' = (DOMAIN du_declarations) \cup ComponentNames(a)
       /\ du_declarations'[a.of] = w
       /\ \A n \in (DOMAIN du_declarations) \ {a.of} : du_declarations'[n] = du_declarations[n]
       /\ \A n \in (DOMAIN du_declarations') \ DOMAIN du_declarations : du_declarations'[n] = new[n] /\ n \in DOMAIN new
  <2>1. /\ DOMAIN Joined(du, new) = (DOMAIN du) \cup DOMAIN new
        /\ \A n \in DOMAIN du : Joined(du, new)[n] = du[n]
        /\ \A n \in (DOMAIN new) \ DOMAIN du : Joined(du, new)[n] = new[n]
    BY JoinedFacts
  <2>2. DOMAIN du = DOMAIN du_declarations /\ du[a.of] = w
        /\ \A n \in (DOMAIN du) \ {a.of} : du[n] = du_declarations[n]
    BY <1>3, <1>5, <1>9
  <2>3. QED BY <1>3, <1>5, <1>10, <1>11, <2>1, <2>2
<1>13. ListsInv(S)'
  BY <1>1 DEF BuildInv, ListsInv
<1>14. DOMAIN du_declarations' \subseteq Listed(S)
  BY <1>1, <1>12 DEF BuildInv, Listed
<1>15. ASSUME NEW n \in DOMAIN du_declarations'
       PROVE  IsView(du_declarations'[n]) /\ StatementsParsed(S, du_declarations'[n])
  <2>1. CASE n = a.of
    BY <1>7, <1>12, <2>1 DEF HasBody
  <2>2. CASE n \in DOMAIN du_declarations /\ n # a.of
    BY <1>1, <1>12, <2>2 DEF BuildInv
  <2>3. CASE n \notin DOMAIN du_declarations
    <3>1. IsView(new[n]) /\ new[n].contents.statements = {} /\ du_declarations'[n] = new[n]
      BY <1>11, <1>12, <2>3
    <3>2. QED BY <3>1 DEF StatementsParsed
  <2>4. QED BY <2>1, <2>2, <2>3
<1>16. ASSUME NEW f \in UnitsOf(S, "entity")
       PROVE  f.name \in DOMAIN du_declarations' /\ OfEntity(du_declarations'[f.name], f)
  <2>1. f.name \in DOMAIN du_declarations /\ OfEntity(du_declarations[f.name], f)
    BY <1>1 DEF BuildInv
  <2>2. CASE f.name = a.of
    BY <1>3, <1>7, <1>12, <2>1, <2>2 DEF OfEntity, HasBody
  <2>3. CASE f.name # a.of
    BY <1>12, <2>1, <2>3
  <2>4. QED BY <2>2, <2>3
<1>17. ASSUME NEW c \in UnitsOf(S, "architecture"), parse_ArchitectureBody(c) \notin du_definitions'
       PROVE  ComponentNames(c) \subseteq DOMAIN du_declarations' /\ Placed(du_declarations'[c.of], c)
  <2>1. CASE parse_ArchitectureBody(c) = b
    <3>1. c.of = a.of /\ c.components = a.components
      BY <1>3, <2>1 DEF parse_ArchitectureBody
    <3>2. Placed(w, c)
      BY <1>5, <1>6, <2>1, ParsedArchitecture DEF HasBody
    <3>3. QED BY <1>12, <3>1, <3>2 DEF ComponentNames
  <2>2. CASE parse_ArchitectureBody(c) # b
    <3>1. ComponentNames(c) \subseteq DOMAIN du_declarations /\ Placed(du_declarations[c.of], c)
      BY <1>1, <1>17, <2>2 DEF BuildInv
    <3>2. c.of \in DOMAIN du_declarations
      BY <1>1 DEF BuildInv, WellFormed, BodiesAreDeclared
    <3>3. c.of # a.of
      <4>1. c.name # None
        BY DEF WellFormed, BodiesAreDeclared
      <4>2. NoContents.name = None
        BY DEF NoContents
      <4>3. QED BY <1>3, <1>10, <3>1, <4>1, <4>2 DEF Placed
    <3>4. QED BY <1>12, <3>1, <3>2, <3>3
  <2>3. QED BY <2>1, <2>2
<1>18. du_definitions' \subseteq {parse_ArchitectureBody(c) : c \in UnitsOf(S, "architecture")}
  BY <1>1 DEF BuildInv
<1>19. QED BY <1>1, <1>13, <1>14, <1>15, <1>16, <1>17, <1>18 DEF BuildInv, StatementsParsed

-----------------------------------------------------------------------------
(* The system is built: every body is in a view of the list.                    *)
LEMMA PackageView ==
    ASSUME NEW p
    PROVE  /\ DOMAIN parse_PackageDeclaration(p) = {"libraries", "items", "units"}
           /\ parse_PackageDeclaration(p).items = p.items
           /\ parse_PackageDeclaration(p).units = ViewsOf(p.components)
           /\ DOMAIN parse_PackageDeclaration(p).units = ComponentNames(p)
BY ViewsOfFacts DEF parse_PackageDeclaration, ComponentNames

LEMMA BuildStep ==
    ASSUME NEW S, WellFormed(S), source = S, BuildInv(S), BuildSystem
    PROVE  LinkInv(S)'
<1>1. /\ phase = "build" /\ phase' = "link" /\ du_definitions = {} /\ visited = {} /\ visited' = {}
      /\ du_declarations' = du_declarations
      /\ lib_declarations' =
           [n \in DOMAIN lib_declarations |->
              IF n \in DOMAIN lib_definitions
                THEN [lib_declarations[n] EXCEPT !.items = @ \cup lib_definitions[n]]
                ELSE lib_declarations[n]]
  BY DEF BuildSystem, BuildInv, ListsInv
<1>2. PICK du, lib : du = du_declarations /\ lib = lib_declarations'
  OBVIOUS
<1>3. /\ DOMAIN lib_declarations = {p.name : p \in UnitsOf(S, "package")}
      /\ DOMAIN lib = DOMAIN lib_declarations
  BY <1>1, <1>2 DEF BuildInv, ListsInv, Lists
<1>4. ASSUME NEW p \in UnitsOf(S, "package")
      PROVE  /\ DOMAIN lib[p.name] = {"libraries", "items", "units"}
             /\ lib[p.name].units = ViewsOf(p.components)
             /\ DOMAIN lib[p.name].units = ComponentNames(p)
  <2>1. lib_declarations[p.name] = parse_PackageDeclaration(p) /\ p.name \in DOMAIN lib_declarations
    BY <1>1, <1>3 DEF BuildInv, ListsInv, Lists, PackageViews, UnitsOf
  <2>2. PICK l : l = lib_declarations[p.name]
    OBVIOUS
  <2>3. DOMAIN l = {"libraries", "items", "units"} /\ l.units = ViewsOf(p.components) /\ DOMAIN l.units = ComponentNames(p)
    BY <2>1, <2>2, PackageView
  <2>4. \/ lib[p.name] = l
        \/ lib[p.name] = [l EXCEPT !.items = @ \cup lib_definitions[p.name]]
    BY <1>1, <1>2, <2>1, <2>2
  <2>5. QED BY <2>3, <2>4
<1>5. OfPackages(S, lib)
  BY <1>3, <1>4 DEF OfPackages
<1>6. ASSUME NEW b \in UnitsOf(S, "package body") PROVE b.items \subseteq lib[b.name].items
  <2>1. PICK p \in UnitsOf(S, "package") : p.name = b.name
    BY DEF WellFormed, BodiesAreDeclared
  <2>2. b.name \in DOMAIN lib_declarations
    BY <1>3, <2>1
  <2>3. b.name \in DOMAIN lib_definitions /\ lib_definitions[b.name] = b.items
    BY <1>1 DEF BuildInv, ListsInv, Lists, BodyViews, UnitsOf
  <2>4. lib_declarations[b.name] = parse_PackageDeclaration(p)
    BY <1>1, <2>1 DEF BuildInv, ListsInv, Lists, PackageViews, UnitsOf
  <2>5. PICK l : l = lib_declarations[b.name]
    OBVIOUS
  <2>6. DOMAIN l = {"libraries", "items", "units"}
    BY <2>4, <2>5, PackageView
  <2>7. lib[b.name] = [l EXCEPT !.items = @ \cup lib_definitions[b.name]]
    BY <1>1, <1>2, <2>2, <2>3, <2>5
  <2>8. QED BY <2>3, <2>6, <2>7
<1>7. Listed(S) \subseteq DOMAIN du /\ DOMAIN du \subseteq Listed(S)
  BY <1>1, <1>2 DEF BuildInv, Listed
<1>8. DOMAIN du_declarations' \subseteq Listed(S)
  BY <1>1, <1>2, <1>7
<1>9. \A n : DeclaredView(n)' = ViewIn(du, lib, n)
  BY <1>1, <1>2, ViewsMeet
<1>10. ASSUME NEW n, Declared(S, n)
       PROVE  /\ n \in DOMAIN du_declarations' \/ Packages(S, n) # {}
              /\ IsView(ViewIn(du, lib, n)) /\ StatementsParsed(S, ViewIn(du, lib, n))
  <2>1. CASE n \in DOMAIN du
    BY <1>1, <1>2, <1>5, <2>1, ViewInFacts DEF BuildInv
  <2>2. CASE n \notin DOMAIN du
    <3>1. PICK q : q \in Packages(S, n)
      BY <1>7, <1>10, <2>2 DEF Declared
    <3>2. PICK p \in UnitsOf(S, "package") : q = p.name /\ n \in ComponentNames(p)
      BY <3>1 DEF Packages
    <3>3. ViewIn(du, lib, n) = ViewsOf(p.components)[n] /\ n \in DOMAIN ViewsOf(p.components)
      BY <1>4, <1>5, <2>2, <3>1, <3>2, ViewInFacts
    <3>4. PICK vs : vs = ViewsOf(p.components)
      OBVIOUS
    <3>5. IsView(vs[n]) /\ vs[n].contents.statements = {} /\ ViewIn(du, lib, n) = vs[n]
      <4>1. \A m \in DOMAIN vs : IsView(vs[m]) /\ vs[m].contents.statements = {}
        BY <3>4, ViewsOfFacts
      <4>2. QED BY <3>3, <3>4, <4>1
    <3>6. QED BY <3>1, <3>5 DEF StatementsParsed
  <2>3. QED BY <2>1, <2>2
<1>11. ASSUME NEW a \in UnitsOf(S, "architecture")
       PROVE  /\ Placed(ViewIn(du, lib, a.of), a)
              /\ \A e \in UnitsOf(S, "entity") : e.name = a.of => OfEntity(ViewIn(du, lib, a.of), e)
  <2>1. PICK e \in UnitsOf(S, "entity") : e.name = a.of
    BY DEF WellFormed, BodiesAreDeclared
  <2>2. a.of \in DOMAIN du
    BY <1>1, <1>2, <2>1 DEF BuildInv
  <2>3. ViewIn(du, lib, a.of) = du_declarations[a.of]
    BY <1>2, <1>5, <2>2, ViewInFacts
  <2>4. Placed(du_declarations[a.of], a)
    BY <1>1 DEF BuildInv
  <2>5. QED BY <1>1, <2>3, <2>4 DEF BuildInv
<1>12. ASSUME NEW n, Declared(S, n)
       PROVE  (/\ n \in DOMAIN du_declarations \/ Packages(S, n) # {}
               /\ n \in DOMAIN du_declarations /\ (phase = "link" => n \in visited) => Packages(S, n) = {}
               /\ IsView(DeclaredView(n))
               /\ IF phase = "link" THEN StatementsParsed(S, DeclaredView(n))
                                    ELSE StatementsVisited(S, DeclaredView(n)))'
  BY <1>1, <1>9, <1>10, <1>12 DEF StatementsParsed
<1>13. ASSUME NEW a \in UnitsOf(S, "architecture")
       PROVE  (/\ Placed(DeclaredView(a.of), a)
               /\ \A e \in UnitsOf(S, "entity") : e.name = a.of => OfEntity(DeclaredView(a.of), e))'
  BY <1>9, <1>11 DEF Placed, OfEntity
<1>14. OfPackages(S, lib_declarations') /\ \A b \in UnitsOf(S, "package body") : b.items \subseteq lib_declarations'[b.name].items
  BY <1>2, <1>5, <1>6
<1>15. QED BY <1>8, <1>12, <1>13, <1>14 DEF LinkInv

-----------------------------------------------------------------------------
(* What Link(n) does to the two lists.                                          *)
Linked(S, n, du, lib, du2, lib2) ==
    /\ OfPackages(S, lib2) /\ DOMAIN du2 \subseteq DOMAIN du
    /\ n \in DOMAIN du2 => Packages(S, n) = {}
    /\ n \in DOMAIN du2 \/ Packages(S, n) # {}
    /\ \A m \in DOMAIN du : m # n => m \in DOMAIN du2
    /\ \A q \in DOMAIN lib : lib2[q].items = lib[q].items
    /\ \A m : m \in DOMAIN du \/ Packages(S, m) # {} => ViewIn(du2, lib2, m) = ViewIn(du, lib, m)

(* Moving the entities into the packages: the view of a name moves, no view     *)
(* changes.                                                                     *)
LEMMA UnitMoved ==
    ASSUME NEW S, WellFormed(S), NEW du, NEW lib, OfPackages(S, lib), NEW n \in DOMAIN du, NEW p \in Packages(S, n)
    PROVE  Linked(S, n, du, lib, Restrict(du, (DOMAIN du) \ {n}), [lib EXCEPT ![p].units[n] = du[n]])
<1>1. PICK lib2, du2 : lib2 = [lib EXCEPT ![p].units[n] = du[n]] /\ du2 = Restrict(du, (DOMAIN du) \ {n})
  OBVIOUS
<1>2. /\ DOMAIN du2 = (DOMAIN du) \ {n}
      /\ \A m \in DOMAIN du2 : du2[m] = du[m]
  BY <1>1 DEF Restrict
<1>3. p \in DOMAIN lib /\ n \in DOMAIN lib[p].units
  BY PackagesOf
<1>4. \A q \in DOMAIN lib : DOMAIN lib[q] = {"libraries", "items", "units"}
  BY DEF OfPackages
<1>5. PICK l : l = lib[p]
  OBVIOUS
<1>6. PICK l2 : l2 = [l EXCEPT !.units = [l.units EXCEPT ![n] = du[n]]]
  OBVIOUS
<1>7. /\ DOMAIN l2 = {"libraries", "items", "units"} /\ l2.items = l.items
      /\ DOMAIN l2.units = DOMAIN l.units /\ l2.units[n] = du[n]
      /\ \A m \in DOMAIN l.units : m # n => l2.units[m] = l.units[m]
  <2>1. DOMAIN l = {"libraries", "items", "units"} /\ n \in DOMAIN l.units
    BY <1>3, <1>4, <1>5
  <2>2. l2.units = [l.units EXCEPT ![n] = du[n]] /\ l2.items = l.items /\ DOMAIN l2 = DOMAIN l
    BY <1>6, <2>1
  <2>3. QED BY <2>1, <2>2
<1>8. lib2 = [lib EXCEPT ![p] = l2]
  BY <1>1, <1>5, <1>6
<1>9. DOMAIN lib2 = DOMAIN lib /\ lib2[p] = l2 /\ \A q \in DOMAIN lib : q # p => lib2[q] = lib[q]
  BY <1>3, <1>8
<1>10. \A q \in DOMAIN lib :
         /\ lib2[q].items = lib[q].items /\ DOMAIN lib2[q] = {"libraries", "items", "units"}
         /\ DOMAIN lib2[q].units = DOMAIN lib[q].units
  BY <1>4, <1>5, <1>7, <1>9
<1>11. OfPackages(S, lib2)
  BY <1>9, <1>10 DEF OfPackages
<1>12. ASSUME NEW m, m \in DOMAIN du \/ Packages(S, m) # {} PROVE ViewIn(du2, lib2, m) = ViewIn(du, lib, m)
  <2>1. CASE m = n
    <3>1. ViewIn(du, lib, m) = du[n]
      BY <2>1, ViewInFacts
    <3>2. ViewIn(du2, lib2, m) = lib2[p].units[n]
      BY <1>2, <1>11, <2>1, ViewInFacts
    <3>3. QED BY <1>7, <1>9, <3>1, <3>2
  <2>2. CASE m # n /\ m \in DOMAIN du
    <3>1. ViewIn(du, lib, m) = du[m]
      BY <2>2, ViewInFacts
    <3>2. ViewIn(du2, lib2, m) = du2[m]
      BY <1>2, <1>11, <2>2, ViewInFacts
    <3>3. QED BY <1>2, <2>2, <3>1, <3>2
  <2>3. CASE m # n /\ m \notin DOMAIN du
    <3>1. PICK q : q \in Packages(S, m)
      BY <1>12, <2>3
    <3>2. q \in DOMAIN lib /\ m \in DOMAIN lib[q].units
      BY <3>1, PackagesOf
    <3>3. ViewIn(du, lib, m) = lib[q].units[m]
      BY <2>3, <3>1, ViewInFacts
    <3>4. ViewIn(du2, lib2, m) = lib2[q].units[m]
      BY <1>2, <1>11, <2>3, <3>1, ViewInFacts
    <3>5. lib2[q].units[m] = lib[q].units[m]
      BY <1>5, <1>7, <1>9, <2>3, <3>2
    <3>6. QED BY <3>3, <3>4, <3>5
  <2>4. QED BY <2>1, <2>2, <2>3
<1>13. Linked(S, n, du, lib, du2, lib2)
  BY <1>2, <1>10, <1>11, <1>12 DEF Linked
<1>14. QED BY <1>1, <1>13

(* Whatever moves, LinkInv is about the views of the declared names.            *)
LEMMA LinkStep ==
    ASSUME NEW S, WellFormed(S), source = S, LinkInv(S), NEW n \in DOMAIN du_declarations, Link(n)
    PROVE  LinkInv(S)'
<1>1. /\ phase = "link" /\ phase' = "link" /\ visited' = visited \cup {n} /\ n \notin visited
      /\ OfPackages(S, lib_declarations) /\ DOMAIN du_declarations \subseteq Listed(S)
  BY DEF Link, LinkInv
<1>2. Elsewhere(n) = Packages(S, n)
  BY <1>1, PackagesOf DEF Elsewhere
<1>3. PICK du, lib : du = du_declarations /\ lib = lib_declarations
  OBVIOUS
<1>4. PICK du2, lib2 : du2 = du_declarations' /\ lib2 = lib_declarations'
  OBVIOUS
<1>5. Linked(S, n, du, lib, du2, lib2)
  <2>1. CASE Elsewhere(n) = {} /\ UNCHANGED <<du_declarations, lib_declarations>>
    BY <1>1, <1>2, <1>3, <1>4, <2>1 DEF Linked
  <2>2. ASSUME NEW p \in IF Visible(n) # {} THEN Visible(n) ELSE Elsewhere(n),
               lib_declarations' = [lib_declarations EXCEPT ![p].units[n] = du_declarations[n]],
               du_declarations' = Restrict(du_declarations, DOMAIN du_declarations \ {n})
        PROVE  Linked(S, n, du, lib, du2, lib2)
    <3>1. p \in Packages(S, n)
      BY <1>2, <2>2 DEF Visible
    <3>2. lib2 = [lib EXCEPT ![p].units[n] = du[n]] /\ du2 = Restrict(du, (DOMAIN du) \ {n})
      BY <1>3, <1>4, <2>2
    <3>3. QED BY <1>1, <1>3, <3>1, <3>2, UnitMoved
  <2>3. QED BY <2>1, <2>2 DEF Link
<1>6. \A m : Declared(S, m) => m \in DOMAIN du \/ Packages(S, m) # {}
  BY <1>1, <1>3 DEF LinkInv
<1>7. \A m : Declared(S, m) => DeclaredView(m)' = DeclaredView(m)
  BY <1>3, <1>4, <1>5, <1>6, ViewsMeet DEF Linked
<1>8. ASSUME NEW b \in UnitsOf(S, "package body") PROVE b.items \subseteq lib2[b.name].items
  <2>1. b.items \subseteq lib[b.name].items
    BY <1>1, <1>3 DEF LinkInv
  <2>2. b.name \in DOMAIN lib
    BY <1>1, <1>3 DEF WellFormed, BodiesAreDeclared, OfPackages
  <2>3. QED BY <1>5, <2>1, <2>2 DEF Linked
<1>9. ASSUME NEW m, Declared(S, m)
      PROVE  (/\ m \in DOMAIN du_declarations \/ Packages(S, m) # {}
              /\ m \in DOMAIN du_declarations /\ (phase = "link" => m \in visited) => Packages(S, m) = {}
              /\ IsView(DeclaredView(m))
              /\ IF phase = "link" THEN StatementsParsed(S, DeclaredView(m))
                                   ELSE StatementsVisited(S, DeclaredView(m)))'
  <2>1. /\ m \in DOMAIN du /\ m \in visited => Packages(S, m) = {}
        /\ IsView(DeclaredView(m)) /\ StatementsParsed(S, DeclaredView(m))
    BY <1>1, <1>3, <1>9 DEF LinkInv
  <2>2. m \in DOMAIN du2 \/ Packages(S, m) # {}
    BY <1>5, <1>6, <1>9 DEF Linked
  <2>3. m \in DOMAIN du2 /\ m \in visited' => Packages(S, m) = {}
    BY <1>1, <1>5, <2>1 DEF Linked
  <2>4. PICK v : v = DeclaredView(m) /\ v = DeclaredView(m)'
    BY <1>7, <1>9
  <2>5. IsView(v) /\ StatementsParsed(S, v)
    BY <2>1, <2>4
  <2>6. QED BY <1>1, <1>4, <2>2, <2>3, <2>4, <2>5 DEF StatementsParsed
<1>10. ASSUME NEW a \in UnitsOf(S, "architecture")
       PROVE  (/\ Placed(DeclaredView(a.of), a)
               /\ \A e \in UnitsOf(S, "entity") : e.name = a.of => OfEntity(DeclaredView(a.of), e))'
  <2>1. Declared(S, a.of)
    BY DEF WellFormed, BodiesAreDeclared, Declared, Listed
  <2>2. PICK v : v = DeclaredView(a.of) /\ v = DeclaredView(a.of)'
    BY <1>7, <2>1
  <2>3. Placed(v, a) /\ \A e \in UnitsOf(S, "entity") : e.name = a.of => OfEntity(v, e)
    BY <1>1, <2>2 DEF LinkInv
  <2>4. QED BY <2>2, <2>3
<1>11. OfPackages(S, lib_declarations') /\ \A b \in UnitsOf(S, "package body") : b.items \subseteq lib_declarations'[b.name].items
  BY <1>4, <1>5, <1>8 DEF Linked
<1>12. DOMAIN du_declarations' \subseteq Listed(S)
  BY <1>1, <1>3, <1>4, <1>5 DEF Linked
<1>13. QED BY <1>9, <1>10, <1>11, <1>12 DEF LinkInv

-----------------------------------------------------------------------------
(* Step 1 visits the views where they are.                                      *)
LEMMA VisitStep ==
    ASSUME NEW S, WellFormed(S), source = S, LinkInv(S), VisitViews
    PROVE  LinkInv(S)'
<1>1. /\ phase = "link" /\ phase' = "instances" /\ DOMAIN du_declarations \subseteq visited
      /\ OfPackages(S, lib_declarations) /\ DOMAIN du_declarations \subseteq Listed(S)
  BY DEF VisitViews, LinkInv
<1>2. PICK du, lib : du = du_declarations /\ lib = lib_declarations
  OBVIOUS
<1>3. PICK du2, lib2 : du2 = du_declarations' /\ lib2 = lib_declarations'
  OBVIOUS
<1>4. du2 = [n \in DOMAIN du |-> VisitedView(du[n], {}, <<>>)]
  BY <1>2, <1>3 DEF VisitViews
<1>5. ASSUME NEW q \in DOMAIN lib
      PROVE  /\ q \in DOMAIN lib2 /\ DOMAIN lib2[q] = {"libraries", "items", "units"} /\ lib2[q].items = lib[q].items
             /\ DOMAIN lib2[q].units = DOMAIN lib[q].units
             /\ \A n \in DOMAIN lib[q].units : \E X, Y : lib2[q].units[n] = VisitedView(lib[q].units[n], X, Y)
  <2>1. PICK l : l = lib[q]
    OBVIOUS
  <2>2. DOMAIN l = {"libraries", "items", "units"}
    BY <1>1, <1>2, <2>1 DEF OfPackages
  <2>3. PICK us : us = [n \in DOMAIN l.units |-> VisitedView(l.units[n], {q}, <<l.libraries \ {q}>>)]
    OBVIOUS
  <2>4. q \in DOMAIN lib2 /\ lib2[q] = VisitedPackage(q, l)
    BY <1>2, <1>3, <2>1 DEF VisitViews
  <2>5. VisitedPackage(q, l) = [l EXCEPT !.libraries = l.libraries \ {q}, !.units = us]
    BY <2>2, <2>3 DEF VisitedPackage
  <2>6. DOMAIN lib2[q] = {"libraries", "items", "units"} /\ lib2[q].items = l.items /\ lib2[q].units = us
    BY <2>2, <2>4, <2>5
  <2>7. DOMAIN us = DOMAIN l.units
    BY <2>3
  <2>9. ASSUME NEW n \in DOMAIN l.units PROVE \E X, Y : us[n] = VisitedView(l.units[n], X, Y)
    <3>1. us[n] = VisitedView(l.units[n], {q}, <<l.libraries \ {q}>>)
      BY <2>3
    <3>2. QED BY <3>1
  <2>10. QED BY <2>1, <2>4, <2>6, <2>7, <2>9
<1>6. DOMAIN lib2 = DOMAIN lib
  BY <1>2, <1>3 DEF VisitViews
<1>7. OfPackages(S, lib2)
  BY <1>1, <1>2, <1>5, <1>6 DEF OfPackages
<1>8. \A n : Declared(S, n) =>
         /\ n \in DOMAIN du \/ Packages(S, n) # {}
         /\ n \in DOMAIN du => Packages(S, n) = {}
         /\ IsView(DeclaredView(n)) /\ StatementsParsed(S, DeclaredView(n))
  BY <1>1, <1>2 DEF LinkInv
<1>9. ASSUME NEW n, Declared(S, n)
      PROVE  \E X, Y : DeclaredView(n)' = VisitedView(DeclaredView(n), X, Y)
  <2>1. CASE n \in DOMAIN du
    <3>1. DeclaredView(n) = du[n]
      BY <1>1, <1>2, <2>1, ViewsMeet, ViewInFacts
    <3>2. DeclaredView(n)' = du2[n]
      <4>1. n \in DOMAIN du2
        BY <1>4, <2>1
      <4>2. QED BY <1>3, <1>7, <4>1, ViewsMeet, ViewInFacts
    <3>3. du2[n] = VisitedView(du[n], {}, <<>>)
      BY <1>4, <2>1
    <3>4. QED BY <3>1, <3>2, <3>3
  <2>2. CASE n \notin DOMAIN du
    <3>1. PICK q : q \in Packages(S, n)
      BY <1>8, <1>9, <2>2
    <3>2. q \in DOMAIN lib /\ n \in DOMAIN lib[q].units
      BY <1>1, <1>2, <3>1, PackagesOf
    <3>3. DeclaredView(n) = lib[q].units[n]
      BY <1>1, <1>2, <2>2, <3>1, ViewsMeet, ViewInFacts
    <3>4. DeclaredView(n)' = lib2[q].units[n]
      BY <1>3, <1>4, <1>7, <2>2, <3>1, ViewsMeet, ViewInFacts
    <3>5. QED BY <1>5, <3>2, <3>3, <3>4
  <2>3. QED BY <2>1, <2>2
<1>10. ASSUME NEW n, Declared(S, n)
       PROVE  /\ SameUnit(DeclaredView(n)', DeclaredView(n))
              /\ DeclaredView(n)'.contents.statements = {VisitedStatement(st) : st \in DeclaredView(n).contents.statements}
  BY <1>8, <1>9, <1>10, VisitedViewFacts
<1>11. ASSUME NEW a \in UnitsOf(S, "architecture")
       PROVE  /\ Declared(S, a.of)
              /\ Placed(DeclaredView(a.of), a)
              /\ \A e \in UnitsOf(S, "entity") : e.name = a.of => OfEntity(DeclaredView(a.of), e)
  <2>1. Declared(S, a.of)
    BY DEF WellFormed, BodiesAreDeclared, Declared, Listed
  <2>2. QED BY <1>1, <2>1 DEF LinkInv
<1>12. ASSUME NEW n, Declared(S, n), NEW x \in DeclaredView(n)'.contents.statements
       PROVE  /\ \A k \in DOMAIN x.path : x.path[k].kind = "generate"
              /\ x.kind = "instance" => Declared(S, x.unit) /\ x.arch = DeclaredView(x.unit)'.name
  <2>1. PICK st \in DeclaredView(n).contents.statements : x = VisitedStatement(st)
    BY <1>10, <1>12
  <2>2. DOMAIN st = {"label", "kind", "path", "unit", "arch", "generics", "ports"}
    BY <1>8, <1>12 DEF IsView, IsContents
  <2>3. /\ x.label = st.label /\ x.kind = st.kind /\ x.unit = st.unit /\ x.path = Without(st.path, Moved(st.path))
        /\ x.arch = IF st.kind = "instance" /\ st.arch = None THEN DeclaredView(st.unit).name ELSE st.arch
    BY <2>1, <2>2, VisitedFacts
  <2>4. /\ Movable(st.path)
        /\ st.kind = "instance" =>
               /\ Declared(S, st.unit)
               /\ st.arch = None \/ \E b \in UnitsOf(S, "architecture") : b.of = st.unit /\ b.name = st.arch
    BY <1>8, <1>12 DEF StatementsParsed
  <2>5. \A k \in DOMAIN x.path : x.path[k].kind = "generate"
    BY <2>3, <2>4, MovedPath
  <2>6. ASSUME x.kind = "instance" PROVE Declared(S, x.unit) /\ x.arch = DeclaredView(x.unit)'.name
    <3>1. Declared(S, st.unit) /\ x.unit = st.unit
      BY <2>3, <2>4, <2>6
    <3>2. PICK m : m = st.unit
      OBVIOUS
    <3>3. DeclaredView(m)'.name = DeclaredView(m).name
      BY <1>10, <3>1, <3>2 DEF SameUnit
    <3>4. x.arch = DeclaredView(m).name
      <4>1. CASE st.arch = None
        BY <2>3, <2>6, <3>2, <4>1
      <4>2. CASE st.arch # None
        <5>1. PICK b \in UnitsOf(S, "architecture") : b.of = st.unit /\ b.name = st.arch
          BY <2>3, <2>4, <2>6, <4>2
        <5>2. DeclaredView(m).name = b.name
          BY <1>11, <3>2, <5>1 DEF Placed
        <5>3. QED BY <2>3, <4>2, <5>1, <5>2
      <4>3. QED BY <4>1, <4>2
    <3>5. QED BY <3>1, <3>2, <3>3, <3>4
  <2>7. QED BY <2>5, <2>6
<1>13. ASSUME NEW n, Declared(S, n)
       PROVE  (/\ n \in DOMAIN du_declarations \/ Packages(S, n) # {}
               /\ n \in DOMAIN du_declarations /\ (phase = "link" => n \in visited) => Packages(S, n) = {}
               /\ IsView(DeclaredView(n))
               /\ IF phase = "link" THEN StatementsParsed(S, DeclaredView(n))
                                    ELSE StatementsVisited(S, DeclaredView(n)))'
  <2>1. StatementsVisited(S, DeclaredView(n))'
    BY <1>12, <1>13 DEF StatementsVisited
  <2>2. IsView(DeclaredView(n)')
    BY <1>10, <1>13 DEF SameUnit
  <2>3. QED BY <1>1, <1>3, <1>4, <1>8, <1>13, <2>1, <2>2
<1>14. ASSUME NEW a \in UnitsOf(S, "architecture")
       PROVE  (/\ Placed(DeclaredView(a.of), a)
               /\ \A e \in UnitsOf(S, "entity") : e.name = a.of => OfEntity(DeclaredView(a.of), e))'
  <2>1. PICK v, v2 : v = DeclaredView(a.of) /\ v2 = DeclaredView(a.of)'
    OBVIOUS
  <2>2. SameUnit(v2, v) /\ v2.contents.statements = {VisitedStatement(st) : st \in v.contents.statements}
    BY <1>10, <1>11, <2>1
  <2>3. Labels(v2.contents.statements) = Labels(v.contents.statements)
    <3>1. \A st \in v.contents.statements : VisitedStatement(st).label = st.label
      BY <1>8, <1>11, <2>1, VisitedFacts DEF IsView, IsContents
    <3>2. QED BY <2>2, <3>1 DEF Labels
  <2>4. Placed(v, a) /\ \A e \in UnitsOf(S, "entity") : e.name = a.of => OfEntity(v, e)
    BY <1>11, <2>1
  <2>5. Placed(v2, a) /\ \A e \in UnitsOf(S, "entity") : e.name = a.of => OfEntity(v2, e)
    BY <2>2, <2>3, <2>4 DEF SameUnit, Placed, OfEntity
  <2>6. QED BY <2>1, <2>5
<1>15. \A b \in UnitsOf(S, "package body") : b.items \subseteq lib2[b.name].items
  <2>1. \A b \in UnitsOf(S, "package body") : b.items \subseteq lib[b.name].items
    BY <1>1, <1>2 DEF LinkInv
  <2>2. \A b \in UnitsOf(S, "package body") : b.name \in DOMAIN lib
    BY <1>1, <1>2 DEF WellFormed, BodiesAreDeclared, OfPackages
  <2>3. QED BY <1>5, <2>1, <2>2
<1>16. OfPackages(S, lib_declarations') /\ \A b \in UnitsOf(S, "package body") : b.items \subseteq lib_declarations'[b.name].items
  BY <1>3, <1>7, <1>15
<1>17. DOMAIN du_declarations' \subseteq Listed(S)
  BY <1>1, <1>2, <1>3, <1>4
<1>18. QED BY <1>13, <1>14, <1>16, <1>17 DEF LinkInv

-----------------------------------------------------------------------------
(* Step 2 binds the associations of the instances.                              *)
LEMMA BindStep ==
    ASSUME NEW S, WellFormed(S), source = S, LinkInv(S), VisitInstances
    PROVE  LinkInv(S)'
<1>1. /\ phase = "instances" /\ phase' = "done"
      /\ OfPackages(S, lib_declarations) /\ DOMAIN du_declarations \subseteq Listed(S)
  BY DEF VisitInstances, LinkInv
<1>2. PICK du, lib : du = du_declarations /\ lib = lib_declarations
  OBVIOUS
<1>3. PICK du2, lib2 : du2 = du_declarations' /\ lib2 = lib_declarations'
  OBVIOUS
<1>4. \A n : Declared(S, n) =>
         /\ n \in DOMAIN du \/ Packages(S, n) # {}
         /\ n \in DOMAIN du => Packages(S, n) = {}
         /\ IsView(DeclaredView(n)) /\ StatementsVisited(S, DeclaredView(n))
  BY <1>1, <1>2 DEF LinkInv
<1>5. ASSUME NEW n \in DOMAIN du PROVE Elsewhere(n) = {} /\ Packages(S, n) = {}
  <2>1. Elsewhere(n) = Packages(S, n)
    BY <1>1, PackagesOf DEF Elsewhere
  <2>2. QED BY <1>1, <1>2, <1>4, <2>1 DEF Declared
<1>6. DOMAIN du2 = DOMAIN du /\ \A n \in DOMAIN du : du2[n] = BoundView(du[n])
  <2>1. du2 = [n \in {m \in DOMAIN du : Elsewhere(m) = {}} |-> BoundView(du[n])]
    BY <1>2, <1>3 DEF VisitInstances
  <2>2. {m \in DOMAIN du : Elsewhere(m) = {}} = DOMAIN du
    BY <1>5
  <2>3. QED BY <2>1, <2>2
<1>7. ASSUME NEW q \in DOMAIN lib
      PROVE  /\ q \in DOMAIN lib2 /\ DOMAIN lib2[q] = {"libraries", "items", "units"} /\ lib2[q].items = lib[q].items
             /\ DOMAIN lib2[q].units = DOMAIN lib[q].units
             /\ \A n \in DOMAIN lib[q].units : lib2[q].units[n] = BoundView(lib[q].units[n])
  <2>1. PICK l : l = lib[q]
    OBVIOUS
  <2>2. DOMAIN l = {"libraries", "items", "units"}
    BY <1>1, <1>2, <2>1 DEF OfPackages
  <2>3. PICK us : us = [n \in DOMAIN l.units |-> BoundView(IF n \in DOMAIN du THEN du[n] ELSE l.units[n])]
    OBVIOUS
  <2>4. q \in DOMAIN lib2 /\ lib2[q] = BoundPackage(l)
    BY <1>2, <1>3, <2>1 DEF VisitInstances
  <2>5. BoundPackage(l) = [l EXCEPT !.units = us]
    BY <1>2, <2>2, <2>3 DEF BoundPackage
  <2>6. DOMAIN lib2[q] = {"libraries", "items", "units"} /\ lib2[q].items = l.items /\ lib2[q].units = us
    BY <2>2, <2>4, <2>5
  <2>7. ASSUME NEW n \in DOMAIN l.units PROVE us[n] = BoundView(l.units[n])
    <3>1. q \in Packages(S, n)
      BY <1>1, <1>2, <2>1, <2>7, PackagesOf
    <3>2. n \notin DOMAIN du
      BY <1>5, <3>1
    <3>3. QED BY <2>3, <3>2
  <2>8. DOMAIN us = DOMAIN l.units
    BY <2>3
  <2>9. QED BY <2>1, <2>4, <2>6, <2>7, <2>8
<1>8. DOMAIN lib2 = DOMAIN lib
  BY <1>2, <1>3 DEF VisitInstances
<1>9. OfPackages(S, lib2)
  BY <1>1, <1>2, <1>7, <1>8 DEF OfPackages
<1>10. ASSUME NEW n, Declared(S, n)
       PROVE  DeclaredView(n)' = BoundView(DeclaredView(n))
  <2>1. CASE n \in DOMAIN du
    <3>1. DeclaredView(n) = du[n]
      BY <1>1, <1>2, <2>1, ViewsMeet, ViewInFacts
    <3>2. DeclaredView(n)' = du2[n]
      BY <1>3, <1>6, <1>9, <2>1, ViewsMeet, ViewInFacts
    <3>3. QED BY <1>6, <2>1, <3>1, <3>2
  <2>2. CASE n \notin DOMAIN du
    <3>1. PICK q : q \in Packages(S, n)
      BY <1>4, <1>10, <2>2
    <3>2. q \in DOMAIN lib /\ n \in DOMAIN lib[q].units
      BY <1>1, <1>2, <3>1, PackagesOf
    <3>3. DeclaredView(n) = lib[q].units[n]
      BY <1>1, <1>2, <2>2, <3>1, ViewsMeet, ViewInFacts
    <3>4. DeclaredView(n)' = lib2[q].units[n]
      BY <1>3, <1>6, <1>9, <2>2, <3>1, ViewsMeet, ViewInFacts
    <3>5. QED BY <1>7, <3>2, <3>3, <3>4
  <2>3. QED BY <2>1, <2>2
<1>11. ASSUME NEW n, Declared(S, n)
       PROVE  /\ SameUnit(DeclaredView(n)', DeclaredView(n))
              /\ DeclaredView(n)'.contents.statements = {BoundStatement(st) : st \in DeclaredView(n).contents.statements}
  BY <1>4, <1>10, <1>11, BoundViewFacts
<1>12. ASSUME NEW n, Declared(S, n), NEW st \in DeclaredView(n).contents.statements
       PROVE  /\ BoundStatement(st).label = st.label /\ BoundStatement(st).kind = st.kind
              /\ BoundStatement(st).unit = st.unit /\ BoundStatement(st).path = st.path
              /\ BoundStatement(st).arch = st.arch
  BY <1>4, <1>12, BoundFacts DEF IsView, IsContents
<1>13. ASSUME NEW n, Declared(S, n), NEW x \in DeclaredView(n)'.contents.statements
       PROVE  /\ \A k \in DOMAIN x.path : x.path[k].kind = "generate"
              /\ x.kind = "instance" => Declared(S, x.unit) /\ x.arch = DeclaredView(x.unit)'.name
  <2>1. PICK st \in DeclaredView(n).contents.statements : x = BoundStatement(st)
    BY <1>11, <1>13
  <2>2. x.kind = st.kind /\ x.unit = st.unit /\ x.path = st.path /\ x.arch = st.arch
    BY <1>12, <1>13, <2>1
  <2>3. /\ \A k \in DOMAIN st.path : st.path[k].kind = "generate"
        /\ st.kind = "instance" => Declared(S, st.unit) /\ st.arch = DeclaredView(st.unit).name
    BY <1>4, <1>13 DEF StatementsVisited
  <2>4. PICK m : m = st.unit
    OBVIOUS
  <2>5. Declared(S, m) => DeclaredView(m)'.name = DeclaredView(m).name
    BY <1>11 DEF SameUnit
  <2>6. QED BY <2>2, <2>3, <2>4, <2>5
<1>14. ASSUME NEW n, Declared(S, n)
       PROVE  (/\ n \in DOMAIN du_declarations \/ Packages(S, n) # {}
               /\ n \in DOMAIN du_declarations /\ (phase = "link" => n \in visited) => Packages(S, n) = {}
               /\ IsView(DeclaredView(n))
               /\ IF phase = "link" THEN StatementsParsed(S, DeclaredView(n))
                                    ELSE StatementsVisited(S, DeclaredView(n)))'
  <2>1. StatementsVisited(S, DeclaredView(n))'
    BY <1>13, <1>14 DEF StatementsVisited
  <2>2. IsView(DeclaredView(n)')
    BY <1>11, <1>14 DEF SameUnit
  <2>3. QED BY <1>1, <1>3, <1>6, <1>4, <1>14, <2>1, <2>2
<1>15. ASSUME NEW a \in UnitsOf(S, "architecture")
       PROVE  (/\ Placed(DeclaredView(a.of), a)
               /\ \A e \in UnitsOf(S, "entity") : e.name = a.of => OfEntity(DeclaredView(a.of), e))'
  <2>1. PICK v, v2 : v = DeclaredView(a.of) /\ v2 = DeclaredView(a.of)'
    OBVIOUS
  <2>2. Declared(S, a.of)
    BY DEF WellFormed, BodiesAreDeclared, Declared, Listed
  <2>3. SameUnit(v2, v) /\ v2.contents.statements = {BoundStatement(st) : st \in v.contents.statements}
    BY <1>11, <2>1, <2>2
  <2>4. Labels(v2.contents.statements) = Labels(v.contents.statements)
    <3>1. \A st \in v.contents.statements : BoundStatement(st).label = st.label
      BY <1>12, <2>1, <2>2
    <3>2. QED BY <2>3, <3>1 DEF Labels
  <2>5. Placed(v, a) /\ \A e \in UnitsOf(S, "entity") : e.name = a.of => OfEntity(v, e)
    BY <1>1, <2>1 DEF LinkInv
  <2>6. Placed(v2, a) /\ \A e \in UnitsOf(S, "entity") : e.name = a.of => OfEntity(v2, e)
    BY <2>3, <2>4, <2>5 DEF SameUnit, Placed, OfEntity
  <2>7. QED BY <2>1, <2>6
<1>16. \A b \in UnitsOf(S, "package body") : b.items \subseteq lib2[b.name].items
  <2>1. \A b \in UnitsOf(S, "package body") : b.items \subseteq lib[b.name].items
    BY <1>1, <1>2 DEF LinkInv
  <2>2. \A b \in UnitsOf(S, "package body") : b.name \in DOMAIN lib
    BY <1>1, <1>2 DEF WellFormed, BodiesAreDeclared, OfPackages
  <2>3. QED BY <1>7, <2>1, <2>2
<1>17. OfPackages(S, lib_declarations') /\ \A b \in UnitsOf(S, "package body") : b.items \subseteq lib_declarations'[b.name].items
  BY <1>3, <1>9, <1>16
<1>18. DOMAIN du_declarations' \subseteq Listed(S)
  BY <1>1, <1>2, <1>3, <1>6
<1>19. QED BY <1>14, <1>15, <1>17, <1>18 DEF LinkInv

-----------------------------------------------------------------------------
(* The invariant holds, and says what it should at the end.                     *)
LEMMA UnitsInit ==
    ASSUME NEW S \in Sources, Init, source = S
    PROVE  UnitsInv(S)
<1>1. /\ phase = "parse" /\ unread = S /\ visited = {} /\ du_definitions = {}
      /\ du_declarations = Empty /\ lib_declarations = Empty /\ lib_definitions = Empty
  BY DEF Init
<1>2. \A kind : UnitsOf(S, kind) \ unread = {}
  BY <1>1 DEF UnitsOf
<1>3. \A view : Lists(Empty, {}, view)
  BY DEF Lists, Empty
<1>4. ParseInv(S)
  BY <1>1, <1>2, <1>3 DEF ParseInv
<1>5. QED BY <1>1, <1>4 DEF UnitsInv, BuildInv, LinkInv

LEMMA UnitsStep ==
    ASSUME NEW S, WellFormed(S), UnitsInv(S), [Next]_vars
    PROVE  UnitsInv(S)'
<1>1. source = S /\ ParseInv(S) /\ BuildInv(S) /\ LinkInv(S)
  BY DEF UnitsInv
<1>2. ASSUME source' = S, phase' = "error" PROVE UnitsInv(S)'
  BY <1>2 DEF UnitsInv, ParseInv, BuildInv, LinkInv
<1>3. ASSUME source' = S, phase' = "parse", ParseInv(S)' PROVE UnitsInv(S)'
  BY <1>3 DEF UnitsInv, BuildInv, LinkInv
<1>4. ASSUME source' = S, phase' = "build", BuildInv(S)' PROVE UnitsInv(S)'
  BY <1>4 DEF UnitsInv, ParseInv, LinkInv
<1>5. ASSUME source' = S, phase' \in {"link", "instances", "done"}, LinkInv(S)' PROVE UnitsInv(S)'
  BY <1>5 DEF UnitsInv, ParseInv, BuildInv
<1>6. ASSUME NEW u \in unread, Parse(u) PROVE UnitsInv(S)'
  BY <1>1, <1>3, <1>6, ParseStep DEF Parse
<1>7. CASE ParsingEnds
  BY <1>1, <1>4, <1>7, ParseEnds DEF ParsingEnds
<1>8. ASSUME NEW b \in du_definitions, PlaceArchitecture(b) PROVE UnitsInv(S)'
  BY <1>1, <1>4, <1>8, PlaceStep DEF PlaceArchitecture
<1>9. ASSUME NEW b \in du_definitions, SecondArchitecture(b) PROVE UnitsInv(S)'
  BY <1>1, <1>2, <1>9 DEF SecondArchitecture
<1>10. CASE BuildSystem
  BY <1>1, <1>5, <1>10, BuildStep DEF BuildSystem
<1>11. ASSUME NEW n \in DOMAIN du_declarations, Link(n) PROVE UnitsInv(S)'
  BY <1>1, <1>5, <1>11, LinkStep DEF Link
<1>12. ASSUME NEW n \in DOMAIN du_declarations, SeveralEntities(n) PROVE UnitsInv(S)'
  BY <1>1, <1>2, <1>12 DEF SeveralEntities
<1>13. CASE VisitViews
  BY <1>1, <1>5, <1>13, VisitStep DEF VisitViews
<1>14. CASE VisitInstances
  BY <1>1, <1>5, <1>14, BindStep DEF VisitInstances
<1>15. CASE UNCHANGED vars
  <2>1. /\ source' = source /\ unread' = unread /\ du_declarations' = du_declarations /\ du_definitions' = du_definitions
        /\ lib_declarations' = lib_declarations /\ lib_definitions' = lib_definitions /\ visited' = visited /\ phase' = phase
    BY <1>15 DEF vars
  <2>2. ParseInv(S)'
    BY <1>1, <2>1 DEF ParseInv
  <2>3. BuildInv(S)'
    BY <1>1, <2>1 DEF BuildInv, ListsInv, StatementsParsed
  <2>4. \A n : DeclaredView(n)' = DeclaredView(n)
    BY <2>1, ViewsMeet
  <2>5. ASSUME phase \in {"link", "instances", "done"} PROVE LinkInv(S)'
    <3>1. ASSUME NEW n, Declared(S, n)
          PROVE  (/\ n \in DOMAIN du_declarations \/ Packages(S, n) # {}
                  /\ n \in DOMAIN du_declarations /\ (phase = "link" => n \in visited) => Packages(S, n) = {}
                  /\ IsView(DeclaredView(n))
                  /\ IF phase = "link" THEN StatementsParsed(S, DeclaredView(n))
                                       ELSE StatementsVisited(S, DeclaredView(n)))'
      <4>1. PICK v : v = DeclaredView(n) /\ v = DeclaredView(n)'
        BY <2>4
      <4>2. /\ n \in DOMAIN du_declarations \/ Packages(S, n) # {}
            /\ n \in DOMAIN du_declarations /\ (phase = "link" => n \in visited) => Packages(S, n) = {}
            /\ IsView(v)
            /\ IF phase = "link" THEN StatementsParsed(S, v) ELSE StatementsVisited(S, v)
        BY <1>1, <2>5, <3>1, <4>1 DEF LinkInv
      <4>3. StatementsVisited(S, v) <=> StatementsVisited(S, v)'
        BY <2>4 DEF StatementsVisited
      <4>4. StatementsVisited(S, DeclaredView(n))' <=> StatementsVisited(S, v)'
        BY <4>1 DEF StatementsVisited
      <4>5. QED BY <2>1, <4>1, <4>2, <4>3, <4>4 DEF StatementsParsed
    <3>2. ASSUME NEW a \in UnitsOf(S, "architecture")
          PROVE  (/\ Placed(DeclaredView(a.of), a)
                  /\ \A e \in UnitsOf(S, "entity") : e.name = a.of => OfEntity(DeclaredView(a.of), e))'
      <4>1. PICK v : v = DeclaredView(a.of) /\ v = DeclaredView(a.of)'
        BY <2>4
      <4>2. Placed(v, a) /\ \A e \in UnitsOf(S, "entity") : e.name = a.of => OfEntity(v, e)
        BY <1>1, <2>5, <4>1 DEF LinkInv
      <4>3. QED BY <4>1, <4>2
    <3>3. /\ OfPackages(S, lib_declarations) /\ DOMAIN du_declarations \subseteq Listed(S)
          /\ \A b \in UnitsOf(S, "package body") : b.items \subseteq lib_declarations[b.name].items
      BY <1>1, <2>5 DEF LinkInv
    <3>4. QED BY <2>1, <3>1, <3>2, <3>3 DEF LinkInv
  <2>6. LinkInv(S)'
    BY <2>1, <2>5 DEF LinkInv
  <2>7. QED BY <1>1, <2>1, <2>2, <2>3, <2>6 DEF UnitsInv
<1>16. QED BY <1>6, <1>7, <1>8, <1>9, <1>10, <1>11, <1>12, <1>13, <1>14, <1>15 DEF Next

LEMMA OnePlace ==
    ASSUME NEW S, WellFormed(S), LinkInv(S), phase = "done", NEW n, Declared(S, n)
    PROVE  Cardinality(Places(n)) = 1
<1>1. /\ OfPackages(S, lib_declarations)
      /\ n \in DOMAIN du_declarations \/ Packages(S, n) # {}
      /\ n \in DOMAIN du_declarations => Packages(S, n) = {}
  BY DEF LinkInv
<1>2. Elsewhere(n) = Packages(S, n)
  BY <1>1, PackagesOf DEF Elsewhere
<1>3. \E p : Places(n) = {p}
  <2>1. CASE n \in DOMAIN du_declarations
    BY <1>1, <1>2, <2>1 DEF Places
  <2>2. CASE n \notin DOMAIN du_declarations
    <3>1. PICK p : p \in Packages(S, n)
      BY <1>1, <2>2
    <3>2. Packages(S, n) = {p}
      BY <3>1 DEF WellFormed, ComponentsAreUnique
    <3>3. QED BY <1>2, <2>2, <3>2 DEF Places
  <2>3. QED BY <2>1, <2>2
<1>4. QED BY <1>3, FS_Singleton

LEMMA UnitsEnd ==
    ASSUME NEW S, WellFormed(S), UnitsInv(S)
    PROVE  BodiesReachTheirUnits
<1>1. SUFFICES ASSUME phase = "done" PROVE BodiesReachTheirUnits
  BY DEF BodiesReachTheirUnits
<1>2. source = S /\ LinkInv(S) /\ \A kind : OfKind(kind) = UnitsOf(S, kind)
  BY DEF UnitsInv, OfKind, UnitsOf
<1>3. ASSUME NEW a \in OfKind("architecture") PROVE a \in UnitsOf(S, "architecture") /\ Declared(S, a.of)
  BY <1>2 DEF WellFormed, BodiesAreDeclared, Declared, Listed
<1>4. ASSUME NEW a \in OfKind("architecture") PROVE ReachesItsEntity(a)
  <2>1. PICK v : v = DeclaredView(a.of)
    OBVIOUS
  <2>2. Placed(v, a) /\ \A e \in UnitsOf(S, "entity") : e.name = a.of => OfEntity(v, e)
    BY <1>1, <1>2, <1>3, <2>1 DEF LinkInv
  <2>3. PICK entity : entity = CHOOSE e \in Named("entity", a.of) : TRUE
    OBVIOUS
  <2>4. entity \in UnitsOf(S, "entity") /\ entity.name = a.of
    <3>1. \E e \in Named("entity", a.of) : TRUE
      BY <1>2, <1>3 DEF Named, WellFormed, BodiesAreDeclared
    <3>2. entity \in Named("entity", a.of)
      BY <2>3, <3>1
    <3>3. QED BY <1>2, <3>2 DEF Named
  <2>5. OfEntity(v, entity)
    BY <2>2, <2>4
  <2>6. Cardinality(Places(a.of)) = 1
    BY <1>1, <1>2, <1>3, OnePlace
  <2>7. QED BY <2>1, <2>2, <2>3, <2>5, <2>6 DEF ReachesItsEntity, Placed, OfEntity
<1>5. ASSUME NEW a \in OfKind("architecture"), NEW st \in DeclaredView(a.of).contents.statements
      PROVE  /\ \A k \in DOMAIN st.path : st.path[k].kind = "generate"
             /\ st.kind = "instance" => Cardinality(Places(st.unit)) = 1 /\ st.arch = DeclaredView(st.unit).name
  <2>1. StatementsVisited(S, DeclaredView(a.of))
    BY <1>1, <1>2, <1>3 DEF LinkInv
  <2>2. /\ \A k \in DOMAIN st.path : st.path[k].kind = "generate"
        /\ st.kind = "instance" => Declared(S, st.unit) /\ st.arch = DeclaredView(st.unit).name
    BY <2>1 DEF StatementsVisited
  <2>3. QED BY <1>1, <1>2, <2>2, OnePlace
<1>6. ASSUME NEW b \in OfKind("package body")
      PROVE  b.name \in DOMAIN lib_declarations /\ b.items \subseteq lib_declarations[b.name].items
  BY <1>1, <1>2 DEF LinkInv, OfPackages, WellFormed, BodiesAreDeclared
<1>7. QED BY <1>4, <1>5, <1>6 DEF BodiesReachTheirUnits

(***************************************************************************)
(* In whatever order the files of a source are parsed, its architectures   *)
(* placed (buildSystemObject) and its entities moved into packages         *)
(* (visitSystem), every body ends up in the one unit of its entity, with   *)
(* every statement and no block around them, and every instance refers to  *)
(* the view that is there, however many units the source has.              *)
(***************************************************************************)
THEOREM BodiesArePlaced ==
    ASSUME \A S \in Sources : WellFormed(S)
    PROVE  Spec => []BodiesReachTheirUnits
<1> DEFINE Kept == \E S \in Sources : UnitsInv(S)
<1>1. Init => Kept
  BY UnitsInit DEF Init
<1>2. Kept /\ [Next]_vars => Kept'
  BY UnitsStep
<1>3. Kept => BodiesReachTheirUnits
  BY UnitsEnd
<1>4. QED BY <1>1, <1>2, <1>3, PTL DEF Spec
=============================================================================
