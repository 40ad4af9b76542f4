----------------------------- MODULE MCVhdlUnits -----------------------------
(***************************************************************************)
(* Sources around one entity e with two ports and a generic: the entity    *)
(* that instantiates it, declared as a component in every place VHDL has   *)
(* for that, with associations of every style.                             *)
(***************************************************************************)
EXTENDS VhdlElaboration

Formal(n, default) == [name |-> n, default |-> default]
Assoc(form, n, part, value) ==
  [formal |-> form, name |-> n, part |-> part, value |-> value]
At(value) == Assoc("position", None, Whole, value)
Given(n, value) == Assoc("name", n, Whole, value)
Part(n, index, value) == Assoc("part", n, index, value)

A == Formal("a", None)
B(default) == Formal("b", default)
Width == Formal("width", "8")

Component(ports) == [name |-> "e", generics |-> <<Width>>, ports |-> ports]

Same == Component(<<A, B("0")>>)
Swapped == Component(<<B("0"), A>>)
OwnDefault == Component(<<A, B("1")>>)
Fewer == Component(<<A>>)

Entity(n, uses, generics, ports) ==
  [kind |-> "entity", name |-> n, uses |-> uses, generics |-> generics,
   ports |-> ports]

E(uses) == Entity("e", uses, <<Width>>, <<A, B("0")>>)

Architecture(of, context, uses, components, statements) ==
  [kind |-> "architecture", name |-> "rtl", of |-> of, context |-> context,
   uses |-> uses, components |-> components, statements |-> statements]

Package(uses, components) ==
  [kind |-> "package", name |-> "p", uses |-> uses, items |-> {"f"},
   components |-> components]

Body == [kind |-> "package body", name |-> "p", items |-> {"f_body"}]

Configuration == [kind |-> "configuration", name |-> "c"]

Name(form, unit, arch) == [form |-> form, unit |-> unit, arch |-> arch]
Plain == Name("identifier", "e", None)

Statement(l, kind, path, name, generics, ports) ==
  [label |-> l, kind |-> kind, path |-> path, name |-> name,
   generics |-> generics, ports |-> ports]

Process(path) ==
  Statement("p1", "process", path, Name("identifier", None, None), <<>>, <<>>)

Region(kind, components) == [kind |-> kind, components |-> components]

-----------------------------------------------------------------------------

\* Lists of associations for ports a and b.
ByPosition == <<At("x"), At("y")>>
FirstOnly == <<At("x")>>
ByName == <<Given("b", "y"), Given("a", "x")>>
Mixed == <<At("x"), Given("b", "y")>>
NamedA == <<Given("a", "x")>>
OpenB == <<Given("a", "x"), Given("b", Open)>>
OpenLast == <<At("x"), At(Open)>>
InParts == <<Part("a", 1, "x1"), Given("b", "y"), Part("a", 0, "x0")>>

Lists == {ByPosition, FirstOnly, ByName, Mixed, NamedA, OpenB, OpenLast, InParts}

\* In swapped order the first position is b, so a list must still give a.
ListsFor(c) ==
  CASE c = Swapped -> {ByPosition, ByName, NamedA, InParts}
    [] c = OwnDefault -> Lists \ {OpenB, OpenLast}
    [] c = Fewer -> {FirstOnly, NamedA}
    [] OTHER -> Lists

GenericsFor(l) ==
  CASE l = ByPosition -> <<At("16")>>
    [] l = ByName -> <<Given("width", "16")>>
    [] OTHER -> <<>>

Instance(path, name, l) == Statement("i1", "instance", path, name, GenericsFor(l), l)

Top(context, uses, components, statements) ==
  {Entity("top", {}, <<>>, <<>>),
   Architecture("top", context, uses, components, statements)}

Implementation == {E({}), Architecture("e", {}, {}, <<>>, {Process(<<>>)})}

\* The component in the architecture, the instance in it, in a block or in a
\* generate.
InArchitecture ==
  UNION {{Implementation \cup
            Top({}, {}, <<c>>, {Instance(path, Plain, l), Process(path)}) :
              path \in {<<>>, <<Region("block", <<>>)>>,
                        <<Region("generate", <<>>), Region("block", <<>>)>>},
              l \in ListsFor(c)} :
           c \in {Same, Swapped, OwnDefault, Fewer}}

\* The component in a block, which may be inside a generate and may hide a
\* component of the architecture, or in a generate.
InRegion ==
  UNION {{Implementation \cup Top({}, {}, <<>>, {Instance(path, Plain, l)}) :
              path \in {<<Region("block", <<c>>)>>,
                        <<Region("block", <<c>>), Region("block", <<Same>>)>>,
                        <<Region("block", <<c>>), Region("generate", <<>>)>>,
                        <<Region("generate", <<>>), Region("block", <<c>>)>>},
              l \in ListsFor(c)} :
           c \in {Same, Swapped, OwnDefault}}
  \cup {Implementation \cup
          Top({}, {}, <<>>, {Instance(<<Region("generate", <<Same>>)>>, Plain, l)}) :
            l \in {ByPosition, Mixed, OpenB, InParts}}
  \cup {Implementation \cup
          Top({}, {}, <<Same>>, {Instance(<<Region("block", <<Swapped>>)>>, Plain, l)}) :
            l \in ListsFor(Swapped)}

\* The component in a package, or the entity named directly.
InPackage(uses) ==
  {Implementation \cup {Package(uses, <<Same>>), Body}
     \cup Top(context, {"p"} \ context, <<>>, {Instance(<<>>, Plain, l)}) :
       context \in {{}, {"p"}}, l \in Lists}

Direct(l) ==
  {Implementation \cup Top({}, {}, <<>>, {Instance(path, name, l)}) :
     name \in {Name("selected", "e", None), Name("call", "e", "rtl")},
     path \in {<<>>, <<Region("generate", <<>>)>>}}

\* A black box instantiated by two architectures, a configuration, and an
\* architecture and an entity with packages of their own.
Others ==
  {Top({}, {}, <<Same>>, {Instance(<<>>, Plain, ByName)})
     \cup {Entity("mid", {}, <<>>, <<>>),
           Architecture("mid", {}, {}, <<Same>>, {Instance(<<>>, Plain, Mixed)}),
           Configuration}}
  \cup {Implementation
          \cup Top({}, {"std_logic_unsigned", "e"}, <<>>,
                   {Instance(<<>>, Name("selected", "e", None), ByName)})}

Unsupported ==
  {Implementation \cup {[Architecture("e", {}, {}, <<>>, {}) EXCEPT !.name = "rtl2"]},
   Implementation \cup {Package({}, <<Same>>), [Package({}, <<Same>>) EXCEPT !.name = "q"]}}

MCSources ==
  InArchitecture \cup InRegion \cup InPackage({}) \cup UNION {Direct(l) : l \in Lists}
    \cup Others \cup Unsupported
=============================================================================
