------------------------- MODULE MCVerilogTranslation -------------------------
(***************************************************************************)
(* Projects of one to three modules in one or two files, built from the    *)
(* declarations, assignments and instances that meet in the two passes     *)
(* over a unit: each family varies one thing and is translated whole.      *)
(***************************************************************************)
EXTENDS VerilogTranslation

\* Items, by what they say.
Item(k, n) == [k |-> k, name |-> n, dir |-> Nil, span |-> Nil, signed |-> FALSE, disc |-> Nil,
               val |-> NoValue, scope |-> Top, num |-> NoValue, named |-> TRUE, binds |-> <<>>,
               params |-> <<>>]
Port(n, dir) == [Item("port", n) EXCEPT !.dir = dir]
Sized(i, span, signed) == [i EXCEPT !.span = span, !.signed = signed]
With(i, val) == [i EXCEPT !.val = val]
In(i, scope) == [i EXCEPT !.scope = scope]
After(i, delay) == [i EXCEPT !.num = delay]
Of(i, disc) == [i EXCEPT !.disc = disc]
Assigned(n, val) == With(Item("assign", n), val)
Instance(name, unit, named, binds) ==
  [Of(Item("instance", name), unit) EXCEPT !.named = named, !.binds = binds]
Bind(formal, actual) == [formal |-> formal, actual |-> actual]

One == Literal("1")
Expr(syms) == Value("e", syms)
Ref(n) == Value("ref", {n})

Conditions == Top :> "always" @@ "g" :> "P" @@ "h" :> "not P"

Module(name, ansi, header, items) ==
  [k |-> "module", name |-> name, ansi |-> ansi, header |-> header, items |-> items,
   conds |-> Conditions]
Scale(s) == [k |-> "timescale", scale |-> s]
File(ext, pieces) == [ext |-> ext, pieces |-> pieces]
Project(files) == [files |-> files, parseOnly |-> FALSE]
Alone(m) == Project(<<File(".v", <<m>>)>>)

Parameter == With(Item("param", "P"), One)

-------------------------------------------------------------------------------
(* A port declared in one, two or three items, in both forms of header.    *)

AnsiOutputs ==
  {Sized(Port("y", "out"), s, g) : s \in {Nil, "3:0"}, g \in {FALSE}}
  \cup {Sized([With(Item("outreg", "y"), v) EXCEPT !.dir = "out"], s, FALSE) :
          s \in {Nil, "3:0"}, v \in {NoValue, One}}
  \cup {Sized(Port("y", d), "3:0", TRUE) : d \in {"in", "inout", "out"}}

ListedOutputs ==
  {<<Sized(Port("y", d), s, g)>> : d \in {"in", "inout", "out"}, s \in {"3:0"}, g \in BOOLEAN}
  \cup {<<Port("y", "out"), With(Item("reg", "y"), v)>> : v \in {NoValue, One}}
  \cup {<<Sized(Port("y", "out"), "3:0", g), Sized(With(Item("reg", "y"), v), "3:0", g)>> :
          v \in {NoValue, One}, g \in BOOLEAN}
  \cup {<<Sized(Port("y", "out"), "3:0", FALSE), Sized(With(Item("net", "y"), v), "3:0", FALSE)>> :
          v \in {NoValue, One, Expr({"a"}), Expr({"P"})}}
  \cup {<<Sized([With(Item("outreg", "y"), v) EXCEPT !.dir = "out"], s, FALSE)>> :
          s \in {Nil, "3:0"}, v \in {NoValue, One}}

PortProjects ==
  {Alone(Module("m", TRUE, <<>>, <<Parameter, Port("a", "in"), o>>)) : o \in AnsiOutputs}
  \cup {Alone(Module("m", FALSE, <<"a", "y">>, <<Parameter, Port("a", "in")>> \o os)) : os \in ListedOutputs}

-------------------------------------------------------------------------------
(* A net and its drivers: where it is declared, what it is assigned, in    *)
(* which scope, after which delay.                                         *)

Values == {One, Ref("P"), Ref("L"), Ref("a"), Expr({"a", "P"}), Expr({"q"}), Expr({"f"}), Expr({"$bits", "P"})}
AFunction == [Sized(Item("function", "f"), "3:0", FALSE) EXCEPT
                !.binds = <<[Item("tf", "x") EXCEPT !.dir = "in"]>>]

NetProjects ==
  {Alone(Module("m", TRUE, <<>>,
     <<Parameter, Port("a", "in"), Port("y", "out"), With(Item("localparam", "L"), v),
       AFunction, Item("reg", "q"), Assigned("y", r)>>)) : v \in {One, Expr({"P"})}, r \in Values}
  \cup
  {Alone(Module("m", TRUE, <<>>,
     <<Parameter, Port("a", "in"), Item("reg", "q"), With(Item("localparam", "L"), One),
       AFunction, Sized(With(Item("net", "w"), v), "3:0", FALSE)>>)) : v \in Values}
  \cup
  {Alone(Module("m", TRUE, <<>>,
     <<Parameter, Port("a", "in"), Item("net", "w"), Item("reg", "q"),
       In(Assigned("w", r1), "g"), In(Assigned("w", r2), "h")>>)) :
     r1 \in {Ref("a"), Expr({"q"})}, r2 \in {Ref("a"), Expr({"q", "P"})}}
  \cup
  {Alone(Module("m", TRUE, <<>>,
     <<Parameter, Port("a", "in"), In(Item(k, "w"), "g"), In(Assigned("w", Expr({"a", "b"})), "g")>>)) :
     k \in {"net", "reg"}}
  \cup
  {Alone(Module("m", TRUE, <<>>,
     <<Port("a", "in"), With(Item("param", "P"), v), With(Item("localparam", "L"), One),
       With(Item("localparam", "K"), Expr({"L"})),
       Sized(With(Item(k, "q"), i), "P:0", TRUE)>>)) :
     v \in {One, Ref("L"), Ref("K")}, k \in {"reg"}, i \in {NoValue, One, Ref("K")}}

\* Variables that are not registers, with and without an initial value.
OtherProjects ==
  {Alone(Module("m", TRUE, <<>>,
     <<Parameter, With(Item("integer", "n"), v), With(Item("real", "x"), v), Item("event", "ev"),
       Of(Sized(Item("discipline", "s"), "3:0", TRUE), "logic"), Of(Item("discipline", "b"), "logic")>>)) :
     v \in {NoValue, One, Ref("P")}}

-------------------------------------------------------------------------------
(* Instances and the nets they imply; ports without type or direction.     *)

Inner == Module("i", TRUE, <<>>, <<With(Item("param", "W"), One), With(Item("param", "V"), One), Sized(Port("p", "in"), "3:0", FALSE), Port("r", "out")>>)

Bindings == {<<Bind("p", x), Bind("r", z)>> : x \in {"a", "n"}, z \in {"y", "n"}}
            \cup {<<Bind("r", z), Bind("p", "a")>> : z \in {"y", "n"}}
Ordered(bs) == [b \in DOMAIN bs |-> Bind(Nil, bs[b].actual)]

InstanceProjects ==
  {Project(<<File(".v", fs)>>) :
     fs \in UNION {{<<Inner, o>>, <<o, Inner>>} :
       o \in {Module("o", TRUE, <<>>, <<Sized(Port("a", "in"), "3:0", FALSE), Port("y", "out"),
                                        Instance("u", "i", TRUE, b)>>) : b \in Bindings}
             \cup {Module("o", TRUE, <<>>, <<Parameter, Port("a", "in"), Port("y", "out"),
                                        Instance("u", "i", FALSE, Ordered(b)),
                                        [Instance("v", "i", g, b) EXCEPT
                                           !.params = <<[formal |-> "W", val |-> Ref("P")], [formal |-> "V", val |-> One]>>]>>) :
                     b \in {<<Bind("p", "a"), Bind("r", "n")>>}, g \in BOOLEAN}}}

\* A module whose ports have no declaration but its header.
Bare(name, unit, named) ==
  Module(name, FALSE, <<"a", "y">>,
         <<With(Item("reg", "q"), One),
           Instance("u", unit, named, IF named THEN <<Bind("r", "y"), Bind("p", "a")>>
                                      ELSE <<Bind(Nil, "a"), Bind(Nil, "y")>>)>>)
BareOver(name, unit) == Module(name, FALSE, <<"b", "z">>, <<Instance("u", unit, TRUE, <<Bind("a", "z"), Bind("y", "b")>>),
                                                          Instance("v", unit, FALSE, <<Bind(Nil, "b"), Bind(Nil, "c")>>)>>)

BareProjects ==
  {Project(<<File(".v", <<BareOver("oo", "o"), Bare("o", "i", g), Inner>>)>>) : g \in BOOLEAN}

-------------------------------------------------------------------------------
(* Functions and tasks, static and automatic, with their calls.            *)

Argument(n, dir, span) == [Sized(Item("tf", n), span, span # Nil) EXCEPT !.dir = dir]
Sub(k, n, automatic, items) == [Item(k, n) EXCEPT !.named = automatic, !.binds = items]
Call(callee, actuals) == [Of(Item("call", "c"), callee) EXCEPT !.binds = actuals]

TaskItems ==
  {<<Argument("x", "in", s), Argument("z", d, Nil), Item(k, "l")>> :
     s \in {Nil, "3:0"}, d \in {"out", "inout"}, k \in {"reg", "integer"}}
  \cup {<<Item("integer", "l"), Argument("x", "in", Nil), Item("reg", "l2"), Argument("z", "out", "3:0")>>}

SubprogramProjects ==
  {Alone(Module("m", TRUE, <<>>,
     <<Port("a", "in"), Item("reg", "q"), Sub("task", "t", g, items), Call("t", <<"a", "q">>),
       Call("f", <<"a">>),
       Sized(Sub("function", "f", FALSE, <<Argument("x", "in", "3:0"), Item("integer", "k")>>), "7:0", g)>>)) :
     g \in BOOLEAN, items \in TaskItems}

-------------------------------------------------------------------------------
(* Delays under the time scales of two files.                              *)

Timed(n, d) == Module(n, TRUE, <<>>, <<Port("a", "in"), Port("y", "out"), Parameter,
                                        With(Item("time", "t"), One),
                                        After(Assigned("y", Ref("a")), d)>>)
Waiting(n) == Module(n, TRUE, <<>>, <<Item("reg", "q"), After(Item("always", "p"), One)>>)
Calling(n, callee) == Module(n, TRUE, <<>>, <<Port("a", "in"), Port("y", "out"),
                        Instance("u", callee, FALSE, <<Bind(Nil, "a"), Bind(Nil, "y")>>)>>)

TimedProjects ==
  {Project(<<File(".v", before \o <<Timed("m", d)>> \o between \o <<Waiting("n")>>),
             File(".v", <<Calling("c", "m"), Waiting("k")>>)>>) :
     before \in {<<>>, <<Scale("1us/1ns")>>}, between \in {<<>>, <<Scale("1ps/1ps")>>},
     d \in {One, Ref("P"), Ref("t")}}

-------------------------------------------------------------------------------
(* Verilog-AMS: disciplines, analog blocks and the units that use them.    *)

Electrical(ansi) ==
  IF ansi THEN Module("e", TRUE, <<>>, <<Of(Port("p", "inout"), "electrical"), Of(Port("r", "inout"), "electrical")>>)
  ELSE Module("e", FALSE, <<"p", "r">>, <<Port("p", "inout"), Port("r", "inout"),
                                          Of(Item("discipline", "p"), "electrical"),
                                          Of(Item("discipline", "r"), "electrical"), Item("analog", "x")>>)
Digital(name) == Module(name, TRUE, <<>>, <<Port("a", "in"), Port("y", "out"), Assigned("y", Ref("a"))>>)
LogicOf(name) == Module(name, FALSE, <<"a", "y">>,
                        <<Port("a", "in"), Sized(Port("y", "out"), "3:0", FALSE), Of(Item("discipline", "q"), "logic")>>)
Using(name, unit) == Module(name, TRUE, <<>>, <<Port("a", "in"), Port("y", "out"),
                        Instance("u", unit, FALSE, <<Bind(Nil, "a"), Bind(Nil, "y")>>)>>)

AmsProjects ==
  {Project(<<File(".vams", <<Using("o", "m"), Using("m", "e"), Electrical(ansi)>>),
             File(".v", <<Digital("d"), Using("k", x)>>)>>) : ansi \in BOOLEAN, x \in {"d", "o"}}
  \cup {Project(<<File(".vams", <<Bare("b", "e2", FALSE), [Electrical(g) EXCEPT !.name = "e2"]>>)>>) : g \in BOOLEAN}
  \cup {Project(<<File(".vams", <<Module("w", TRUE, <<>>, <<Port("a", "in"), Sized(Item("net", "n"), s, FALSE),
                   Of(Item("discipline", "n"), "logic")>>)>>)>>) : s \in {Nil}}
  \cup {Project(<<File(".va", <<LogicOf("l"), Digital("d")>>)>>), Alone(LogicOf("l")),
        [Project(<<File(".va", <<Electrical(TRUE)>>), File(".v", <<LogicOf("l")>>)>>) EXCEPT !.parseOnly = TRUE]}

-------------------------------------------------------------------------------
(* The projects of the runs.                                               *)

Projects == PortProjects \cup NetProjects \cup OtherProjects \cup InstanceProjects \cup BareProjects \cup SubprogramProjects \cup TimedProjects \cup AmsProjects

MCSystemFunctions == {"$bits"}
===============================================================================
