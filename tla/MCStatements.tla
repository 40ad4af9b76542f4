------------------------- MODULE MCStatements ---------------------------------
(***************************************************************************)
(* Constructs of both languages: every statement of one level and of two,  *)
(* in each kind of construct, with three rows of answers.                  *)
(***************************************************************************)
EXTENDS Statements

NoControl == Verilog!NoControl

Null == [op |-> "null"]
Do(x) == [op |-> "do", lhs |-> x, reads |-> {"n"}]
Timed(c, s) == [op |-> "timed", at |-> [ctl |-> "event", sens |-> c], body |-> s]
Delayed(s) == [op |-> "timed", at |-> [ctl |-> "delay", sens |-> {}], body |-> s]
WaitC(s) == [op |-> "wait", c |-> "w", body |-> s]
Cond(c, y, n) == [op |-> "if", c |-> c, yes |-> y, no |-> n]
Case(c, alts, d) == [op |-> "case", c |-> c, alts |-> alts, default |-> d]
WhileS(c, s) == [op |-> "while", c |-> c, body |-> s]
Forever(s) == [op |-> "forever", body |-> s]
ForS(s) == [op |-> "for", init |-> Do("i"), c |-> "f", step |-> Do("j"), body |-> s]
RepeatS(n, s) == [op |-> "repeat", n |-> n, body |-> s]
Block(l, ss) == [op |-> "block", label |-> l, list |-> ss]
Disable(l) == [op |-> "disable", label |-> l]

Clk == {<<"posedge", "clk">>, <<"negedge", "rst">>, <<"any", "x">>}

\* Statements of one level, and of two: every compound around every one of
\* them, with something before and after it.
Leaves == {Null, Do("a"), Disable("B")}
Compounds(s) ==
  {Timed(Clk, s), Delayed(s), WaitC(s), Cond("c", s, Do("b")), Cond("c", Do("b"), s),
   Case("k", <<s, Do("b")>>, Null), Case("k", <<Do("b")>>, s), WhileS("q", s),
   Forever(Block(NoName, <<Do("t"), s>>)), ForS(s), RepeatS(2, s), Block("C", <<s, Do("b")>>),
   Block(NoName, <<s, Do("b")>>)}
NoSuspension(s) ==
  {Cond("c", s, Do("b")), Cond("c", Do("b"), Cond("d", s, Null)), ForS(s), WhileS("q", s),
   RepeatS(1, s), Block("C", <<s, Do("f")>>), Case("k", <<s, Do("f")>>, Null)}

One == Leaves \cup UNION {Compounds(s) : s \in Leaves}
\* A timing control directly under another one loses the inner one.
Timeable(s) == s.op # "timed"
Two == UNION {Compounds(s) : s \in {x \in UNION {Compounds(y) : y \in Leaves} : Timeable(x)}}

InB(s) == Block("B", <<s, Do("z")>>)
Closed(s) == Block(NoName, <<InB(s), Do("y")>>)

Answers == {<<TRUE, FALSE, TRUE>>, <<FALSE, TRUE, FALSE>>, <<TRUE, TRUE, FALSE>>}
Construct(kind, at, S) ==
  [kind : {kind}, name : {"f"}, at : {at}, body : S, answers : Answers]

AtClk == [ctl |-> "event", sens |-> Clk]
AtAll == [ctl |-> "all", sens |-> {}]

VerilogConstructs ==
  Construct("always", AtClk, {InB(s) : s \in One \cup Two} \cup {Closed(s) : s \in One})
  \cup Construct("always", NoControl, {Block("B", <<Timed(Clk, Do("p")), s>>) : s \in One})
  \cup Construct("always", AtAll, {InB(s) : s \in UNION {NoSuspension(x) : x \in Leaves}})
  \cup Construct("initial", NoControl, {Closed(s) : s \in One \cup Two})
  \cup Construct("task", NoControl, {Closed(s) : s \in One})
  \cup Construct("function", NoControl, {Closed(s) : s \in UNION {NoSuspension(x) : x \in Leaves}})
  \cup Construct("analog", NoControl,
         {Closed(s) : s \in {Do("a"), Cond("c", Do("a"), Do("b")), WhileS("q", Do("a")), ForS(Do("a")),
                             Timed(Clk, Timed(Clk, Do("a"))), Case("k", <<Do("a"), Do("b")>>, Do("d")),
                             Block("C", <<Timed(Clk, Do("a")), Do("b")>>)}})

-------------------------------------------------------------------------------
(* VHDL *)

Set(x) == [op |-> "set", lhs |-> x, value |-> [op |-> "name", name |-> "n"]]
Assigned(e) == [op |-> "set", lhs |-> "v", value |-> e]
Nothing == [op |-> "null"]
Assertion(c) == [op |-> "assert", c |-> c]
Call == [op |-> "call", name |-> "p"]
ReturnN == [op |-> "return", name |-> "n"]
Waits(sens, c, time) == [op |-> "wait", sens |-> sens, c |-> c, time |-> time]
Leave(op, label, c) == [op |-> op, label |-> label, c |-> c]
Alt(c, body) == [c |-> c, body |-> body]
Alts(op, alts) == [op |-> op, alts |-> alts]
WhileV(label, c, body) == [op |-> "while", label |-> label, c |-> c, body |-> body]
LoopV(label, body) == [op |-> "loop", label |-> label, c |-> NoName, body |-> body]
ForV(label, range, body) ==
  [op |-> "for", label |-> label, index |-> "i", c |-> NoName, range |-> range, body |-> body]

To(l, r) == [dir |-> "to", left |-> l, right |-> r]
Down(l, r) == [dir |-> "downto", left |-> l, right |-> r]
RangeOf(form, bounds) == [form |-> form, bounds |-> bounds]
\* Ranges in both directions, of one value and of none, and the attributes of
\* a descending array.
Ranges == {RangeOf("bounds", b) : b \in {To(1, 2), Down(2, 1), To(0, 0), To(1, 0), Down(0, 1)}}
          \cup {RangeOf(form, Down(2, 0)) : form \in {"range", "reverse_range"}}

VLeaves == {Nothing, Set("a"), Leave("exit", NoName, NoName), Leave("next", NoName, NoName),
            Leave("exit", "L", NoName), Leave("next", "L", NoName)}
VCompounds(s) ==
  {Alts("if", <<Alt("c", <<s>>)>>), Alts("if", <<Alt("c", <<Set("b")>>), Alt("d", <<s, Set("b")>>)>>),
   Alts("if", <<Alt("c", <<Nothing>>), Alt(NoName, <<s>>)>>),
   Alts("case", <<Alt("k", <<s>>), Alt("k", <<Set("b")>>)>>),
   Alts("case", <<Alt("k", <<Set("b")>>), Alt(NoName, <<s>>)>>),
   WhileV("M", "q", <<s, Set("b")>>), LoopV(NoName, <<Set("t"), s>>)}
  \cup {ForV(NoName, r, <<s, Set("b")>>) : r \in Ranges}

InLoops(s) == {<<ForV("L", RangeOf("bounds", To(0, 1)), <<s, Set("y")>>), Set("z")>>,
               <<LoopV("L", <<WhileV(NoName, "w", <<s, Set("y")>>), Set("x")>>), Set("z")>>}
OneV == VLeaves \cup UNION {VCompounds(s) : s \in VLeaves}
TwoV == UNION {VCompounds(s) : s \in {Alts("if", <<Alt("c", <<x>>)>>) : x \in VLeaves}}

Process(sens, S) ==
  [kind : {"vhdl process"}, name : {"proc"}, at : {[ctl |-> "event", sens |-> sens]}, body : S,
   answers : Answers]
OnA == {<<"any", "a">>}

Element(by, choices, value) == [by |-> by, choices |-> choices, value |-> value]
Aggregate(list, bounds) == [op |-> "aggregate", list |-> list, bounds |-> bounds]
Positions == <<Element("position", {}, "p"), Element("position", {}, "q")>>
Others == <<Element("others", {}, "o")>>
Named == <<Element("choice", {2}, "p"), Element("choice", {0}, "q")>>
Decimal(digits, exponent) == [op |-> "decimal", digits |-> digits, exponent |-> exponent]
Based(base, digits, exponent) ==
  [op |-> "based", base |-> base, digits |-> digits, exponent |-> exponent]
None == Vhdl!NoExponent
Bar == Vhdl!Underline

Values ==
  {Aggregate(Positions, To(1, 2)), Aggregate(Positions, Down(1, 0)),
   Aggregate(Positions \o Others, To(0, 3)), Aggregate(Named \o Others, Down(3, 0)),
   Aggregate(Others, Down(1, 0)),
   Decimal(<<1, 2>>, None), Based(2, <<1, 0, 1>>, None), Based(8, <<1, 7>>, None),
   Based(16, <<2, 15>>, None), Based(16, <<1, Bar, 2>>, None), Based(16, <<1>>, 0),
   [op |-> "bits", digits |-> <<1, 0, Bar, 1>>]}

Concurrent(S) ==
  [kind : {"vhdl assignment"}, name : {"assign"}, at : {[ctl |-> "event", sens |-> {}]},
   body : {<<s>> : s \in S}, answers : Answers]
Waveform(op, alts) == [op |-> op, lhs |-> "y", alts |-> alts]

VhdlConstructs ==
  Process(OnA, UNION {InLoops(s) : s \in OneV \cup TwoV})
  \cup Process({}, {<<w, Assertion("c"), s, Assertion(NoName)>> :
                      w \in {Waits(OnA, NoName, FALSE), Waits({}, "u", FALSE),
                             Waits(OnA, "u", TRUE)},
                      s \in {Set("a"), Call, Alts("if", <<Alt("c", <<Waits({}, NoName, TRUE)>>)>>)}})
  \cup Process(OnA, {<<Assigned(v)>> : v \in Values})
  \cup [kind : {"vhdl subprogram"}, name : {"f"}, at : {[ctl |-> "event", sens |-> {}]},
        body : {<<ForV(NoName, r, <<Alts("if", <<Alt("c", <<ReturnN>>)>>), Set("a")>>), ReturnN>> :
                  r \in Ranges},
        answers : Answers]
  \cup Concurrent({Waveform("when", <<Alt("c", <<Set("y")>>), Alt("d", <<Set("y")>>), Alt(NoName, <<Set("y")>>)>>),
                   Waveform("when", <<Alt(NoName, <<Set("y")>>)>>),
                   Waveform("with", <<Alt("k", <<Set("y")>>), Alt(NoName, <<[Set("y") EXCEPT !.value = Decimal(<<3>>, None)]>>)>>)})

MCConstructs == VerilogConstructs \cup VhdlConstructs

\* An exit with a condition.
ExitConstructs ==
  Process(OnA, {<<ForV("L", RangeOf("bounds", To(0, 1)), <<Leave("exit", NoName, "c"), Set("y")>>)>>})
===============================================================================
