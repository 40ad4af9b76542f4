-------------------------- MODULE MCVerilogValues ---------------------------
(***************************************************************************)
(* Source expressions of one and two operators over two vectors of two     *)
(* bits, a bit, a signed vector and a descending and an ascending vector   *)
(* of four bits, and literals of every base.  An int has four bits, so the *)
(* literals reach its limit.                                               *)
(***************************************************************************)
EXTENDS VerilogValues

MCVectors == [x \in {"a", "b", "s"} |-> <<1, 0>>] @@ ("v" :> <<3, 0>>) @@ ("u" :> <<0, 3>>)
MCParameters == ("N" :> 2) @@ ("M" :> 3)
MCGenvars == {"g"}

Digit == {"0", "1", "x", "z"}
Two == {<<p, q>> : p, q \in Digit}
MCValuations ==
    LET Base == [a : Two, b : {<<"1", "0">>, <<"1", "1">>, <<"x", "z">>, <<"0", "0">>}, c : {<<d>> : d \in Digit},
                 s : {<<"0", "1">>, <<"1", "1">>, <<"1", "0">>, <<"x", "1">>},
                 v : {<<"0", "1", "x", "z">>}, u : {<<"z", "x", "1", "0">>}, i : 1..2]
    IN  {env @@ ("g" :> 1) : env \in {e \in Base : e.s = <<"0", "1">> \/ e.c = <<"0">>}}

Source(k, op, args) == Node(k, op, args)
N(n) == Number(n)
Literal4(base, ds, width) == [Node("number", base, <<>>) EXCEPT !.d = ds, !.n = width]
Gate(kind, ins, outputs) == [Node("gate", kind, ins) EXCEPT !.n = outputs]

a == Name("a")
b == Name("b")
c == Name("c")
Unaries == {Source("unary", op, <<v>>) : op \in {"~", "!", "&", "|", "^", "~&", "~|", "~^"}, v \in {a, c}}
Binaries == {Source("binary", op, <<a, b>>) : op \in {"&", "|", "^", "~^", "&&", "||", "==="}}
            \cup {Source("binary", op, <<a, n>>) : op \in {">>", "<<"}, n \in {b, Name("s")}}
            \cup {Source("binary", op, <<c, a>>) : op \in {"&&", "||"}}
            \cup {Source("binary", ">>", <<Name("v"), Name("s")>>)}
Conditionals == {Source("cond", "", <<p, a, b>>) : p \in {a, c, Source("binary", "&&", <<a, c>>)}}
Concatenations == {Source("concat", "", <<a, c, b>>), Source("concat", "", <<c, a>>), Source("concat", "", <<a>>)}

\* Literals: all bases; what the program refuses or misreads is in the README.
Sized == {Literal4("b", ds, w) : ds \in {<<"1">>, <<"1", "0">>, <<"x", "1">>, <<"z", "0", "1">>}, w \in 1..5}
         \cup {Literal4("b", <<"1", "?">>, w) : w \in 1..3}
         \cup {Literal4("b", <<"?">>, 1), Literal4("b", <<"?", "1">>, 1), Literal4("b", <<"?", "1">>, 2)}
         \cup {Literal4("o", ds, w) : ds \in {<<"5">>, <<"x", "3">>, <<"z">>, <<"7", "0">>}, w \in {1, 2, 4, 7}}
         \cup {Literal4("h", ds, w) : ds \in {<<"a">>, <<"x">>, <<"z", "f">>, <<"d", "2">>}, w \in {1, 3, 4, 9}}
         \cup {Literal4("d", ds, w) : ds \in {<<"0">>, <<"5">>, <<"7">>}, w \in {1, 3, 6}}
Unsized == {Literal4("none", <<"5">>, 0), Literal4("d", <<"7">>, 0), Literal4("h", <<"7">>, 0), Literal4("o", <<"5">>, 0),
            Literal4("b", <<"1", "0">>, 0), Literal4("b", <<"1">>, 0)}
Repeated == {Source("repeat", "", <<n, v>>) :
                 n \in {N(1), N(3), Name("N"), Name("g"), Source("expression", "-", <<Name("M"), N(1)>>),
                        Source("expression", "+", <<N(1), N(1)>>), Name("i")},
                 v \in {a, Literal4("b", <<"1", "?">>, 2), Literal4("b", <<"?">>, 1), Literal4("b", <<"1">>, 1)}}

Less1(x) == Source("expression", "-", <<Name(x), N(1)>>)
v4 == Name("v")
u4 == Name("u")
Selections ==
    {Source("index", "", <<w, n>>) : w \in {v4, u4}, n \in {N(0), N(3), Name("i")}}
    \cup {Source("part", "", <<v4, n, N(0)>>) : n \in {N(0), N(1), N(3), Less1("M")}}
    \cup {Source("part", "", <<u4, N(0), n>>) : n \in {N(0), N(2), N(3), Less1("N")}}
    \cup {Source("plus", "", <<v4, n, w>>) : n \in {N(0), N(1), Name("i"), Name("N")}, w \in {N(1), N(2), Name("N")}}
    \cup {Source("minus", "", <<v4, n, w>>) : n \in {N(3), N(1), Name("i"), Name("N")}, w \in {N(1), N(2), Name("N")}}
Ranges == {Source("range", "", <<l, r>>) : l \in {N(0), N(3), Less1("N"), Name("M")}, r \in {N(0), N(2), Less1("M")}}
Gates == {Gate(kind, ins, 1) : kind \in {"and", "nand", "or", "nor", "xor", "xnor"},
                               ins \in {<<c, Source("index", "", <<v4, N(2)>>)>>,
                                        <<c, Source("unary", "~", <<c>>), Source("index", "", <<v4, Name("i")>>)>>}}
         \cup {Gate("not", <<c>>, outputs) : outputs \in 1..2}
         \cup {Gate("buf", <<Source("index", "", <<v4, N(2)>>)>>, outputs) : outputs \in 1..2}
Nested == {Source("unary", op, <<Source("binary", "&&", <<e, b>>)>>) : op \in {"!", "~"}, e \in Concatenations}
          \cup {Source("cond", "", <<Source("unary", op, <<a>>), Source("concat", "", <<c, c>>), b>>) : op \in {"!", "~", "~^"}}

MCSources == Unaries \cup Binaries \cup Conditionals \cup Concatenations \cup Sized \cup Unsized
             \cup Repeated \cup Selections \cup Ranges \cup Gates \cup Nested
=============================================================================
