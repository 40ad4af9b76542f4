---------------------------- MODULE ValueMeaning ----------------------------
(***************************************************************************)
(* What a value means, for the modules that check the translation of       *)
(* Verilog values.  A vector is the sequence of its digits "0", "1", "x"   *)
(* and "z", leftmost first.  Verilog(e, env) is the meaning IEEE 1364      *)
(* gives to a source expression, Hif(v, env) the meaning of a HIF value    *)
(* under a valuation of the signals and parameters.                        *)
(*                                                                         *)
(* Nodes of both kinds are records [k, op, args, d, n, dir]: the kind, the *)
(* operator or the name, the operands, the digits of a literal, a number   *)
(* and a direction; a field a kind has no use for is empty.                *)
(***************************************************************************)
EXTENDS Integers, Sequences, SequencesExt, Functions

CONSTANTS IntWidth,   \* the bits of an int: 32 in the code
          Vectors,    \* name of a vector -> <<left bound, right bound>>
          Parameters  \* name of a parameter -> its value

Node(k, op, args) == [k |-> k, op |-> op, args |-> args, d |-> <<>>, n |-> 0, dir |-> ""]
Number(n) == [Node("int", "", <<>>) EXCEPT !.n = n]
Name(x) == Node("id", x, <<>>)
Expression(op, args) == Node("expression", op, args)

(***************************************************************************)
(* Four-valued logic.                                                      *)
(***************************************************************************)
Not4(p) == IF p = "0" THEN "1" ELSE IF p = "1" THEN "0" ELSE "x"
And4(p, q) == IF "0" \in {p, q} THEN "0" ELSE IF {p, q} = {"1"} THEN "1" ELSE "x"
Or4(p, q) == Not4(And4(Not4(p), Not4(q)))
Xor4(p, q) == IF {p, q} \subseteq {"0", "1"} THEN (IF p = q THEN "0" ELSE "1") ELSE "x"
CaseEq(p, q) == IF p = q THEN "1" ELSE "0"

Zip4(op(_, _), v, w) == [i \in 1..Len(v) |-> op(v[i], w[i])]
Bitwise4(op(_), v) == [i \in 1..Len(v) |-> op(v[i])]
\* A reduction never yields "z".
Reduce(op(_, _), v) == << Not4(Not4(FoldLeft(op, Head(v), Tail(v)))) >>
Truth(v) == IF "1" \in Range(v) THEN "1" ELSE IF Range(v) = {"0"} THEN "0" ELSE "x"

\* The digits of a number in w bits, and the number of a vector without unknowns.
Bits(n, w) == [i \in 1..w |-> IF (n \div 2^(w - i)) % 2 = 1 THEN "1" ELSE "0"]
RECURSIVE Unsigned(_)
Unsigned(v) == IF v = <<>> THEN 0 ELSE 2 * Unsigned(Front(v)) + (IF Last(v) = "1" THEN 1 ELSE 0)
Signed(v) == IF Head(v) = "1" THEN Unsigned(v) - 2^Len(v) ELSE Unsigned(v)
Known(v) == Range(v) \subseteq {"0", "1"}

\* Right shift by n places; a negative number of places shifts to the left.
Shifted(v, n) == [i \in 1..Len(v) |-> IF i - n \in 1..Len(v) THEN v[i - n] ELSE "0"]
Unknown(v) == [i \in 1..Len(v) |-> "x"]

(***************************************************************************)
(* Integer expressions: indices, bounds and repetition counts.             *)
(***************************************************************************)
RECURSIVE Integer(_, _)
Integer(e, env) ==
    CASE e.k = "int" -> e.n
      [] e.k = "id"  -> IF e.op \in DOMAIN Parameters THEN Parameters[e.op] ELSE env[e.op]
      [] e.op = "+"  -> Integer(e.args[1], env) + Integer(e.args[2], env)
      [] e.op = "-"  -> Integer(e.args[1], env) - Integer(e.args[2], env)

RECURSIVE Names(_)
Names(e) == (IF e.k = "id" THEN {e.op} ELSE {})
            \cup UNION {Names(e.args[i]) : i \in DOMAIN e.args}
IsConstant(e) == Names(e) \subseteq DOMAIN Parameters

(***************************************************************************)
(* The elements of a vector.                                               *)
(***************************************************************************)
Descending(x) == Vectors[x][1] >= Vectors[x][2]
Position(x, i) == IF Descending(x) THEN Vectors[x][1] - i + 1 ELSE i - Vectors[x][1] + 1
Element(x, i, env) == IF Position(x, i) \in DOMAIN env[x] THEN env[x][Position(x, i)] ELSE "x"
Elements(x, indices, env) == [j \in DOMAIN indices |-> Element(x, indices[j], env)]

\* The indices from l to r, one way or the other.
Upwards(l, r) == [j \in 1..(IF r >= l THEN r - l + 1 ELSE 0) |-> l + j - 1]
Between(l, r) == IF l <= r THEN Upwards(l, r) ELSE Reverse(Upwards(r, l))

(***************************************************************************)
(* A Verilog literal: digit by digit, from the right, padded with the      *)
(* leftmost digit when that is x or z and with zeroes otherwise.           *)
(***************************************************************************)
DigitValue == ("0" :> 0) @@ ("1" :> 1) @@ ("2" :> 2) @@ ("3" :> 3) @@ ("5" :> 5)
              @@ ("7" :> 7) @@ ("a" :> 10) @@ ("d" :> 13) @@ ("f" :> 15)
BitsOf(base) == CASE base = "b" -> 1 [] base = "o" -> 3 [] base = "h" -> 4
DigitBit(digit, j) == CASE digit = "x" -> "x"
                        [] digit \in {"z", "?"} -> "z"
                        [] OTHER -> Bits(DigitValue[digit], 4)[4 - j]
DecimalValue(ds) == FoldLeft(LAMBDA n, c : 10 * n + DigitValue[c], 0, ds)
Literal(base, ds, width) ==
    IF base \in {"d", "none"} THEN Bits(DecimalValue(ds), width)
    ELSE LET k == BitsOf(base)
             Digit(i) == IF i \div k < Len(ds) THEN DigitBit(ds[Len(ds) - i \div k], i % k)
                         ELSE IF Head(ds) \in {"x", "z", "?"} THEN DigitBit(Head(ds), 0) ELSE "0"
         IN  [j \in 1..width |-> Digit(width - j)]

(***************************************************************************)
(* The meaning of a source expression.                                     *)
(***************************************************************************)
UnaryMeaning(op, v) ==
    CASE op = "~"  -> Bitwise4(Not4, v)
      [] op = "!"  -> << Not4(Truth(v)) >>
      [] op = "&"  -> Reduce(And4, v)
      [] op = "|"  -> << Truth(v) >>
      [] op = "^"  -> Reduce(Xor4, v)
      [] op = "~&" -> << Not4(Reduce(And4, v)[1]) >>
      [] op = "~|" -> << Not4(Truth(v)) >>
      [] op = "~^" -> << Not4(Reduce(Xor4, v)[1]) >>

BinaryMeaning(op, v, w) ==
    CASE op = "&"   -> Zip4(And4, v, w)
      [] op = "|"   -> Zip4(Or4, v, w)
      [] op = "^"   -> Zip4(Xor4, v, w)
      [] op = "~^"  -> Bitwise4(Not4, Zip4(Xor4, v, w))
      [] op = "&&"  -> << And4(Truth(v), Truth(w)) >>
      [] op = "||"  -> << Or4(Truth(v), Truth(w)) >>
      [] op = "===" -> << CaseEq(v, w) >>
      [] op = ">>"  -> IF Known(w) THEN Shifted(v, Unsigned(w)) ELSE Unknown(v)
      [] op = "<<"  -> IF Known(w) THEN Shifted(v, 0 - Unsigned(w)) ELSE Unknown(v)

\* A condition that is neither true nor false merges the two values.
Merge(c, v, w) == CASE c = "1" -> v [] c = "0" -> w
                    [] OTHER -> [i \in 1..Len(v) |-> IF v[i] = w[i] /\ v[i] # "z" THEN v[i] ELSE "x"]

GateMeaning(kind, ins) ==
    LET All(op(_, _)) == FoldLeft(op, Head(ins), Tail(ins))
    IN  CASE kind = "and"  -> All(And4)          [] kind = "nand" -> Not4(All(And4))
          [] kind = "or"   -> All(Or4)           [] kind = "nor"  -> Not4(All(Or4))
          [] kind = "xor"  -> All(Xor4)          [] kind = "xnor" -> Not4(All(Xor4))
          [] kind = "not"  -> Not4(Head(ins))    [] kind = "buf"  -> Not4(Not4(Head(ins)))

RECURSIVE Verilog(_, _)
Verilog(e, env) ==
    LET V(i) == Verilog(e.args[i], env)
        I(i) == Integer(e.args[i], env)
        x    == e.args[1].op
    IN CASE e.k = "number" -> Literal(e.op, e.d, IF e.n = 0 THEN IntWidth ELSE e.n)
         [] e.k = "id"     -> env[e.op]
         [] e.k = "unary"  -> UnaryMeaning(e.op, V(1))
         [] e.k = "binary" -> BinaryMeaning(e.op, V(1), V(2))
         [] e.k = "cond"   -> Merge(Truth(V(1)), V(2), V(3))
         [] e.k = "concat" -> FlattenSeq([i \in DOMAIN e.args |-> V(i)])
         [] e.k = "repeat" -> FlattenSeq([i \in 1..I(1) |-> V(2)])
         [] e.k = "index"  -> << Element(x, I(2), env) >>
         [] e.k = "part"   -> Elements(x, Between(I(2), I(3)), env)
         [] e.k = "plus"   -> Elements(x, IF Descending(x) THEN Between(I(2) + I(3) - 1, I(2))
                                          ELSE Between(I(2), I(2) + I(3) - 1), env)
         [] e.k = "minus"  -> Elements(x, IF Descending(x) THEN Between(I(2), I(2) - I(3) + 1)
                                          ELSE Between(I(2) - I(3) + 1, I(2)), env)
         [] e.k = "range"  -> Between(I(1), I(2))
         [] e.k = "gate"   -> [o \in 1..e.n |->
                                  GateMeaning(e.op, [i \in DOMAIN e.args |-> V(i)[1]])]

(***************************************************************************)
(* The meaning of a HIF value.  A logical operator has none over vectors,  *)
(* a shift takes the places its operand's type gives, a conditional merges *)
(* its values only when it is marked as a logic one, and a span names the  *)
(* indices its direction gives.                                            *)
(***************************************************************************)
Spanned(v, env) ==
    LET l == Integer(v.args[1], env)
        r == Integer(v.args[2], env)
    IN  IF v.dir = "upto" THEN Upwards(l, r) ELSE Reverse(Upwards(r, l))

HifUnary(op, v) ==
    CASE op = "bnot"  -> Bitwise4(Not4, v)
      [] op = "andrd" -> Reduce(And4, v)
      [] op = "orrd"  -> Reduce(Or4, v)
      [] op = "xorrd" -> Reduce(Xor4, v)

HifBinary(op, v, w, places) ==
    CASE op = "band"    -> Zip4(And4, v, w)
      [] op = "bor"     -> Zip4(Or4, v, w)
      [] op = "bxor"    -> Zip4(Xor4, v, w)
      [] op = "case_eq" -> << CaseEq(v, w) >>
      [] op = "concat"  -> v \o w
      [] op = "srl"     -> IF Known(w) THEN Shifted(v, places) ELSE Unknown(v)
      [] op = "sll"     -> IF Known(w) THEN Shifted(v, 0 - places) ELSE Unknown(v)

RECURSIVE Hif(_, _)
Hif(v, env) ==
    LET H(i) == Hif(v.args[i], env)
        Places == IF Len(v.args) = 2 /\ v.args[2].k # "cast" /\ v.args[2].op = "s"
                  THEN Signed(H(2)) ELSE Unsigned(H(2))
    IN CASE v.k = "int"    -> Bits(v.n, IntWidth)
         [] v.k \in {"bit", "bits"} -> [i \in DOMAIN v.d |-> IF v.d[i] = "Z" THEN "z" ELSE v.d[i]]
         [] v.k = "id"     -> env[v.op]
         [] v.k = "cast"   -> H(1)
         [] v.k = "expression" ->
              IF v.op \in {"not", "and", "or"} THEN << "no meaning" >>
              ELSE IF Len(v.args) = 1 THEN HifUnary(v.op, H(1)) ELSE HifBinary(v.op, H(1), H(2), Places)
         [] v.k = "when"   -> IF v.op = "logic" THEN Merge(H(1)[1], H(2), H(3))
                              ELSE IF H(1)[1] = "1" THEN H(2) ELSE H(3)
         [] v.k = "repeat" -> FlattenSeq([i \in 1..Integer(v.args[1], env) |-> H(2)])
         [] v.k = "member" -> << Element(v.args[1].op, Integer(v.args[2], env), env) >>
         [] v.k = "slice"  -> Elements(v.args[1].op, H(2), env)
         [] v.k = "range"  -> Spanned(v, env)
         [] v.k = "assigns" -> FlattenSeq([i \in DOMAIN v.args |-> H(i)])
=============================================================================
