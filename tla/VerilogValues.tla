--------------------------- MODULE VerilogValues ----------------------------
(***************************************************************************)
(* How verilog2hif translates a value: the parser's actions for literals,  *)
(* operators, concatenations, selections and gates, then what the visitors *)
(* of step 1 and step 2 make of them.                                      *)
(*                                                                         *)
(*   parse    verilog_parser.cpp: parse_DecBasedNumber, parse_Expression*, *)
(*            parse_Concatenation, parse_RangeExpression*, parse_Gate...   *)
(*   step 1   FixDescription_1.cpp: visitBitValue, visitBitvectorValue,    *)
(*            visitRange, visitWhenAlt, _fixiteratedConcat                 *)
(*   step 2   FixDescription_2.cpp: visitExpression, visitSlice            *)
(*                                                                         *)
(* One behaviour translates one source expression.  ValuesKeepTheirMeaning *)
(* compares what comes out with what Verilog says went in.                 *)
(***************************************************************************)
EXTENDS ValueMeaning

CONSTANTS Sources,     \* the source expressions
          Valuations,  \* what the signals may hold
          Genvars,     \* the genvars, which step 1 still sees as variables
          NewBit       \* the digit of a BitValue that is given none

VARIABLES source, value, stage

vars == <<source, value, stage>>

(***************************************************************************)
(* Literals.  atoi and the int stream are exact below 2^(IntWidth-1); an   *)
(* int's remainders by two are the bits of its absolute value.             *)
(***************************************************************************)
Truncated(n) == Signed(Bits(n % 2^IntWidth, IntWidth))
Abs(n) == IF n < 0 THEN 0 - n ELSE n
convertToBinary(n, numBits) == Bits(Abs(n), numBits)
Atoi(ds) == Truncated(DecimalValue(ds))

\* The lexer has turned "?" into the don't-care "-"; as a character it counts 45.
CharValue(c) == IF c = "?" THEN 45 ELSE DigitValue[c]
SizedDigit(c, k) == IF c \in {"x", "z"} THEN [i \in 1..k |-> c] ELSE convertToBinary(CharValue(c), k)

Digits(base, ds, numberOfBits) ==
    CASE base = "d" -> convertToBinary(Atoi(ds), numberOfBits)
      [] base = "b" -> [i \in DOMAIN ds |-> IF ds[i] = "?" THEN "-" ELSE ds[i]]
      [] OTHER      -> FlattenSeq([i \in DOMAIN ds |-> SizedDigit(ds[i], BitsOf(base))])

\* The padding that forgets unknown digits.
PaddingWithZeroes(front) == "0"

Padding(front) == IF front \in {"x", "z"} THEN front ELSE "0"

Fitted(ds, numberOfBits) ==
    IF Len(ds) < numberOfBits
    THEN [i \in 1..(numberOfBits - Len(ds)) |-> Padding(Head(ds))] \o ds
    ELSE SubSeq(ds, Len(ds) - numberOfBits + 1, Len(ds))

BitvectorValue(ds) == [Node("bits", "", <<>>) EXCEPT !.d = ds]
BitValue(digit) == [Node("bit", "", <<>>) EXCEPT !.d = <<digit>>]
BitDigits == {"0", "1", "x", "z"}

DecBasedDigits(base, ds, numberOfBits) == Fitted(Digits(base, ds, numberOfBits), numberOfBits)

\* One digit that is no bit, "-", ends the program.
UnexpectedBit(ds) == Len(ds) = 1 /\ Head(ds) \notin BitDigits

parse_DecBasedNumber(base, ds, numberOfBits) ==
    LET result == DecBasedDigits(base, ds, numberOfBits)
    IN  IF Len(result) > 1 THEN BitvectorValue(result) ELSE BitValue(Head(result))

\* Without a size: unknown digits of an octal or hexadecimal number become
\* zeroes, and one binary digit that is no bit leaves the value as it was made.
Zeroed(ds) == [i \in DOMAIN ds |-> IF ds[i] \in {"x", "z"} THEN "0" ELSE ds[i]]
parse_BasedNumber(base, ds) ==
    CASE base = "b" /\ Len(ds) > 1 -> BitvectorValue(Digits("b", ds, Len(ds)))
      [] base = "b" /\ Len(ds) = 1 -> BitValue(IF Head(ds) \in BitDigits THEN Head(ds) ELSE NewBit)
      [] base = "h" -> Number(Unsigned(FlattenSeq([i \in DOMAIN ds |-> SizedDigit(Zeroed(ds)[i], 4)])))
      [] OTHER      -> Number(Atoi(Zeroed(ds)))

parse_DecNumber(ds) == Number(Atoi(ds))

ParseNumber(e) == CASE e.op = "none" -> parse_DecNumber(e.d)
                    [] e.op # "none" /\ e.n = 0 -> parse_BasedNumber(e.op, e.d)
                    [] OTHER -> parse_DecBasedNumber(e.op, e.d, e.n)

(***************************************************************************)
(* Operators, by the symbol the grammar reads.                             *)
(***************************************************************************)
UnaryOperator == ("!" :> "not") @@ ("~" :> "bnot") @@ ("&" :> "andrd") @@ ("|" :> "orrd")
                 @@ ("^" :> "xorrd") @@ ("~^" :> "xorrd")
BinaryOperator == ("&" :> "band") @@ ("|" :> "bor") @@ ("^" :> "bxor") @@ ("~^" :> "bxor")
                  @@ ("&&" :> "and") @@ ("||" :> "or") @@ ("===" :> "case_eq")
                  @@ (">>" :> "srl") @@ ("<<" :> "sll")

parse_ExpressionUnaryOperator(op, v, negate) ==
    IF negate THEN Expression("bnot", <<Expression(op, <<v>>)>>) ELSE Expression(op, <<v>>)
parse_ExpressionBinaryOperator(v, op, w, negate) ==
    IF negate THEN Expression("bnot", <<Expression(op, <<v, w>>)>>) ELSE Expression(op, <<v, w>>)
parse_ExpressionNandOperator(v) == Expression("bnot", <<Expression("andrd", <<v>>)>>)
parse_ExpressionNorOperator(v) == Expression("bnot", <<Expression("orrd", <<v>>)>>)

ParseUnary(op, v) ==
    CASE op = "~&" -> parse_ExpressionNandOperator(v)
      [] op = "~|" -> parse_ExpressionNorOperator(v)
      [] OTHER     -> parse_ExpressionUnaryOperator(UnaryOperator[op], v, op = "~^")
ParseBinary(op, v, w) == parse_ExpressionBinaryOperator(v, BinaryOperator[op], w, op = "~^")

\* Marked as a logic conditional unless the command line asks for a plain one.
parse_ExpressionTernaryOperator(c, v, w) == Node("when", "logic", <<c, v, w>>)

Concat(v, w) == Expression("concat", <<v, w>>)
parse_Concatenation(vs) == FoldLeft(Concat, Head(vs), Tail(vs))
parse_MultipleConcatenation(n, v) ==
    IF n.k = "int" THEN parse_Concatenation([i \in 1..n.n |-> v]) ELSE Node("repeat", "", <<n, v>>)

(***************************************************************************)
(* Spans and selections.                                                   *)
(***************************************************************************)
Span(l, r, dir) == [Node("range", "", <<l, r>>) EXCEPT !.dir = dir]

parse_Range(l, r) ==
    Span(l, r, CASE l.k # "int" -> "downto"
                 [] l.k = "int" /\ r.k # "int" -> "upto"
                 [] OTHER -> IF l.n < r.n THEN "upto" ELSE "downto")
parse_RangeExpression(l, r) == Span(l, r, "downto")
parse_RangeExpressionPO_POS(b, w) ==
    Span(Expression("-", <<Expression("+", <<b, w>>), Number(1)>>), b, "downto")
parse_RangeExpressionPO_NEG(b, w) ==
    Span(b, Expression("+", <<Expression("-", <<b, w>>), Number(1)>>), "downto")

\* A select by a range is a slice, any other a member.
parse_PrimaryListOfMemberOrSlice(prefix, v) ==
    Node(IF v.k = "range" THEN "slice" ELSE "member", "", <<prefix, v>>)

(***************************************************************************)
(* Gates: the inputs folded by the gate's operator, negated for some, and  *)
(* the result driven to every output.                                      *)
(***************************************************************************)
ReduceOp == [kind \in {"and", "nand"} |-> "band"] @@ [kind \in {"or", "nor"} |-> "bor"]
            @@ [kind \in {"xor", "xnor"} |-> "bxor"]
NegatedGates == {"nand", "nor", "xnor", "not"}

parse_GateInstantiation(kind, ins, outputs) ==
    LET Fold(v, w) == parse_ExpressionBinaryOperator(v, ReduceOp[kind], w, FALSE)
        reduced == IF kind \in DOMAIN ReduceOp THEN FoldLeft(Fold, Head(ins), Tail(ins)) ELSE Head(ins)
        driver  == IF kind \in NegatedGates
                   THEN parse_ExpressionUnaryOperator("bnot", reduced, FALSE) ELSE reduced
    IN  Node("assigns", "", [o \in 1..outputs |-> driver])

RECURSIVE ParseValue(_)
ParseValue(e) ==
    LET P(i) == ParseValue(e.args[i])
        Select(v) == parse_PrimaryListOfMemberOrSlice(P(1), v)
    IN CASE e.k = "number" -> ParseNumber(e)
         [] e.k \in {"id", "int"} -> e
         [] e.k = "expression" -> Expression(e.op, <<P(1), P(2)>>)
         [] e.k = "unary"  -> ParseUnary(e.op, P(1))
         [] e.k = "binary" -> ParseBinary(e.op, P(1), P(2))
         [] e.k = "cond"   -> parse_ExpressionTernaryOperator(P(1), P(2), P(3))
         [] e.k = "concat" -> parse_Concatenation([i \in DOMAIN e.args |-> P(i)])
         [] e.k = "repeat" -> parse_MultipleConcatenation(P(1), P(2))
         [] e.k = "index"  -> Select(P(2))
         [] e.k = "part"   -> Select(parse_RangeExpression(P(2), P(3)))
         [] e.k = "plus"   -> Select(parse_RangeExpressionPO_POS(P(2), P(3)))
         [] e.k = "minus"  -> Select(parse_RangeExpressionPO_NEG(P(2), P(3)))
         [] e.k = "range"  -> parse_Range(P(1), P(2))
         [] e.k = "gate"   -> parse_GateInstantiation(e.op, [i \in DOMAIN e.args |-> P(i)], e.n)

(***************************************************************************)
(* The types the visitors ask for: does a value have a bit or a vector.    *)
(***************************************************************************)
RECURSIVE IsVector(_)
IsVector(v) ==
    CASE v.k = "bits" -> TRUE
      [] v.k = "bit"  -> FALSE
      [] v.k = "id"   -> v.op \in DOMAIN Vectors
      [] v.k = "expression" ->
           /\ v.op \notin {"andrd", "orrd", "xorrd", "case_eq", "not", "and", "or"}
           /\ v.op = "concat" \/ \E i \in DOMAIN v.args : IsVector(v.args[i])
      [] v.k = "when"   -> IsVector(v.args[2])
      [] v.k = "member" -> FALSE
      [] OTHER -> TRUE

Orrd(v) == Expression("orrd", <<v>>)

(***************************************************************************)
(* Step 1, each visitor after the children of its object.                  *)
(***************************************************************************)
visitBitValue(v) == IF v.d = <<"-">> THEN BitValue("z") ELSE v

visitBitvectorValue(v) == [v EXCEPT !.d = [i \in DOMAIN @ |-> IF @[i] = "-" THEN "Z" ELSE @[i]]]

\* The sign of the simplified difference, or else which of the bounds is a literal.
visitRange(v) ==
    LET l == v.args[1]
        r == v.args[2]
        NoSignals == [x \in {} |-> 0]
        dir == CASE IsConstant(l) /\ IsConstant(r) ->
                      IF Integer(l, NoSignals) - Integer(r, NoSignals) <= 0 THEN "upto" ELSE "downto"
                 [] l.k = "int" /\ ~IsConstant(r) -> "upto"
                 [] OTHER -> "downto"
    IN  [v EXCEPT !.dir = dir]

visitWhenAlt(v) == IF IsVector(v.args[1]) THEN [v EXCEPT !.args[1] = Orrd(@)] ELSE v

\* A count that is not a literal may only read parameters and genvars.
_checkReplicationCount(v) == Names(v.args[1]) \subseteq DOMAIN Parameters \cup Genvars

\* The literals of the count alone are folded: parameters are left to the instances.
_fixiteratedConcat(v) ==
    IF Names(v.args[1]) = {} /\ v.args[2].k \in {"bit", "bits"}
    THEN BitvectorValue(FlattenSeq([i \in 1..Integer(v.args[1], <<>>) |-> v.args[2].d]))
    ELSE v

RECURSIVE Visit1(_)
Visit1(w) ==
    LET v == [w EXCEPT !.args = [i \in DOMAIN @ |-> Visit1(@[i])]]
    IN CASE v.k = "bit"    -> visitBitValue(v)
         [] v.k = "bits"   -> visitBitvectorValue(v)
         [] v.k = "range"  -> visitRange(v)
         [] v.k = "when"   -> visitWhenAlt(v)
         [] v.k = "repeat" -> _fixiteratedConcat(v)
         [] OTHER -> v

RECURSIVE Accepted(_)
Accepted(v) == /\ v.k = "repeat" => _checkReplicationCount(v)
               /\ \A i \in DOMAIN v.args : Accepted(v.args[i])

(***************************************************************************)
(* Step 2.                                                                 *)
(***************************************************************************)
BitwiseConversion == ("not" :> "bnot") @@ ("and" :> "band") @@ ("or" :> "bor")
SignedNames == {"s"}

visitExpression(v) ==
    CASE v.op \in {"srl", "sll"} /\ v.args[2].k = "id" /\ v.args[2].op \in SignedNames ->
            [v EXCEPT !.args[2] = Node("cast", "unsigned", <<@>>)]
      [] v.op \in DOMAIN BitwiseConversion ->
            Expression(BitwiseConversion[v.op],
                       [i \in DOMAIN v.args |-> IF IsVector(v.args[i]) THEN Orrd(v.args[i]) ELSE v.args[i]])
      [] OTHER -> v

\* The fix that takes equal bounds for ascending ones.
fixRangeBySign(span, dir) ==
    [span EXCEPT !.dir = IF Integer(span.args[1], <<>>) > Integer(span.args[2], <<>>) THEN "downto" ELSE "upto"]

\* Literal bounds order the slice, others take the direction of the vector.
fixRange(span, dir) ==
    LET l == span.args[1]
        r == span.args[2]
        ordered == l.k = "int" /\ r.k = "int" /\ l.n # r.n
    IN  [span EXCEPT !.dir = IF ordered THEN (IF l.n > r.n THEN "downto" ELSE "upto") ELSE dir]

\* The bounds are simplified first.
Simplified(e) == IF Names(e) = {} THEN Number(Integer(e, <<>>)) ELSE e
visitSlice(v) ==
    LET span == [v.args[2] EXCEPT !.args = [i \in DOMAIN @ |-> Simplified(@[i])]]
        dir  == IF Descending(v.args[1].op) THEN "downto" ELSE "upto"
    IN  [v EXCEPT !.args[2] = fixRange(span, dir)]

RECURSIVE Visit2(_)
Visit2(w) ==
    LET v == [w EXCEPT !.args = [i \in DOMAIN @ |-> Visit2(@[i])]]
    IN CASE v.k = "expression" -> visitExpression(v)
         [] v.k = "slice" -> visitSlice(v)
         [] OTHER -> v

(***************************************************************************)
(* The translation of one expression.                                      *)
(***************************************************************************)
Init == /\ source \in Sources
        /\ value = source
        /\ stage = "source"

\* The parser reaches every literal of the source.
RECURSIVE UnexpectedBits(_)
UnexpectedBits(e) ==
    \/ /\ e.k = "number" /\ e.op # "none" /\ e.n > 0
       /\ UnexpectedBit(DecBasedDigits(e.op, e.d, e.n))
    \/ \E i \in DOMAIN e.args : UnexpectedBits(e.args[i])

Parse == /\ stage = "source"
         /\ ~UnexpectedBits(source)
         /\ value' = ParseValue(source)
         /\ stage' = "parsed"
         /\ UNCHANGED source

\* messageError ends the program in the parser.
ParseError == /\ stage = "source"
              /\ UnexpectedBits(source)
              /\ stage' = "error"
              /\ UNCHANGED <<source, value>>

Step1 == /\ stage = "parsed"
         /\ Accepted(value)
         /\ value' = Visit1(value)
         /\ stage' = "step1"
         /\ UNCHANGED source

Reject == /\ stage = "parsed"
          /\ ~Accepted(value)
          /\ stage' = "rejected"
          /\ UNCHANGED <<source, value>>

Step2 == /\ stage = "step1"
         /\ value' = Visit2(value)
         /\ stage' = "done"
         /\ UNCHANGED source

Next == Parse \/ ParseError \/ Step1 \/ Reject \/ Step2

Spec == Init /\ [][Next]_vars

(***************************************************************************)
(* Properties.                                                             *)
(***************************************************************************)
RECURSIVE Counts(_)
Counts(e) == (IF e.k = "repeat" THEN {e.args[1]} ELSE {}) \cup UNION {Counts(e.args[i]) : i \in DOMAIN e.args}
Legal(e) == \A n \in Counts(e) : Names(n) \cap (DOMAIN Vectors \cup {"i"}) = {}

\* Legal Verilog that the program does not support: one bit whose digit is "?".
RECURSIVE OneQuestion(_)
OneQuestion(e) == \/ e.k = "number" /\ e.op = "b" /\ e.n = 1 /\ Last(e.d) = "?"
                  \/ \E i \in DOMAIN e.args : OneQuestion(e.args[i])

\* A value has one width at each step, so a literal without a size is extended to an int.
Extended(e, v) == IF e.k = "number" /\ e.n = 0
                  THEN [j \in 1..(IntWidth - Len(v)) |-> "0"] \o v ELSE v

\* The translated value means what the source expression means, whatever the
\* signals hold.  The parser stops exactly on a source with a bit whose one
\* digit is "?", and step 1 refuses a source exactly when it repeats a value
\* a number of times that the elaboration cannot know.
ValuesKeepTheirMeaning ==
    /\ stage = "error" => OneQuestion(source)
    /\ stage = "rejected" => ~Legal(source)
    /\ stage = "done" => /\ Legal(source)
                         /\ ~OneQuestion(source)
                         /\ \A env \in Valuations :
                               Extended(source, Hif(value, env)) = Verilog(source, env)

RECURSIVE Slices(_)
Slices(v) == (IF v.k = "slice" THEN {v} ELSE {}) \cup UNION {Slices(v.args[i]) : i \in DOMAIN v.args}

\* The span of every slice runs in the direction of the vector it selects from,
\* and it selects as many elements in every valuation: at least one.
SlicesFollowTheirVector ==
    stage = "done" =>
        \A v \in Slices(value) :
            /\ v.args[2].dir = IF Descending(v.args[1].op) THEN "downto" ELSE "upto"
            /\ \A env \in Valuations : Hif(v, env) # <<>>
=============================================================================
