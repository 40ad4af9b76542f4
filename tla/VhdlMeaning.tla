----------------------------- MODULE VhdlMeaning -----------------------------
(***************************************************************************)
(* What a VHDL process, subprogram or concurrent assignment promises, in   *)
(* the terms of StatementMeaning: a body is a sequence of statements.  The *)
(* values that a loop index takes and the values of literals and           *)
(* aggregates are part of the promise.                                     *)
(***************************************************************************)
EXTENDS StatementMeaning, Integers, SequencesExt, FiniteSetsExt

NoName == "none"
Underline == 16          \* "_" between two digits, which has no meaning
NoExponent == -1

-------------------------------------------------------------------------------
(* Ranges and values *)

UpTo(l, r) == [k \in 1 .. r - l + 1 |-> l + k - 1]
DownTo(l, r) == [k \in 1 .. l - r + 1 |-> l - k + 1]
Between(bounds) ==
  IF bounds.dir = "to" THEN UpTo(bounds.left, bounds.right) ELSE DownTo(bounds.left, bounds.right)

\* The values of a range in order, that of an attribute being its array's.
ValuesOf(range) ==
  IF range.form = "reverse_range" THEN Reverse(Between(range.bounds)) ELSE Between(range.bounds)

Number(base, digits) ==
  FoldLeft(LAMBDA n, d : base * n + d, 0, SelectSeq(digits, LAMBDA d : d # Underline))

Power(base, n) == FoldLeft(LAMBDA p, k : base * p, 1, [k \in 1 .. n |-> k])

Literal(e, base) ==
  Number(base, e.digits) * (IF e.exponent = NoExponent THEN 1 ELSE Power(base, e.exponent))

\* The elements without choices are those of the first indices in the order
\* of the array.
Elements(e) ==
  LET indices == Between(e.bounds)
      Own(i) == {k \in DOMAIN e.list :
                   IF e.list[k].by = "position" THEN indices[k] = i
                   ELSE e.list[k].by = "choice" /\ i \in e.list[k].choices}
      others == {k \in DOMAIN e.list : e.list[k].by = "others"}
  IN  [i \in {indices[k] : k \in DOMAIN indices} |->
         e.list[Min(IF Own(i) # {} THEN Own(i) ELSE others)].value]

Worth(e) ==
  CASE e.op = "name" -> [is |-> "Symbol", name |-> e.name]
    [] e.op = "decimal" -> [is |-> "IntValue", n |-> Literal(e, 10)]
    [] e.op = "based" -> [is |-> "IntValue", n |-> Literal(e, e.base)]
    [] e.op = "bits" ->
         [is |-> "BitvectorValue", bits |-> SelectSeq(e.digits, LAMBDA d : d # Underline)]
    [] e.op = "aggregate" -> [is |-> "Array", at |-> Elements(e)]

-------------------------------------------------------------------------------
(* Statements.  out is "exit" or "skip" while an exit or a next looks for  *)
(* the loop of its label, and "return" at the end of a subprogram.         *)

Chosen(s, r) == s.c = NoName \/ SaysYes(r)
Asked(s, r) == IF s.c = NoName THEN r ELSE Ask(r, s.c)
Leave(s, r) ==
  LET tested == Asked(s, r)
  IN  IF Going(tested) /\ Chosen(s, r)
        THEN [tested EXCEPT !.out = IF s.op = "exit" THEN "exit" ELSE "skip", !.label = s.label]
      ELSE tested

Mine(s, b, how) == b.out = how /\ b.label \in {NoName, s.label}

RECURSIVE Run(_, _), RunAll(_, _), RunFirst(_, _), RunLoop(_, _), RunFor(_, _, _)
Run(s, r) ==
  IF ~Going(r) THEN r
  ELSE CASE s.op = "null" -> r
    [] s.op = "set" -> Emit(r, <<"do", s.lhs, Worth(s.value)>>)
    [] s.op = "assert" -> Emit(r, <<"call", "assert", IF s.c = NoName THEN "false" ELSE s.c>>)
    [] s.op = "call" -> Emit(r, <<"call", s.name, NoName>>)
    [] s.op = "wait" -> Emit(r, <<"at", s.time, s.sens, s.c>>)
    [] s.op = "return" -> [Emit(r, <<"return", s.name>>) EXCEPT !.out = "return"]
    [] s.op \in {"if", "case", "when", "with"} -> RunFirst(s.alts, r)
    [] s.op \in {"exit", "next"} -> Leave(s, r)
    [] s.op \in {"while", "loop"} -> RunLoop(s, r)
    [] s.op = "for" -> RunFor(s, ValuesOf(s.range), r)
RunAll(ss, r) == IF ss = <<>> THEN r ELSE RunAll(Tail(ss), Run(Head(ss), r))
\* The first alternative whose condition holds; others and else have none.
RunFirst(alts, r) ==
  IF alts = <<>> THEN r
  ELSE IF Chosen(Head(alts), r) THEN RunAll(Head(alts).body, Asked(Head(alts), r))
  ELSE RunFirst(Tail(alts), Asked(Head(alts), r))
RunLoop(s, r) ==
  IF ~Going(r) \/ ~Chosen(s, r) THEN Asked(s, r)
  ELSE LET b == RunAll(s.body, Asked(s, r))
       IN  IF Mine(s, b, "exit") THEN [b EXCEPT !.out = "next"]
           ELSE IF Mine(s, b, "skip") THEN RunLoop(s, [b EXCEPT !.out = "next"])
           ELSE IF Going(b) THEN RunLoop(s, b) ELSE b
RunFor(s, values, r) ==
  IF ~Going(r) \/ values = <<>> THEN r
  ELSE LET b == RunAll(s.body, Emit(r, <<"index", s.index, Head(values)>>))
       IN  IF Mine(s, b, "exit") THEN [b EXCEPT !.out = "next"]
           ELSE IF Mine(s, b, "skip") THEN RunFor(s, Tail(values), [b EXCEPT !.out = "next"])
           ELSE RunFor(s, Tail(values), b)

\* A process starts again after its last statement, and waits there for its
\* sensitivity list if it has one.
RECURSIVE Forever(_, _)
Forever(p, r) ==
  LET body == RunAll(p.body, r)
  IN  IF ~Going(body) THEN body
      ELSE Forever(p, IF p.at.sens = {} THEN body
                      ELSE Emit(body, <<"at", FALSE, p.at.sens, NoName>>))

VhdlMeans(p) ==
  LET r0 == [tr |-> <<>>, left |-> p.answers, out |-> "next", label |-> NoName]
  IN  IF p.kind = "vhdl process" THEN Forever(p, r0).tr ELSE RunAll(p.body, r0).tr
===============================================================================
