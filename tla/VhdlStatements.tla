---------------------------- MODULE VhdlStatements ----------------------------
(***************************************************************************)
(* How vhdl2hif turns processes, subprograms and concurrent assignments    *)
(* into the actions of a HIF state table: the parser's statement and       *)
(* literal builders, the attribute ranges of step 1 and the loops and      *)
(* aggregates of step 2.  Statements are those of VhdlMeaning.             *)
(***************************************************************************)
EXTENDS HifActions, Integers, SequencesExt, FiniteSetsExt

Underline == 16
NoExponent == -1

-------------------------------------------------------------------------------
(* Literals and aggregates *)

Digits(base, digits) == FoldLeft(LAMBDA n, d : base * n + d, 0, digits)

\* atoi stops at the first character that is not a digit.
atoi(digits) ==
  LET stops == {k \in DOMAIN digits : digits[k] = Underline}
  IN  Digits(10, IF stops = {} THEN digits ELSE SubSeq(digits, 1, Min(stops) - 1))

parser_DecimalLiteral(e) == [is |-> "IntValue", n |-> atoi(e.digits)]

BitsOf(d, width) == [k \in 1 .. width |-> (d \div 2 ^ (width - k)) % 2]

\* The remainders, the last bit first.
dec2bits(n) ==
  LET width == CHOOSE w \in 0 .. n : 2 ^ w > n /\ \A v \in 0 .. w - 1 : 2 ^ v <= n
  IN  Reverse(BitsOf(n, width))

\* '_' - '0' is 47.
toBits(digits, base) ==
  LET Of(d) == CASE base = 2 -> <<IF d = Underline THEN 47 ELSE d>>
                 [] base \in {8, 16} /\ d = Underline -> <<>>
                 [] base = 8 /\ d # Underline -> BitsOf(d, 3)
                 [] base = 16 /\ d # Underline -> BitsOf(d, 4)
  IN  IF base = 10 THEN dec2bits(atoi(digits))
      ELSE FlattenSeq([k \in DOMAIN digits |-> Of(digits[k])])

bit2decimal(bits) == Digits(2, bits)

\* The value, not the base, is raised to the exponent, which is 1 without one.
parse_BasedLiteral(e) ==
  [is |-> "IntValue",
   n |-> bit2decimal(toBits(e.digits, e.base)) ^ (IF e.exponent = NoExponent THEN 1 ELSE e.exponent)]

parse_BitStringLiteral(e) ==
  [is |-> "BitvectorValue", bits |-> SelectSeq(e.digits, LAMBDA d : d # Underline)]

\* An alternative of others is taken out; an element without choices among
\* several gets the number of such elements before it, and marks the
\* aggregate.
parse_Aggregate(e) ==
  LET kept == SelectSeq(e.list, LAMBDA x : x.by # "others")
      others == SelectSeq(e.list, LAMBDA x : x.by = "others")
      Before(k) == Cardinality({j \in 1 .. k - 1 : kept[j].by = "position"})
  IN  [is |-> "Aggregate",
       alts |-> [k \in DOMAIN kept |->
                   [indices |-> IF kept[k].by = "position" THEN {Before(k)} ELSE kept[k].choices,
                    value |-> kept[k].value]],
       others |-> IF others = <<>> THEN NoName ELSE Last(others).value,
       marked |-> \E k \in DOMAIN kept : kept[k].by = "position",
       bounds |-> e.bounds]

parse_Expression(e) ==
  CASE e.op = "name" -> Symbol(e.name)
    [] e.op = "decimal" -> parser_DecimalLiteral(e)
    [] e.op = "based" -> parse_BasedLiteral(e)
    [] e.op = "bits" -> parse_BitStringLiteral(e)
    [] e.op = "aggregate" -> parse_Aggregate(e)

-------------------------------------------------------------------------------
(* Loops *)

\* The array of an attribute is found in step 1.
parse_Range(range) ==
  IF range.form = "bounds" THEN range.bounds @@ [attribute |-> NoName]
  ELSE [attribute |-> range.form, of |-> range.bounds]

\* An index of a range without a right bound goes down, or up if the range
\* is reversed.
parse_ParameterSpecification(s) ==
  LET range == parse_Range(s.range)
      isTyped == range.attribute # NoName
      up == ~isTyped /\ range.dir = "to"
      isReverse == range.attribute = "reverse_range"
  IN  IndexLoop("forloop", s.index, 0, NoName, 0, IF up # isReverse THEN 1 ELSE -1, <<>>)
        @@ [range |-> range]

parse_LoopStatement(s, actions) ==
  CASE s.op = "for" ->
         LET for == parse_ParameterSpecification(s)
         IN  [for EXCEPT !.actions = actions, !.name = IF s.label = NoName THEN @ ELSE s.label]
    [] s.op = "while" -> While(s.label, s.c, FALSE, actions)
    [] s.op = "loop" -> While(s.label, "1", FALSE, actions)

\* The grammar has a condition for both; an exit loses it, and a next gives
\* it to an If and then deletes it.
Deleted == "deleted condition"
parse_ExitStatement(s) == [is |-> "Break", name |-> s.label]
parse_NextStatement(s) ==
  LET next == [is |-> "Continue", name |-> s.label]
  IN  IF s.c = NoName THEN next
      ELSE [is |-> "If", alts |-> <<[c |-> Deleted, actions |-> <<next>>]>>, defaults |-> <<>>]

-------------------------------------------------------------------------------
(* The other statements *)

\* The first if and the elsif list are alternatives, else is the default.
parse_IfStatement(alts) ==
  [is |-> "If", alts |-> SelectSeq(alts, LAMBDA a : a.c # NoName),
   defaults |-> IF Last(alts).c = NoName THEN Last(alts).actions ELSE <<>>]

\* Only the last alternative may be others; without statements it does null.
parse_CaseStatement(alts) ==
  LET others == Last(alts).c = NoName
  IN  [is |-> "Switch", alts |-> IF others THEN Front(alts) ELSE alts,
       defaults |-> IF ~others THEN <<>>
                    ELSE IF Last(alts).actions = <<>> THEN <<[is |-> "Null"]>>
                    ELSE Last(alts).actions]

parse_Assertion(s) ==
  [is |-> "ProcedureCall", name |-> "assert", c |-> IF s.c = NoName THEN "false" ELSE s.c]
parse_ProcedureCall(s) == [is |-> "ProcedureCall", name |-> s.name, c |-> NoName]

parse_WaitStatement(s) == [Never EXCEPT !.sensitivity = s.sens, !.c = s.c, !.time = s.time]

parse_ReturnStatement(s) == [is |-> "Return", name |-> s.name]

\* A conditional assignment is one assignment of a When.
WaveformOf(a) == parse_Expression(a.body[1].value)
parse_ConditionalWaveforms(alts) ==
  LET last == Last(alts)
      whens == IF last.c = NoName THEN Front(alts) ELSE alts
  IN  IF whens = <<>> THEN WaveformOf(last)
      ELSE [is |-> "When", default |-> IF last.c = NoName THEN WaveformOf(last) ELSE Unstated,
            alts |-> [k \in DOMAIN whens |-> [c |-> whens[k].c, value |-> WaveformOf(whens[k])]]]

\* others may be at any place of a selected assignment.
parse_SelectedSignalAssignment(alts) ==
  LET keyed == SelectSeq(alts, LAMBDA a : a.c # NoName)
      others == SelectSeq(alts, LAMBDA a : a.c = NoName)
  IN  [is |-> "With", default |-> IF others = <<>> THEN Unstated ELSE WaveformOf(Last(others)),
       alts |-> [k \in DOMAIN keyed |-> [c |-> keyed[k].c, value |-> WaveformOf(keyed[k])]]]

RECURSIVE SequenceOfStatements(_), parse_Statement(_)
SequenceOfStatements(ss) == FlattenSeq([k \in DOMAIN ss |-> parse_Statement(ss[k])])
parse_Statement(s) ==
  LET Alternatives == [k \in DOMAIN s.alts |->
                         [c |-> s.alts[k].c, actions |-> SequenceOfStatements(s.alts[k].body)]]
  IN  CASE s.op = "null" -> <<[is |-> "Null"]>>
        [] s.op = "set" -> <<Assign(s.lhs, parse_Expression(s.value), {})>>
        [] s.op = "if" -> <<parse_IfStatement(Alternatives)>>
        [] s.op = "case" -> <<parse_CaseStatement(Alternatives)>>
        [] s.op \in {"for", "while", "loop"} ->
             <<parse_LoopStatement(s, SequenceOfStatements(s.body))>>
        [] s.op = "exit" -> <<parse_ExitStatement(s)>>
        [] s.op = "next" -> <<parse_NextStatement(s)>>
        [] s.op = "wait" -> <<parse_WaitStatement(s)>>
        [] s.op = "return" -> <<parse_ReturnStatement(s)>>
        [] s.op = "assert" -> <<parse_Assertion(s)>>
        [] s.op = "call" -> <<parse_ProcedureCall(s)>>
        [] s.op = "when" -> <<Assign(s.lhs, parse_ConditionalWaveforms(s.alts), {})>>
        [] s.op = "with" -> <<Assign(s.lhs, parse_SelectedSignalAssignment(s.alts), {})>>

parse_ProcessStatement(p) ==
  Table(p.name, "hdl", p.at.sens, FALSE, SequenceOfStatements(p.body), NoName)
parse_SubprogramBody(p) ==
  Table(p.name, "function", {}, FALSE, SequenceOfStatements(p.body), NoName)
\* A concurrent assignment executes whenever what it reads changes: once here.
parse_ConcurrentSignalAssignment(p) ==
  Table(p.name, "concurrent", {}, FALSE, SequenceOfStatements(p.body), NoName)

-------------------------------------------------------------------------------
(* Step 1: the range of an attribute is the span of its array. *)

_fixSingleBoundRange(range) ==
  LET span == range.of
  IN  IF range.attribute # "reverse_range" THEN span
      ELSE [left |-> span.right, right |-> span.left,
            dir |-> IF span.dir = "to" THEN "downto" ELSE "to"]

RECURSIVE visitRange(_)
visitRange(actions) ==
  [k \in DOMAIN actions |->
     LET a == MapLists(visitRange, actions[k])
     IN  IF a.is = "For" /\ a.range.attribute # NoName
           THEN [a EXCEPT !.range = _fixSingleBoundRange(@)] ELSE a]

-------------------------------------------------------------------------------
(* Step 2 *)

_manageForIndex(for) == [for EXCEPT !.from = for.range.left]
_manageForRange(for) ==
  [for EXCEPT !.op = IF for.range.dir = "to" THEN "le" ELSE "ge", !.n = for.range.right]

\* The indices of a marked aggregate are counted from the lowest index of its
\* type, downwards for a descending type.
visitAggregate(v) ==
  LET lowest == IF v.bounds.dir = "to" THEN v.bounds.left ELSE v.bounds.right
      highest == IF v.bounds.dir = "to" THEN v.bounds.right ELSE v.bounds.left
      Index(k) == lowest + (IF v.bounds.dir = "to" THEN k - 1 ELSE Len(v.alts) - k)
  IN  [is |-> "Aggregate", others |-> v.others, span |-> lowest .. highest,
       alts |-> IF v.marked THEN [k \in DOMAIN v.alts |-> [v.alts[k] EXCEPT !.indices = {Index(k)}]]
                ELSE v.alts]

RECURSIVE performStep2Refinements(_)
performStep2Refinements(actions) ==
  [k \in DOMAIN actions |->
     LET a == MapLists(performStep2Refinements, actions[k])
     IN  CASE a.is = "For" -> _manageForRange(_manageForIndex(a))
           [] a.is = "Assign" ->
                IF a.value.is = "Aggregate" THEN [a EXCEPT !.value = visitAggregate(@)] ELSE a
           [] OTHER -> a]

Parsed(p) ==
  CASE p.kind = "vhdl process" -> parse_ProcessStatement(p)
    [] p.kind = "vhdl subprogram" -> parse_SubprogramBody(p)
    [] p.kind = "vhdl assignment" -> parse_ConcurrentSignalAssignment(p)

Built(p) ==
  [Parsed(p) EXCEPT !.actions = performStep2Refinements(visitRange(@))]
===============================================================================
