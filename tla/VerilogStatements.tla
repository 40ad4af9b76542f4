-------------------------- MODULE VerilogStatements --------------------------
(***************************************************************************)
(* How verilog2hif turns the procedural part of a module into the actions  *)
(* of a HIF state table: the parser's statement builders, step 1's         *)
(* visitWhile and visitStateTable and step 2's visitWait and visitFunction. *)
(***************************************************************************)
EXTENDS HifActions, Integers, SequencesExt

NoControl == [ctl |-> "none", sens |-> {}]

-------------------------------------------------------------------------------
(* The parser: statement_t trees into lists of HIF actions.                *)

Edge(at, edge) == {e \in at.sens : e[1] = edge}

\* A Wait with its sensitivity distributed over the three lists.
WaitFor(at) ==
  [Never EXCEPT !.time = at.ctl = "delay", !.sensitivity = Edge(at, "any"),
                !.pos = Edge(at, "posedge"), !.neg = Edge(at, "negedge")]

\* The timing control is a field of the statement_t it precedes.
RECURSIVE Untimed(_)
Untimed(s) == IF s.op = "timed" THEN Untimed(s.body) ELSE s

\* else-if chains become alternatives of one If; the inner If was flattened
\* when its own statement was reduced.
parse_ConditionalStatement(i) ==
  IF Len(i.defaults) = 1 /\ i.defaults[1].is = "If"
  THEN [i EXCEPT !.alts = @ \o i.defaults[1].alts, !.defaults = i.defaults[1].defaults]
  ELSE i

If(c, yes, no) ==
  parse_ConditionalStatement(
    [is |-> "If", alts |-> <<[c |-> c, actions |-> yes]>>, defaults |-> no])

\* An item without expressions is the default.
parse_CaseStatement(c, items) ==
  LET Alt(i) == [c |-> c, actions |-> i.actions]
      keyed == SelectSeq(items, LAMBDA i : i.conditions)
      others == SelectSeq(items, LAMBDA i : ~i.conditions)
  IN  [is |-> "Switch", alts |-> [j \in DOMAIN keyed |-> Alt(keyed[j])],
       defaults |-> FlattenSeq([j \in DOMAIN others |-> others[j].actions])]

parse_LoopStatementFor(init, c, step, actions) ==
  [is |-> "For", name |-> NoName, init |-> init, c |-> c, step |-> step, actions |-> actions]

\* A fresh index runs from 1 while index <= n, or down while index >= n.
parse_LoopStatementRepeat(n, actions) ==
  LET up == 1 <= n
  IN  IndexLoop(NoName, NoName, 1, IF up THEN "le" ELSE "ge", n, IF up THEN 1 ELSE -1, actions)

parse_LoopStatementForever(actions) == While(NoName, "1", FALSE, actions)

parse_WaitStatement(c, actions) == [Never EXCEPT !.c = c, !.actions = actions]

parse_AnalogEventControlStatement(at, actions) == [WaitFor(at) EXCEPT !.actions = actions]

parse_DisableStatement(label) == [is |-> "Break", name |-> label]

\* A block is a do-while that never repeats; an empty one leaves nothing.
SeqBlock(label, analog, lists) ==
  IF lists = <<>> THEN <<>>
  ELSE <<While(label, IF analog THEN "false" ELSE "0", TRUE, FlattenSeq(lists))>>

RECURSIVE ActionsOf(_, _)
ActionsOf(s, analog) ==
  LET u == Untimed(s)
      Built(x) == ActionsOf(x, analog)
      rest ==
        CASE u.op = "null" -> <<>>
          [] u.op = "do" -> <<Assign(u.lhs, Unstated, u.reads)>>
          [] u.op = "if" -> <<If(u.c, Built(u.yes), Built(u.no))>>
          [] u.op = "case" ->
               <<parse_CaseStatement(u.c,
                   <<[conditions |-> FALSE, actions |-> Built(u.default)]>>
                   \o [i \in DOMAIN u.alts |-> [conditions |-> TRUE, actions |-> Built(u.alts[i])]])>>
          [] u.op = "while" -> <<While(NoName, u.c, FALSE, Built(u.body))>>
          [] u.op = "forever" -> <<parse_LoopStatementForever(Built(u.body))>>
          [] u.op = "for" ->
               <<parse_LoopStatementFor(Built(u.init), u.c, Built(u.step), Built(u.body))>>
          [] u.op = "repeat" -> <<parse_LoopStatementRepeat(u.n, Built(u.body))>>
          [] u.op = "wait" -> <<parse_WaitStatement(u.c, Built(u.body))>>
          [] u.op = "disable" -> <<parse_DisableStatement(u.label)>>
          [] u.op = "block" ->
               SeqBlock(u.label, analog, [i \in DOMAIN u.list |-> Built(u.list[i])])
  IN  IF s.op # "timed" THEN rest
      ELSE IF analog THEN <<parse_AnalogEventControlStatement(s.at, Built(s.body))>>
      ELSE <<WaitFor(s.at)>> \o rest

-------------------------------------------------------------------------------
(* The constructs.                                                        *)

BlockName(s, fresh) ==
  LET u == Untimed(s) IN IF u.op = "block" /\ u.label # NoName THEN u.label ELSE fresh

parse_AlwaysConstruct(p) ==
  Table(BlockName(p.body, "process"), "hdl", p.at.sens, p.at.ctl = "all",
        ActionsOf(p.body, FALSE), NoName)

parse_AnalogConstruct(p) ==
  Table(BlockName(p.body, "process"), "analog", {}, FALSE, ActionsOf(p.body, TRUE), NoName)

\* The contents of an initial construct become a table with a fresh name.
parse_InitialConstruct(p) ==
  Table("initial_process", "initial", {}, FALSE, ActionsOf(p.body, FALSE), NoName)

parse_TaskDeclaration(p) ==
  Table(p.name, "task", {}, FALSE, ActionsOf(p.body, FALSE), NoName)

parse_FunctionDeclaration(p) ==
  Table(p.name, "function", {}, FALSE,
        Append(ActionsOf(p.body, FALSE), [is |-> "Return", name |-> p.name]), p.name)

-------------------------------------------------------------------------------
(* Step 1.                                                                 *)

\* Every action of a tree, however deep.
RECURSIVE Within(_)
Within(actions) ==
  UNION {{actions[i]} \cup UNION {Within(Lists(actions[i])[j]) : j \in DOMAIN Lists(actions[i])}
         : i \in DOMAIN actions}

BreaksTo(name, actions) == \E a \in Within(actions) : a.is = "Break" /\ a.name = name

IsBlock(a) == a.is = "While" /\ a.do /\ a.c = "0"

\* A block is replaced by its actions unless a break needs its label.  The
\* only block of a state counts as useless: its label names the table.
IsUseless_NoBreakSearch(a, isTopLevel) == a.name = NoName \/ isTopLevel \/ Len(a.actions) > 1
IsUseless(a, isTopLevel) == a.name = NoName \/ ~BreaksTo(a.name, a.actions) \/ isTopLevel

RECURSIVE visitWhile(_, _)
visitWhile(actions, inState) ==
  LET Nested(l) == visitWhile(l, FALSE)
      Kept(a) == IF IsBlock(a) /\ IsUseless(a, inState /\ Len(actions) = 1)
                 THEN Nested(a.actions) ELSE <<MapLists(Nested, a)>>
  IN  FlattenSeq([i \in DOMAIN actions |-> Kept(actions[i])])

SymbolsRead(actions) ==
  UNION {CASE a.is = "Assign" -> a.reads
           [] a.is \in {"If", "Switch"} -> {a.alts[j].c : j \in DOMAIN a.alts}
           [] a.is = "Wait" -> {e[2] : e \in a.sensitivity \cup a.pos \cup a.neg}
                               \cup ({a.c} \ {NoName})
           [] a.is \in {"While", "For"} ->
                ({a.c} \ {"0", "1", "index", "false"})
                \cup (IF a.is = "For" /\ a.c # "index"
                      THEN UNION {b.reads : b \in Within(a.step)} ELSE {})
           [] OTHER -> {}
         : a \in Within(actions)}

_fixAllSignalsSesitivity(t) ==
  IF t.allSignals
  THEN [t EXCEPT !.sensitivity = {<<"any", n>> : n \in SymbolsRead(t.actions)},
                 !.allSignals = FALSE]
  ELSE t

_fixProcessesWithWait(t) ==
  IF t.flavour = "hdl" /\ \E a \in Within(t.actions) : a.is = "Wait"
  THEN [t EXCEPT !.actions = Append(@, LoopTail)]
  ELSE t

visitStateTable(t) ==
  _fixProcessesWithWait(_fixAllSignalsSesitivity([t EXCEPT !.actions = visitWhile(@, TRUE)]))

-------------------------------------------------------------------------------
(* Step 2.                                                                 *)

\* The actions of a Wait follow it, except in an analog process.
RECURSIVE visitWait(_)
visitWait(actions) ==
  LET Hoisted(a) == IF a.is = "Wait" THEN <<[a EXCEPT !.actions = <<>>]>> \o visitWait(a.actions)
                    ELSE <<MapLists(visitWait, a)>>
  IN  FlattenSeq([i \in DOMAIN actions |-> Hoisted(actions[i])])

\* A function's variable is told apart from the function by a suffix.
ReturnName(name) == name \o "_return"

RECURSIVE fixFunctionReturnVariable(_, _)
fixFunctionReturnVariable(actions, name) ==
  LET Nested(l) == fixFunctionReturnVariable(l, name)
      Renamed(a) ==
        IF a.is = "Assign" /\ a.lhs = name THEN [a EXCEPT !.lhs = ReturnName(name)]
        ELSE IF a.is = "Return" THEN [a EXCEPT !.name = ReturnName(name)]
        ELSE MapLists(Nested, a)
  IN  [i \in DOMAIN actions |-> Renamed(actions[i])]

visitFunction(t) ==
  [t EXCEPT !.actions = fixFunctionReturnVariable(@, t.name), !.result = ReturnName(t.name)]

performStep2Refinements(t) ==
  CASE t.flavour = "analog" -> t
    [] t.flavour = "function" -> visitFunction(t)
    [] OTHER -> [t EXCEPT !.actions = visitWait(@)]

Parsed(p) ==
  CASE p.kind = "always" -> parse_AlwaysConstruct(p)
    [] p.kind = "initial" -> parse_InitialConstruct(p)
    [] p.kind = "analog" -> parse_AnalogConstruct(p)
    [] p.kind = "task" -> parse_TaskDeclaration(p)
    [] p.kind = "function" -> parse_FunctionDeclaration(p)

Built(p) == performStep2Refinements(visitStateTable(Parsed(p)))
===============================================================================
