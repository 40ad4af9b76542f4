--------------------------- MODULE StatementMeaning ---------------------------
(***************************************************************************)
(* What a Verilog process, task or function promises: the order of its     *)
(* assignments, suspensions and tests.  A construct is a record            *)
(*   [kind, name, at, body, answers]                                       *)
(* where body is a statement, at the timing control of an always construct *)
(* and answers what the conditions will evaluate to.  VerilogStatements    *)
(* builds HIF from the construct, and its execution is checked against     *)
(* this module.  The values assigned are not told apart.                   *)
(***************************************************************************)
EXTENDS Naturals, Sequences

CONSTANT MaxEvents
VARIABLES promised, trace

NoControl == [ctl |-> "none", sens |-> {}]

\* The nets a statement reads, which is what `@*` waits for.
RECURSIVE ReadBy(_)
ReadBy(s) ==
  CASE s.op \in {"null", "disable"} -> {}
    [] s.op = "do" -> s.reads
    [] s.op = "block" -> UNION {ReadBy(s.list[i]) : i \in DOMAIN s.list}
    [] s.op = "timed" -> {e[2] : e \in s.at.sens} \cup ReadBy(s.body)
    [] s.op = "if" -> {s.c} \cup ReadBy(s.yes) \cup ReadBy(s.no)
    [] s.op = "case" -> {s.c} \cup ReadBy(s.default)
                        \cup UNION {ReadBy(s.alts[i]) : i \in DOMAIN s.alts}
    [] s.op \in {"while", "wait"} -> {s.c} \cup ReadBy(s.body)
    [] s.op = "for" -> {s.c} \cup UNION {ReadBy(x) : x \in {s.init, s.step, s.body}}
    [] OTHER -> ReadBy(s.body)

Waiting(at, s) ==
  <<"at", at.ctl = "delay",
    IF at.ctl = "all" THEN {<<"any", n>> : n \in ReadBy(s)} ELSE at.sens, "none">>

-------------------------------------------------------------------------------
(* A run r: the events so far, the answers left, and out, which is "next"  *)
(* while control flows on, a label while a disable unwinds to its block,   *)
(* and "cut" when the bounds are used up.                                  *)

Going(r) == r.out = "next" /\ Len(r.tr) < MaxEvents
Emit(r, e) == IF Going(r) THEN [r EXCEPT !.tr = Append(@, e)] ELSE r
Ask(r, c) ==
  IF ~Going(r) THEN r
  ELSE IF r.left = <<>> THEN [r EXCEPT !.out = "cut"]
  ELSE [r EXCEPT !.tr = Append(@, <<"test", c>>), !.left = Tail(@)]
SaysYes(r) == r.left # <<>> /\ Head(r.left)

RECURSIVE Mean(_, _), MeanAll(_, _), MeanAlts(_, _, _, _), Loop(_, _, _, _), Times(_, _, _)
Mean(s, r) ==
  IF ~Going(r) THEN r
  ELSE CASE s.op = "null" -> r
    [] s.op = "do" -> Emit(r, <<"do", s.lhs, [is |-> "Unstated"]>>)
    [] s.op = "timed" -> Mean(s.body, Emit(r, Waiting(s.at, s.body)))
    [] s.op = "wait" -> Mean(s.body, Emit(r, <<"at", FALSE, {}, s.c>>))
    [] s.op = "if" -> MeanAlts(<<s.yes>>, s.no, s.c, r)
    [] s.op = "case" -> MeanAlts(s.alts, s.default, s.c, r)
    [] s.op = "while" -> Loop(s.c, s.body, [op |-> "null"], r)
    [] s.op = "for" -> Loop(s.c, s.body, s.step, Mean(s.init, r))
    [] s.op = "forever" -> Mean(s, Mean(s.body, r))
    [] s.op = "repeat" -> Times(s.n, s.body, r)
    [] s.op = "disable" -> [r EXCEPT !.out = s.label]
    [] s.op = "block" ->
         LET b == MeanAll(s.list, r)
         IN  IF b.out = s.label THEN [b EXCEPT !.out = "next"] ELSE b
MeanAll(ss, r) == IF ss = <<>> THEN r ELSE MeanAll(Tail(ss), Mean(Head(ss), r))
MeanAlts(alts, default, c, r) ==
  IF alts = <<>> THEN Mean(default, r)
  ELSE IF SaysYes(r) THEN Mean(Head(alts), Ask(r, c))
  ELSE MeanAlts(Tail(alts), default, c, Ask(r, c))
Loop(c, body, step, r) ==
  IF SaysYes(r) /\ Going(r) THEN Loop(c, body, step, Mean(step, Mean(body, Ask(r, c))))
  ELSE Ask(r, c)
Times(n, body, r) == IF n = 0 THEN r ELSE Times(n - 1, body, Mean(body, r))

\* An always construct runs its body once at elaboration and then at every
\* event of its control; a function ends with the value of its own name.
RECURSIVE Always(_, _)
Always(p, r) ==
  LET body == Mean(p.body, r)
      wait == IF p.at = NoControl THEN body ELSE Emit(body, Waiting(p.at, p.body))
  IN  IF Going(body) THEN Always(p, wait) ELSE body

Meaning(p) ==
  LET r0 == [tr |-> <<>>, left |-> p.answers, out |-> "next"]
  IN  CASE p.kind = "always" -> Always(p, r0).tr
        [] p.kind = "function" -> Emit(Mean(p.body, r0), <<"return", p.name>>).tr
        [] OTHER -> Mean(p.body, r0).tr

-------------------------------------------------------------------------------
(* The state machine: the promised events appear one after the other.      *)

NextEvent ==
  /\ Len(trace) < Len(promised)
  /\ trace' = Append(trace, promised[Len(trace) + 1])
  /\ UNCHANGED promised

vars == <<promised, trace>>
Spec == trace = <<>> /\ [][NextEvent]_vars /\ WF_vars(NextEvent)
===============================================================================
