----------------------------- MODULE HifProcesses -----------------------------
(***************************************************************************)
(* The execution of the one state table of a process, task, function or    *)
(* concurrent assignment.  todo is the list of actions still to execute.   *)
(* A loop that has been entered, or an Exit, stands behind the actions of  *)
(* its body; left is what the conditions will evaluate to.                 *)
(***************************************************************************)
EXTENDS HifActions, Integers, SequencesExt, FiniteSetsExt

CONSTANT MaxEvents
VARIABLES construct, promised, trace, table, todo, left

vars == <<construct, promised, trace, table, todo, left>>

Does(event, next) ==
  /\ trace' = Append(trace, event) /\ todo' = next
  /\ UNCHANGED <<construct, promised, table, left>>
Silently(next) == todo' = next /\ UNCHANGED <<construct, promised, table, trace, left>>
\* Without an answer left the run ends.
Tests(c, yes, no) ==
  /\ left # <<>> /\ left' = Tail(left)
  /\ trace' = Append(trace, <<"test", c>>)
  /\ todo' = (IF Head(left) THEN yes ELSE no)
  /\ UNCHANGED <<construct, promised, table>>

\* The source calls a function's variable by the function's name, which in
\* HIF is the function itself.
SourceName(x) ==
  CASE x = table.result -> table.name
    [] x = table.name -> "not a variable"
    [] OTHER -> x

\* An aggregate gives an element the value of the alternative that names its
\* index, and the value of others without one.
ValueOf(v) ==
  IF v.is # "Aggregate" THEN v
  ELSE [is |-> "Array",
        at |-> [i \in v.span |->
                  LET own == {k \in DOMAIN v.alts : i \in v.alts[k].indices}
                  IN  IF own = {} THEN v.others ELSE v.alts[Min(own)].value]]

\* A process repeats; the tail says that its sensitivity is reapplied.
HasTail == table.actions # <<>> /\ Last(table.actions).is = "Wait" /\ Last(table.actions).tail
AtSensitivity(next) ==
  IF table.sensitivity = {} THEN Silently(next)
  ELSE Does(<<"at", FALSE, table.sensitivity, NoName>>, next)

At(is) == todo # <<>> /\ Len(trace) < MaxEvents /\ Head(todo).is = is
now == Head(todo)
rest == Tail(todo)

\* Where a Break or a Continue goes: the innermost loop, or the innermost
\* loop or block of a name; after the table without one.
Loop(a) == a.is = "Count" \/ (a.is = "While" /\ a.entered)
Goal(name) ==
  {i \in DOMAIN rest : IF name = NoName THEN Loop(rest[i])
                       ELSE (Loop(rest[i]) \/ rest[i].is = "Exit") /\ rest[i].name = name}
From(i) == SubSeq(rest, i, Len(rest))

Break ==
  /\ At("Break")
  /\ Silently(LET goals == Goal(now.name)
              IN  IF goals # {} THEN From(Min(goals) + 1)
                  ELSE IF HasTail THEN <<LoopTail>> ELSE <<>>)
Continue == At("Continue") /\ Goal(now.name) # {} /\ Silently(From(Min(Goal(now.name))))

AssignValue ==
  /\ At("Assign") /\ now.value.is \notin {"When", "With"}
  /\ Does(<<"do", SourceName(now.lhs), ValueOf(now.value)>>, rest)

\* The first alternative whose condition holds gives the value.
SelectValue ==
  /\ At("Assign") /\ now.value.is \in {"When", "With"}
  /\ LET v == now.value
         Given(x) == <<[now EXCEPT !.value = x]>> \o rest
     IN  IF v.alts = <<>> THEN Silently(Given(v.default))
         ELSE Tests(v.alts[1].c, Given(v.alts[1].value), Given([v EXCEPT !.alts = Tail(@)]))

Return == At("Return") /\ Does(<<"return", SourceName(now.name)>>, <<>>)
ProcedureCall == At("ProcedureCall") /\ Does(<<"call", now.name, now.c>>, rest)

Wait ==
  /\ At("Wait")
  /\ IF now.tail THEN AtSensitivity(<<>>)
     ELSE Does(<<"at", now.time, now.sensitivity \cup now.pos \cup now.neg, now.c>>,
               now.actions \o rest)

Choose ==
  /\ At("If") \/ At("Switch")
  /\ IF now.alts = <<>> THEN Silently(now.defaults \o rest)
     ELSE Tests(now.alts[1].c, now.alts[1].actions \o rest, <<[now EXCEPT !.alts = Tail(@)]>> \o rest)

Iterate ==
  /\ At("While")
  /\ LET again == now.actions \o <<[now EXCEPT !.entered = TRUE]>> \o rest
     IN  IF now.do THEN Silently(now.actions \o <<[is |-> "Exit", name |-> now.name]>> \o rest)
         ELSE IF now.c = "1" THEN Silently(again)
         ELSE Tests(now.c, again, rest)
Exit == (At("Exit") \/ At("Null")) /\ Silently(rest)

For ==
  /\ At("For")
  /\ LET loop == IF now.c = "index"
                 THEN [is |-> "Count", name |-> now.name, index |-> now.from, of |-> now]
                 ELSE While(NoName, now.c, FALSE, now.actions \o now.step)
     IN  Silently(now.init \o <<loop>> \o rest)

\* An index with a name can be seen.
Count ==
  /\ At("Count")
  /\ LET of == now.of
         body == of.actions \o <<[now EXCEPT !.index = @ + of.step]>> \o rest
     IN  IF ~ (IF of.op = "le" THEN now.index <= of.n ELSE now.index >= of.n) THEN Silently(rest)
         ELSE IF of.index = NoName THEN Silently(body)
         ELSE Does(<<"index", of.index, now.index>>, body)

\* A process whose actions are over starts again.
Repeat ==
  /\ todo = <<>> /\ table.flavour = "hdl" /\ Len(trace) < MaxEvents
  /\ IF HasTail THEN Silently(table.actions) ELSE AtSensitivity(table.actions)

Next == \/ AssignValue \/ SelectValue \/ Return \/ ProcedureCall \/ Wait \/ Choose
        \/ Iterate \/ Exit \/ Break \/ Continue \/ For \/ Count \/ Repeat
===============================================================================
