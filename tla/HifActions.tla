------------------------------ MODULE HifActions ------------------------------
(***************************************************************************)
(* The actions of HIF that both translators build.  An action is a record  *)
(* whose field `is` names its class; a list of actions is a sequence.      *)
(***************************************************************************)
EXTENDS Naturals, Sequences

NoName == "none"

\* A value, where the source's is not told apart, and where it is a name.
Unstated == [is |-> "Unstated"]
Symbol(name) == [is |-> "Symbol", name |-> name]

Assign(lhs, value, reads) == [is |-> "Assign", lhs |-> lhs, value |-> value, reads |-> reads]

\* isDoWhile is how a block is represented.
While(name, c, isDoWhile, actions) ==
  [is |-> "While", name |-> name, c |-> c, do |-> isDoWhile, entered |-> FALSE, actions |-> actions]

\* A loop whose index goes from a value on, by steps, while op holds of it
\* and n.
IndexLoop(name, index, from, op, n, step, actions) ==
  [is |-> "For", name |-> name, init |-> <<>>, c |-> "index", index |-> index, from |-> from,
   op |-> op, n |-> n, step |-> step, actions |-> actions]

\* A Wait that nothing ends.
Never ==
  [is |-> "Wait", time |-> FALSE, c |-> NoName, tail |-> FALSE,
   sensitivity |-> {}, pos |-> {}, neg |-> {}, actions |-> <<>>]

LoopTail == [Never EXCEPT !.tail = TRUE]

\* A state table has one state, whose actions these are; result is the
\* variable a function returns.
Table(name, flavour, sens, allSignals, actions, result) ==
  [name |-> name, flavour |-> flavour, sensitivity |-> sens, allSignals |-> allSignals,
   actions |-> actions, result |-> result]

\* An action's own lists of actions.
Lists(a) ==
  CASE a.is \in {"If", "Switch"} -> Append([j \in DOMAIN a.alts |-> a.alts[j].actions], a.defaults)
    [] a.is = "For" -> <<a.init, a.actions>>
    [] a.is \in {"While", "Wait"} -> <<a.actions>>
    [] OTHER -> <<>>

\* The action with F applied to every one of them.
MapLists(F(_), a) ==
  CASE a.is \in {"If", "Switch"} ->
         [a EXCEPT !.alts = [j \in DOMAIN @ |-> [@[j] EXCEPT !.actions = F(@)]],
                   !.defaults = F(@)]
    [] a.is = "For" -> [a EXCEPT !.init = F(@), !.actions = F(@)]
    [] a.is \in {"While", "Wait"} -> [a EXCEPT !.actions = F(@)]
    [] OTHER -> a
===============================================================================
