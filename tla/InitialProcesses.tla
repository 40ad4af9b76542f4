---------------------------- MODULE InitialProcesses ----------------------------
(****************************************************************************)
(* Initial processes in step 2 (FixDescription_2.cpp). Each initial block is  *)
(* a process; HIF has one initial process per module, executed at once before *)
(* any other process starts. The step collects the initial processes, splits  *)
(* each where it first may suspend, and merges the first parts. The actions   *)
(* of phase "initial" and "run" are the execution of the HIF that results, as *)
(* its back ends execute it.                                                  *)
(****************************************************************************)
EXTENDS VerilogProcesses, FiniteSetsExt

VARIABLES
    phase,
    stateTables,        \* the processes of the module, by identity
    initialProcesses,   \* those collected, in order
    todo,               \* those the current loop has not visited
    pc                  \* the action each process executes next

hifVars == <<phase, stateTables, initialProcesses, todo, pc>>
allVars == <<vars, hifVars>>

Phases == {"collect", "split", "merge", "initial", "run"}

(* An action: the nth statement of a source process. TailWait is the Wait     *)
(* without operands that suspends its process for good.                       *)
Action(p, n) == [from |-> p, nth |-> n]
TailWait == Action(0, 0)
Statement(a) == design[a.from].body[a.nth]

(* The process that takes the second part of an initial process.              *)
Splitted(st) == Len(design) + st

HifProcess(flavour, actions, dontInitialize) ==
    [flavour |-> flavour, actions |-> actions, dontInitialize |-> dontInitialize]

ParsedProcess(p) ==
    HifProcess(design[p].flavour,
               [n \in DOMAIN design[p].body |-> Action(p, n)], FALSE)

HifInit ==
    /\ Init
    /\ phase = "collect"
    /\ stateTables = [p \in DOMAIN design |-> ParsedProcess(p)]
    /\ initialProcesses = <<>> /\ todo = [p \in DOMAIN design |-> p]
    /\ pc = [p \in DOMAIN design |-> 1]

-----------------------------------------------------------------------------
(* The three loops.                                                           *)
_isInitial(st) == stateTables[st].flavour = "pf_initial"

_collectInitialProcess ==
    /\ phase = "collect" /\ todo # <<>>
    /\ initialProcesses' = IF _isInitial(Head(todo)) THEN Append(initialProcesses, Head(todo))
                           ELSE initialProcesses
    /\ todo' = Tail(todo)
    /\ UNCHANGED <<vars, phase, stateTables, pc>>

EndCollect ==
    /\ phase = "collect" /\ todo = <<>>
    /\ phase' = "split" /\ todo' = initialProcesses
    /\ UNCHANGED <<vars, stateTables, initialProcesses, pc>>

(* fault: events are not looked for                                           *)
check_object_method_Waits(o) == o \in {"Wait", "DelayedAssign"}

(* A Wait, an assignment with a delay or the trigger of an event, in the      *)
(* statement or in a task it calls.                                           *)
check_object_method(o) == o \in {"Wait", "DelayedAssign", "Trigger"}

_checkWrongStatement(a) == \E o \in Holds(Statement(a)) : check_object_method(o)

(* The actions before the first wrong one, which stay.                        *)
Wrong(actions) == {n \in DOMAIN actions : _checkWrongStatement(actions[n])}

(* fault: every statement before the last wrong one stays                     *)
Kept_Last(actions) == IF Wrong(actions) = {} THEN Len(actions) ELSE Max(Wrong(actions)) - 1

Kept(actions) == IF Wrong(actions) = {} THEN Len(actions) ELSE Min(Wrong(actions)) - 1
StayingActions(actions) == SubSeq(actions, 1, Kept(actions))

(* fault: the last Wait is not added                                          *)
afterWrongStatementActions_Again(actions) == SubSeq(actions, Kept(actions) + 1, Len(actions))

afterWrongStatementActions(actions) ==
    SubSeq(actions, Kept(actions) + 1, Len(actions)) \o <<TailWait>>

_splitInitialProcess ==
    /\ phase = "split" /\ todo # <<>>
    /\ LET st == Head(todo)
           actions == stateTables[st].actions
           new == Splitted(st)
       IN  IF Wrong(actions) = {} THEN UNCHANGED <<stateTables, pc>>
           ELSE /\ stateTables' =
                     [[s \in DOMAIN stateTables \cup {new} |->
                         IF s = new
                         THEN HifProcess("pf_hdl", afterWrongStatementActions(actions), FALSE)
                         ELSE stateTables[s]]
                      EXCEPT ![st].actions = StayingActions(actions)]
                /\ pc' = [s \in DOMAIN pc \cup {new} |-> IF s = new THEN 1 ELSE pc[s]]
    /\ todo' = Tail(todo)
    /\ UNCHANGED <<vars, phase, initialProcesses>>

EndSplit ==
    /\ phase = "split" /\ todo = <<>> /\ phase' = "merge"
    /\ todo' = IF initialProcesses = <<>> THEN <<>> ELSE Tail(initialProcesses)
    /\ UNCHANGED <<vars, stateTables, initialProcesses, pc>>

_mergeInitialProcess ==
    /\ phase = "merge" /\ todo # <<>>
    /\ LET initialSt == Head(initialProcesses)
           st == Head(todo)
           left == (DOMAIN stateTables) \ {st}
       IN  /\ stateTables' =
                [[s \in left |-> stateTables[s]]
                 EXCEPT ![initialSt].actions = @ \o stateTables[st].actions]
           /\ pc' = [s \in left |-> pc[s]]
    /\ todo' = Tail(todo)
    /\ UNCHANGED <<vars, phase, initialProcesses>>

EndMerge ==
    /\ phase = "merge" /\ todo = <<>> /\ phase' = "initial"
    /\ UNCHANGED <<vars, stateTables, initialProcesses, todo, pc>>

Translate ==
    \/ _collectInitialProcess \/ EndCollect
    \/ _splitInitialProcess \/ EndSplit
    \/ _mergeInitialProcess \/ EndMerge

-----------------------------------------------------------------------------
(* The execution of the HIF.                                                  *)
IsDone(st) == pc[st] > Len(stateTables[st].actions)
Current(st) == stateTables[st].actions[pc[st]]

Suspends(a) == Holds(Statement(a)) \cap {"Wait", "DelayedAssign"} # {}

Perform(a) == last' = [last EXCEPT ![a.from] = a.nth]

(* The initial process has no way to suspend.                                 *)
RunInitial(st) ==
    /\ phase = "initial" /\ _isInitial(st) /\ ~IsDone(st)
    /\ ~Suspends(Current(st))
    /\ Perform(Current(st))
    /\ pc' = [pc EXCEPT ![st] = @ + 1]
    /\ UNCHANGED <<design, phase, stateTables, initialProcesses, todo>>

StartProcesses ==
    /\ phase = "initial"
    /\ \A st \in DOMAIN stateTables : _isInitial(st) => IsDone(st)
    /\ phase' = "run"
    /\ UNCHANGED <<vars, stateTables, initialProcesses, todo, pc>>

(* A process that ends starts again.                                          *)
RunProcess(st) ==
    /\ phase = "run" /\ ~_isInitial(st) /\ ~stateTables[st].dontInitialize
    /\ Current(st) # TailWait
    /\ Perform(Current(st))
    /\ pc' = [pc EXCEPT ![st] = IF @ = Len(stateTables[st].actions) THEN 1 ELSE @ + 1]
    /\ UNCHANGED <<design, phase, stateTables, initialProcesses, todo>>

Run(st) == RunInitial(st) \/ RunProcess(st)

HifNext ==
    \/ Translate \/ StartProcesses
    \/ \E st \in DOMAIN stateTables : Run(st)

(* The translator runs on, and so does every process that is not in a wait.   *)
RunOn(st) ==
    /\ st \in DOMAIN stateTables /\ ~IsDone(st)
    /\ Current(st) # TailWait => "Wait" \notin Holds(Statement(Current(st)))
    /\ Run(st)

Tables == Positions \cup UNION {{Len(D) + p : p \in DOMAIN D} : D \in Designs}
HifFairness ==
    /\ WF_allVars(Translate \/ StartProcesses)
    /\ \A st \in Tables : WF_allVars(RunOn(st))

HifSpec == HifInit /\ [][HifNext]_allVars /\ HifFairness

-----------------------------------------------------------------------------
(* Properties.                                                                *)

TypeOK ==
    /\ design \in Designs /\ phase \in Phases
    /\ DOMAIN pc = DOMAIN stateTables
    /\ \A st \in DOMAIN stateTables :
          /\ stateTables[st].flavour \in Flavours
          /\ \A n \in DOMAIN stateTables[st].actions :
                LET a == stateTables[st].actions[n]
                IN  \/ a = TailWait /\ st > Len(design)
                    \/ a.from \in DOMAIN design /\ a.nth \in DOMAIN design[a.from].body
          /\ pc[st] \in 1..(Len(stateTables[st].actions) + 1)
          /\ st > Len(design) =>
                \E n \in DOMAIN stateTables[st].actions : stateTables[st].actions[n] = TailWait
    /\ \A n \in DOMAIN initialProcesses : initialProcesses[n] \in DOMAIN design
    /\ \A p \in DOMAIN design : last[p] \in 0..Len(design[p].body)

(* Splitting and merging lose nothing: the HIF executes every initial block   *)
(* once and in the order of its statements, and every other process over and  *)
(* over, whatever the interleaving.                                           *)
Verilog == INSTANCE VerilogProcesses WITH design <- design, last <- last
ImplementsVerilog == Verilog!Init /\ [][Verilog!Next]_(Verilog!vars)

(* No process is kept from its next statement by the wait of another block    *)
(* it was merged with, or because its statements were lost.                   *)
ProcessesProceed == Verilog!Fairness

(* An event is not triggered before the processes that may wait for it have   *)
(* started: no action that triggers one stays in the initial process.         *)
NoTriggerBeforeStart ==
    [][phase = "initial" =>
         \A p \in DOMAIN design : last'[p] # last[p] =>
             "Trigger" \notin Holds(design[p].body[last'[p]])]_allVars

================================================================================
