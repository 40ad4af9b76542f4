---------------------------- MODULE VerilogProcesses ----------------------------
(****************************************************************************)
(* What Verilog promises of the processes of a module, and step 2 of          *)
(* verilog2hif has to keep: every initial block executes its statements once  *)
(* and in order, every other process does so over and over, and no process    *)
(* waits for another one to end. Nothing else is said of the interleaving.    *)
(****************************************************************************)
EXTENDS Naturals, Sequences

CONSTANTS
    Objects,    \* the kinds of objects a statement may contain
    Designs     \* the modules the translator may be given

Flavours == {"pf_initial", "pf_hdl"}

(* A statement: the objects in it, and those in the tasks it calls.           *)
Statements == [has : SUBSET Objects, calls : SUBSET Objects]
Holds(s) == s.has \cup s.calls

(* A module is the sequence of its processes, in the order of the source.     *)
SourceProcesses == [flavour : Flavours, body : Seq(Statements)]
WellFormed(D) ==
    /\ D \in Seq(SourceProcesses)
    /\ \A p \in DOMAIN D : D[p].flavour = "pf_hdl" => D[p].body # <<>>

ASSUME DesignsAssumption == \A D \in Designs : WellFormed(D)

VARIABLES
    design,     \* the module (never changed)
    last        \* the statement each process has executed last, 0 before the first

vars == <<design, last>>

Init ==
    /\ design \in Designs
    /\ last = [p \in DOMAIN design |-> 0]

(* The statement that p executes next.                                        *)
FollowingStatement(p) ==
    IF design[p].flavour = "pf_hdl" /\ last[p] = Len(design[p].body) THEN 1 ELSE last[p] + 1

Execute(p) ==
    /\ FollowingStatement(p) <= Len(design[p].body)
    /\ last' = [last EXCEPT ![p] = FollowingStatement(p)]
    /\ UNCHANGED design

(* A wait may last for ever. Every other statement is executed in the end.    *)
Proceed(p) ==
    /\ FollowingStatement(p) <= Len(design[p].body)
    /\ "Wait" \notin Holds(design[p].body[FollowingStatement(p)])
    /\ Execute(p)

Next == \E p \in DOMAIN design : Execute(p)

Positions == UNION {DOMAIN D : D \in Designs}
Fairness == \A p \in Positions : WF_vars(p \in DOMAIN design /\ Proceed(p))

Spec == Init /\ [][Next]_vars /\ Fairness
================================================================================
