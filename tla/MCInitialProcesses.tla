--------------------------- MODULE MCInitialProcesses ---------------------------
(****************************************************************************)
(* Modules with an always process between up to two initial blocks of up to   *)
(* three statements, each plain, suspending, triggering, or a call that does. *)
(****************************************************************************)
EXTENDS InitialProcesses

MCObjects == {"Assign", "DelayedAssign", "Wait", "Trigger"}

Plain == [has |-> {"Assign"}, calls |-> {}]
Waits == [has |-> {"Wait", "Assign"}, calls |-> {}]
CallsWithDelay == [has |-> {}, calls |-> {"DelayedAssign"}]
Triggers == [has |-> {"Trigger"}, calls |-> {}]

MCStatements == {Plain, Waits, CallsWithDelay, Triggers}
Bodies(n) == UNION {[1..k -> MCStatements] : k \in 0..n}

Initial(b) == [flavour |-> "pf_initial", body |-> b]
Always == [flavour |-> "pf_hdl", body |-> <<Plain, Waits>>]

MCDesigns ==
    {<<Always>>} \cup {<<Initial(b)>> : b \in Bodies(2)}
    \cup {<<Initial(b), Always>> : b \in Bodies(3)}
    \cup {<<Initial(b), Always, Initial(c)>> : b, c \in Bodies(2)}
    \cup {<<Always, Initial(<<Plain>>), Initial(b), Initial(c)>> :
             b \in Bodies(1), c \in Bodies(2)}
================================================================================
