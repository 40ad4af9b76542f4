------------------------------ MODULE Statements ------------------------------
(***************************************************************************)
(* The statements of both languages: a construct of a source, the state    *)
(* table its translator builds of it, and the execution of the table,      *)
(* which must do what the source means.                                    *)
(***************************************************************************)
EXTENDS HifProcesses

CONSTANT Constructs

Verilog == INSTANCE VerilogStatements
Vhdl == INSTANCE VhdlStatements
Meaning == INSTANCE VhdlMeaning

Languages == [verilog |-> {"always", "initial", "analog", "task", "function"},
              vhdl |-> {"vhdl process", "vhdl subprogram", "vhdl assignment"}]

\* promised is not in the program: it is what the construct means, fixed when
\* the construct is.  The table is built once; what then happens is its
\* execution.
Init ==
  /\ construct \in Constructs
  /\ \/ /\ construct.kind \in Languages.verilog
        /\ promised = Meaning!Meaning(construct)
        /\ table = Verilog!Built(construct)
     \/ /\ construct.kind \in Languages.vhdl
        /\ promised = Meaning!VhdlMeans(construct)
        /\ table = Vhdl!Built(construct)
  /\ todo = table.actions
  /\ trace = <<>> /\ left = construct.answers

Spec == Init /\ [][Next]_vars /\ WF_vars(Next)

\* The state table the translator leaves behind does what the construct means:
\* the same assignments of the same values, the same suspensions, tests,
\* calls and indices in the same order, and all of them.
DoesWhatItMeans == Meaning!Spec
===============================================================================
