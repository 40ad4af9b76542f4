---------------------------- MODULE ReferenceUse ----------------------------
(****************************************************************************)
(* How step 3 of verilog2hif and vhdl2hif classifies the references to a     *)
(* signal or port, and what kind of object the classification says the       *)
(* declaration has to become.                                                *)
(*                                                                           *)
(* A context is the syntactic position of one reference. A use is the set of *)
(* InfoStruct the reference is put in. The references in continuous          *)
(* assignments (global actions) are not listed here: LogicCones keeps the    *)
(* assignments themselves.                                                   *)
(****************************************************************************)
EXTENDS FiniteSets

Contexts == {"portAssign", "sensitivity", "portActual", "waitSensitivity",
             "waitCondition", "callOut", "callInout", "callOutIndex", "callIn",
             "blockingLhs", "nonblockingLhs", "assignRhs", "condition"}

UseKinds == {"port", "sensitivity", "bind", "wait", "lhsCall",
             "lhsBlocking", "lhsNonBlocking", "lhsContinuous", "read"}

(* Contexts in which the value of the declaration is needed when the action  *)
(* that holds the reference is executed.                                     *)
ReadContexts == {"callInout", "callOutIndex", "callIn", "assignRhs", "condition"}

(* Contexts in which a process action writes the declaration.                *)
WriteContexts == {"callOut", "callInout", "blockingLhs", "nonblockingLhs"}

(* The actual of an out or inout formal is searched by nearest parent, so an *)
(* index inside that actual counts as written by the call.                   *)
getWritingCallFormal(ctx) == ctx \in {"callOut", "callInout", "callOutIndex"}

UseOf(ctx) ==
    CASE ctx = "portAssign"                             -> "port"
      [] ctx = "sensitivity"                            -> "sensitivity"
      [] ctx = "portActual"                             -> "bind"
      [] ctx \in {"waitSensitivity", "waitCondition"}   -> "wait"
      [] getWritingCallFormal(ctx)                      -> "lhsCall"
      [] ctx = "blockingLhs"                            -> "lhsBlocking"
      [] ctx = "nonblockingLhs"                         -> "lhsNonBlocking"
      [] ctx \in {"callIn", "assignRhs", "condition"}   -> "read"

(* In what follows uses is the set of the non-empty sets of an InfoStruct.   *)
isOnlyInContinuousAssignments(uses) ==
    uses \cap {"sensitivity", "bind", "wait", "lhsNonBlocking",
               "lhsBlocking", "read", "lhsCall"} = {}

(* calculateRequiredDeclType, one operator per output parameter.             *)
isConnectionSignal(isPort, uses) == isPort \/ uses \cap {"port", "bind"} # {}

isSignal_NotWatched(isPort, uses) ==    \* fault: sensitivities do not count
    isConnectionSignal(isPort, uses) \/ "lhsNonBlocking" \in uses

isSignal(isPort, uses) ==
    \/ isConnectionSignal(isPort, uses)
    \/ uses \cap {"sensitivity", "wait", "lhsNonBlocking"} # {}

isVariable(uses, wasLhsContinuous) ==
    wasLhsContinuous \/ uses \cap {"lhsContinuous", "lhsBlocking"} # {}
=============================================================================
