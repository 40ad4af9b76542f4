------------------------ MODULE PartialFlattening_proofs ------------------------
(****************************************************************************)
(* Proofs about PartialFlattening, for every hierarchy of units: the types,   *)
(* and that the loop leaves no instance that still needs to be inlined,       *)
(* whichever of its two conditions ends it.                                   *)
(****************************************************************************)
EXTENDS PartialFlattening, TLAPS

LEMMA CopyType ==
    ASSUME NEW i, IsInstance(i), NEW d \in AllDecls
    PROVE  Copy(i, d) \in AllDecls
<1>1. CASE d \in DOMAIN i.bind
  BY <1>1 DEF Copy, IsInstance, BoundBy
<1>2. CASE d \notin DOMAIN i.bind
  <2>1. i.path \o d.path \in Paths
    BY DEF IsInstance, AllDecls, Paths
  <2>2. QED BY <1>2, <2>1 DEF Copy, IsInstance, AllDecls
<1>3. QED BY <1>1, <1>2

LEMMA CopyInstanceType ==
    ASSUME NEW i, IsInstance(i), NEW j, IsInstance(j)
    PROVE  IsInstance(CopyInstance(i, j)) /\ CopyInstance(i, j).of = j.of
<1> DEFINE c == CopyInstance(i, j)
<1>1. /\ c.of = j.of /\ c.in = i.in /\ c.path = i.path \o j.path /\ c.losing = j.losing
      /\ c.bind = [p \in DOMAIN j.bind |-> Copy(i, j.bind[p])]
  BY DEF CopyInstance
<1>2. c.path \in Paths
  BY <1>1 DEF IsInstance, Paths
<1>3. DOMAIN c.bind \subseteq AllDecls /\ BoundBy(c) \subseteq AllDecls
  BY <1>1, CopyType DEF IsInstance, BoundBy
<1>4. QED BY <1>1, <1>2, <1>3 DEF IsInstance

LEMMA InlineType ==
    ASSUME TypeOK, NEW i \in insts, Inline(i)
    PROVE  TypeOK'
<1>1. \A j \in insts' : IsInstance(j) /\ j.of \notin design.topViews
  BY CopyInstanceType DEF Inline, TypeOK
<1>2. refs' \subseteq UnitRefs
  <2>1. ASSUME NEW r \in refs PROVE [decl |-> Copy(i, r.decl), use |-> r.use] \in UnitRefs
    BY CopyType DEF TypeOK, UnitRefs
  <2>2. QED BY <2>1 DEF Inline, TypeOK
<1>3. QED BY <1>1, <1>2 DEF Inline, TypeOK

THEOREM TypeCorrect == Spec => []TypeOK
<1>1. Init => TypeOK
  BY DesignsAssumption DEF Init, TypeOK, WellFormed
<1>2. TypeOK /\ [Next]_vars => TypeOK'
  <2> SUFFICES ASSUME TypeOK, [Next]_vars PROVE TypeOK'
    OBVIOUS
  <2>1. CASE Preserve
    BY <2>1 DEF Preserve, TypeOK
  <2>2. CASE collectOnOutputPorts
    BY <2>2 DEF collectOnOutputPorts, TypeOK, OutputPortViews, WellFormed, AllDecls
  <2>3. CASE BeginRound
    <3>1. AskedViews \subseteq Units
      BY DEF AskedViews, TypeOK, WellFormed, IsInstance, AllDecls
    <3>2. QED BY <2>3, <3>1 DEF BeginRound, TypeOK, Asked
  <2>4. CASE DiscardLosingBranches
    BY <2>4 DEF DiscardLosingBranches, TypeOK
  <2>5. CASE \E i \in insts : Inline(i)
    BY <2>5, InlineType
  <2>6. CASE EndRound
    BY <2>6 DEF EndRound, TypeOK
  <2>7. CASE LastRound
    BY <2>7 DEF LastRound, TypeOK
  <2>8. CASE UNCHANGED vars
    BY <2>8 DEF vars, TypeOK
  <2>9. QED
    BY <2>1, <2>2, <2>3, <2>4, <2>5, <2>6, <2>7, <2>8 DEF Next, partialFlattening, Returned
<1>3. QED BY <1>1, <1>2, PTL DEF Spec

-----------------------------------------------------------------------------
(* When a round begins, nothing the round before asked for is instantiated.    *)
RoundInv ==
    /\ phase = "start" => previous = {}
    /\ phase = "collect" =>
          \A p \in previous : \A i \in insts : i.of \notin p.views /\ i \notin p.viewRefs
    /\ LeftoverIsUninstantiated

(* Whatever needs both natures is asked for.                                   *)
LEMMA TroubleIsAsked ==
    ASSUME NEW i \in insts, NEW d \in {p \in design.ports : p.in = i.of} \cup BoundBy(i),
           NEW V, V = Asked.views, NEW R, R = Asked.viewRefs, NeedsBoth(d)
    PROVE  i.of \in V \/ i \in R
BY DEF Asked, AskedViews, AskedRefs

LEMMA LastRoundLeaves ==
    ASSUME TypeOK, RoundInv, LastRound
    PROVE  LeftoverIsUninstantiated'
<1>1. design' = design /\ insts' = insts /\ refs' = refs /\ phase = "collect"
  BY DEF LastRound
<1>2. \A d : NeedsBoth(d)' = NeedsBoth(d)
  BY <1>1 DEF NeedsBoth, Uses, IsPort
<1>3. ASSUME NEW i \in insts, NEW d \in {p \in design.ports : p.in = i.of} \cup BoundBy(i),
             NeedsBoth(d)
      PROVE  FALSE
  <2>1. i.of \in Asked.views \/ i \in Asked.viewRefs
    BY <1>3, TroubleIsAsked
  <2>2. CASE ~needsFlattening
    BY <2>1, <2>2 DEF needsFlattening, checkTopViews, TypeOK
  <2>3. CASE Repeated
    BY <1>1, <2>1, <2>3 DEF Repeated, RoundInv
  <2>4. QED BY <2>2, <2>3 DEF LastRound
<1>4. QED BY <1>1, <1>2, <1>3 DEF LeftoverIsUninstantiated

LEMMA RoundStep ==
    ASSUME TypeOK, RoundInv, [Next]_vars
    PROVE  RoundInv'
<1>1. CASE Preserve
  BY <1>1 DEF Preserve, RoundInv, LeftoverIsUninstantiated
<1>2. CASE collectOnOutputPorts
  BY <1>2 DEF collectOnOutputPorts, RoundInv, LeftoverIsUninstantiated
<1>3. CASE BeginRound \/ DiscardLosingBranches \/ \E i \in insts : Inline(i)
  BY <1>3 DEF BeginRound, DiscardLosingBranches, Inline, RoundInv, LeftoverIsUninstantiated
<1>4. CASE EndRound
  <2>1. phase' = "collect" /\ previous' = {[views |-> views, viewRefs |-> viewRefs]}
    BY <1>4 DEF EndRound, TypeOK
  <2>2. \A i \in insts' : i \in insts /\ i.of \notin views /\ i \notin viewRefs
    BY <1>4 DEF EndRound, Pending
  <2>3. QED BY <2>1, <2>2 DEF RoundInv, LeftoverIsUninstantiated
<1>5. CASE LastRound
  BY <1>5, LastRoundLeaves DEF LastRound, RoundInv
<1>6. CASE UNCHANGED vars
  <2>1. \A d : NeedsBoth(d)' = NeedsBoth(d)
    BY <1>6 DEF vars, NeedsBoth, Uses, IsPort
  <2>2. QED BY <1>6, <2>1 DEF vars, RoundInv, LeftoverIsUninstantiated
<1>7. QED
  BY <1>1, <1>2, <1>3, <1>4, <1>5, <1>6 DEF Next, partialFlattening, Returned

(* LeftoverIsUninstantiated: partialFlattening leaves no instance whose ports  *)
(* or bound nets need two natures, whichever condition ends its loop.          *)
THEOREM NothingInstantiatedIsLeft == Spec => []LeftoverIsUninstantiated
<1>1. Init => RoundInv
  BY DEF Init, RoundInv, LeftoverIsUninstantiated
<1>2. TypeOK /\ TypeOK' /\ RoundInv /\ [Next]_vars => RoundInv'
  BY RoundStep
<1>3. RoundInv => LeftoverIsUninstantiated
  BY DEF RoundInv
<1>4. QED BY <1>1, <1>2, <1>3, TypeCorrect, PTL DEF Spec
=============================================================================
