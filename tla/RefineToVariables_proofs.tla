----------------------- MODULE RefineToVariables_proofs -----------------------
(****************************************************************************)
(* Proofs about step 3 from fixLogicCones to its end, for every set of        *)
(* declarations and every set of well-formed designs. The first part is about *)
(* LogicCones: what the calls of a design are made of, and which drivers they *)
(* serve. The second carries it over RefineToVariables, and the third is      *)
(* about the bodies of the cones: which assignments and calls they hold, in   *)
(* which order, and that executing one recomputes its net.                    *)
(****************************************************************************)
EXTENDS RefineToVariables, FiniteSetTheorems, TLAPS

-----------------------------------------------------------------------------
(* The ways a cone body is built keep its entries in the set T.               *)

(* An enumeration of a finite set is a sequence of its elements. *)
LEMMA EnumerationIsSeq ==
    ASSUME NEW S, IsFiniteSet(S), NEW s \in SetToSeqs(S)
    PROVE  s \in Seq(S)
<1>1. Cardinality(S) \in Nat
  BY FS_CardinalityType
<1>2. s \in [1 .. Cardinality(S) -> S]
  BY DEF SetToSeqs
<1>3. QED BY <1>1, <1>2

(* An enumeration of a finite set has all its elements. *)
LEMMA EnumerationCovers ==
    ASSUME NEW S, IsFiniteSet(S), NEW s \in SetToSeqs(S)
    PROVE  \A e \in S : \E i \in DOMAIN s : s[i] = e
<1> DEFINE n == Cardinality(S)
<1>1. n \in Nat /\ s \in [1 .. n -> S] /\ \A i, j \in 1 .. n : i # j => s[i] # s[j]
  BY FS_CardinalityType DEF SetToSeqs
<1>2. IsFiniteSet(1 .. n) /\ Cardinality(1 .. n) = n
  BY <1>1, FS_Interval
<1>3. s \in Injection(1 .. n, S)
  BY <1>1 DEF Injection, IsInjective
<1>4. s \in Surjection(1 .. n, S)
  BY <1>2, <1>3, FS_Injection
<1>5. QED BY <1>1, <1>4 DEF Surjection

(* Copying assignments into a body gives entries of the set the copies are in. *)
LEMMA CopiesType ==
    ASSUME NEW S, NEW s \in Seq(S), NEW T, NEW op,
           \A a \in S : [op |-> op, asg |-> a] \in T
    PROVE  Copies(op, s) \in Seq(T)
<1>1. DOMAIN s = 1 .. Len(s) /\ Len(s) \in Nat /\ \A i \in 1 .. Len(s) : s[i] \in S
  OBVIOUS
<1>2. Copies(op, s) \in [1 .. Len(s) -> T]
  BY <1>1 DEF Copies
<1>3. QED BY <1>1, <1>2

(* Putting two bodies together keeps their entries. *)
LEMMA ConcatType ==
    ASSUME NEW T, NEW s \in Seq(T), NEW t \in Seq(T)
    PROVE  s \o t \in Seq(T)
OBVIOUS

(* Inserting a call into a body keeps its entries. *)
LEMMA InsertAtType ==
    ASSUME NEW T, NEW s \in Seq(T), NEW i \in DOMAIN s, NEW e \in T
    PROVE  InsertAt(s, i, e) \in Seq(T)
<1>1. i \in 1 .. Len(s) /\ Len(s) \in Nat
  OBVIOUS
<1>2. SubSeq(s, 1, i - 1) \in Seq(T)
  BY <1>1
<1>3. SubSeq(s, i, Len(s)) \in Seq(T)
  BY <1>1
<1>4. <<e>> \in Seq(T)
  OBVIOUS
<1>5. QED BY <1>2, <1>3, <1>4 DEF InsertAt

-----------------------------------------------------------------------------
(* Type correctness *)

(* What a design consists of. *)
LEMMA WellFormedDesign ==
    ASSUME NEW D \in Designs
    PROVE  /\ D.ports \subseteq Decls
           /\ D.conts \subseteq ContAssigns
           /\ IsFiniteSet(D.conts)
           /\ D.refs \subseteq Refs
           /\ \A r \in D.refs : r.ctx = "portAssign" => r.decl \in D.ports
           /\ \A c \in D.conts : c.tgt \notin D.ports
BY DesignsAssumption DEF WellFormed

(* The assignments of infoMap and of the tree are those of the design. *)
ContsInv ==
    /\ conts \subseteq design.conts
    /\ \A d \in Decls : lhsContinuous[d] \subseteq {c \in design.conts : c.tgt = d}

(* A net has finitely many assignments, so they can be enumerated. *)
LEMMA FiniteDrivers ==
    ASSUME TypeOK, ContsInv, NEW d \in Decls
    PROVE  IsFiniteSet(lhsContinuous[d])
<1>1. IsFiniteSet(design.conts)
  BY WellFormedDesign DEF TypeOK
<1>2. lhsContinuous[d] \subseteq design.conts
  BY DEF ContsInv
<1>3. QED BY <1>1, <1>2, FS_Subset

(* The maps are well typed when fixLogicCones is entered. *)
LEMMA InitType == Init => TypeOK /\ ContsInv
<1> SUFFICES ASSUME Init PROVE TypeOK /\ ContsInv
  OBVIOUS
<1>1. /\ design.conts \subseteq ContAssigns
      /\ design.refs \subseteq Refs
  BY WellFormedDesign DEF Init
<1>2. TypeOK
  BY <1>1 DEF Init, TypeOK, fillInfoMap, Phases
<1>3. ContsInv
  BY DEF Init, ContsInv, fillInfoMap
<1>4. QED BY <1>2, <1>3

(* A copy of an assignment is an entry of a body. *)
LEMMA AssignItems ==
    ASSUME NEW a \in ContAssigns, NEW op \in {"assign", "assignTmp"}
    PROVE  [op |-> op, asg |-> a] \in Items
BY DEF Items

(* The assignments to a net, copied in any order, are a body. *)
LEMMA CopiesAreBodies ==
    ASSUME TypeOK, ContsInv, NEW d \in Decls, NEW s \in SetToSeqs(lhsContinuous[d]),
           NEW op \in {"assign", "assignTmp"}
    PROVE  Copies(op, s) \in Seq(Items)
<1>1. s \in Seq(lhsContinuous[d])
  BY FiniteDrivers, EnumerationIsSeq
<1>2. lhsContinuous[d] \subseteq ContAssigns
  BY DEF TypeOK
<1>3. \A a \in lhsContinuous[d] : [op |-> op, asg |-> a] \in Items
  BY <1>2, AssignItems
<1>4. QED BY <1>1, <1>3, CopiesType

(* Every step of fixLogicCones keeps the maps well typed. *)
LEMMA StepType ==
    ASSUME TypeOK, ContsInv, [Next]_vars
    PROVE  TypeOK' /\ ContsInv'
<1> USE DEF infoVars, graphVars, coneVars, loopVars
<1>1. CASE sortGraph
  <2>1. IsFiniteSet(GraphNodes)
    BY DeclsAssumption, FS_Subset DEF GraphNodes
  <2>2. sorted' \in Seq(GraphNodes)
    BY <1>1, <2>1, EnumerationIsSeq DEF sortGraph
  <2>3. sorted' \in Seq(Decls)
    BY <2>2 DEF GraphNodes
  <2>4. QED BY <1>1, <2>3 DEF sortGraph, TypeOK, ContsInv, Phases
<1>2. CASE generateConeFunction
  <2>1. sorted[k] \in Decls
    BY <1>2 DEF generateConeFunction, TypeOK
  <2>2. PICK s \in SetToSeqs(lhsContinuous[sorted[k]]) :
          body' = [body EXCEPT ![sorted[k]] =
                      Copies(IF IsMixedTarget(sorted[k]) THEN "assignTmp" ELSE "assign", s)]
    BY <1>2 DEF generateConeFunction
  <2>3. Copies(IF IsMixedTarget(sorted[k]) THEN "assignTmp" ELSE "assign", s) \in Seq(Items)
    BY <2>1, CopiesAreBodies
  <2>4. body' \in [Decls -> Seq(Items)]
    BY <2>2, <2>3 DEF TypeOK
  <2>5. QED BY <1>2, <2>1, <2>4 DEF generateConeFunction, TypeOK, ContsInv
<1>3. CASE SkipCone
  BY <1>3 DEF SkipCone, TypeOK, ContsInv
<1>4. CASE EndCones
  BY <1>4 DEF EndCones, TypeOK, ContsInv, Phases
<1>5. CASE updateInfos
  BY <1>5 DEF updateInfos, TypeOK, ContsInv, Phases
<1>6. CASE EndLoop
  <2>1. phase' \in Phases /\ todo' \subseteq Decls
    BY <1>6 DEF EndLoop, Following, LoopOver, Phases, TypeOK
  <2>2. QED BY <1>6, <2>1 DEF EndLoop, TypeOK, ContsInv
<1>7. ASSUME NEW d \in Decls, generateLogicConesGraph(d)
      PROVE  TypeOK' /\ ContsInv'
  <2>1. GraphSources(d) \subseteq Decls
    BY DEF GraphSources, TypeOK, ContAssigns
  <2>2. lhsContinuous' \in [Decls -> SUBSET ContAssigns]
            /\ wasLhsContinuous' \in [Decls -> BOOLEAN]
    BY <1>7 DEF generateLogicConesGraph, TypeOK
  <2>3. \A e \in Decls : lhsContinuous'[e] \subseteq lhsContinuous[e]
    BY <1>7 DEF generateLogicConesGraph, TypeOK
  <2>4. first' \in [Decls -> SUBSET Decls] /\ second' \in [Decls -> SUBSET Decls]
    BY <1>7, <2>1 DEF generateLogicConesGraph, TypeOK
  <2>5. QED BY <1>7, <2>2, <2>3, <2>4 DEF generateLogicConesGraph, TypeOK, ContsInv
<1>8. ASSUME NEW d \in Decls, BeginMerge(d)
      PROVE  TypeOK' /\ ContsInv'
  BY <1>8 DEF BeginMerge, TypeOK, ContsInv
<1>9. ASSUME NEW d \in Decls, MergeParent(d)
      PROVE  TypeOK' /\ ContsInv'
  <2>1. sorted[k] \in Decls
    BY <1>9 DEF MergeParent, TypeOK
  <2>2. PICK s \in SetToSeqs(lhsContinuous[sorted[k]]) :
          body' = [body EXCEPT ![d] = Copies("assign", s) \o @]
    BY <1>9 DEF MergeParent
  <2>3. Copies("assign", s) \in Seq(Items)
    BY <2>1, CopiesAreBodies
  <2>4. Copies("assign", s) \o body[d] \in Seq(Items)
    BY <2>3, ConcatType DEF TypeOK
  <2>5. body' \in [Decls -> Seq(Items)]
    BY <2>2, <2>4 DEF TypeOK
  <2>6. first' \in [Decls -> SUBSET Decls] /\ second' \in [Decls -> SUBSET Decls]
    BY <1>9, <2>1 DEF MergeParent, TypeOK
  <2>7. QED BY <1>9, <2>5, <2>6 DEF MergeParent, TypeOK, ContsInv
<1>10. ASSUME NEW d \in Decls, SkipParent(d)
       PROVE  TypeOK' /\ ContsInv'
  BY <1>10 DEF SkipParent, TypeOK, ContsInv
<1>11. ASSUME NEW d \in Decls, EndMerge(d)
       PROVE  TypeOK' /\ ContsInv'
  BY <1>11 DEF EndMerge, TypeOK, ContsInv
<1>12. ASSUME NEW d \in Decls, addConesPCalls(d)
       PROVE  TypeOK' /\ ContsInv'
  <2>1. [op |-> "call", cone |-> d] \in Items
    BY DEF Items
  <2>2. PICK pos \in [Hosts(d) -> UNION {MentionsAt(c, d) : c \in Hosts(d)}] :
          /\ \A c \in Hosts(d) : IsFirstMention(pos[c], c, d)
          /\ body' = [c \in Decls |->
                         IF c \in Hosts(d)
                         THEN InsertAt(body[c], pos[c], [op |-> "call", cone |-> d])
                         ELSE body[c]]
    BY <1>12 DEF addConesPCalls
  <2>3. \A c \in Hosts(d) : c \in Decls => InsertAt(body[c], pos[c], [op |-> "call", cone |-> d]) \in Seq(Items)
    <3> TAKE c \in Hosts(d)
    <3> HAVE c \in Decls
    <3>1. pos[c] \in DOMAIN body[c]
      BY <2>2 DEF IsFirstMention, MentionsAt, Assigned
    <3>2. body[c] \in Seq(Items)
      BY DEF TypeOK
    <3>3. QED BY <2>1, <3>1, <3>2, InsertAtType
  <2>4. body' \in [Decls -> Seq(Items)]
    BY <2>2, <2>3 DEF TypeOK
  <2>5. calls' \in [Acts -> SUBSET Decls]
    BY <1>12 DEF addConesPCalls, AddedCalls, TypeOK
  <2>6. QED BY <1>12, <2>4, <2>5 DEF addConesPCalls, TypeOK, ContsInv
<1>13. ASSUME NEW d \in Decls, fixSensitivities(d)
       PROVE  TypeOK' /\ ContsInv'
  <2>1. \A e \in Decls : Roots(e) \subseteq Decls
    BY DEF Roots
  <2>2. sensMap' \in [Decls -> SUBSET Decls]
    BY <1>13, <2>1 DEF fixSensitivities, calculateParentNodes, TypeOK
  <2>3. RootEntries(d) \subseteq Refs
    BY <2>1 DEF RootEntries, Sensitivities, TypeOK, Refs
  <2>4. refs' \subseteq Refs
    BY <1>13, <2>3 DEF fixSensitivities, TypeOK
  <2>5. QED BY <1>13, <2>2, <2>4 DEF fixSensitivities, TypeOK, ContsInv
<1>14. ASSUME NEW d \in Decls, SpinOnWaitCondition(d)
       PROVE  TypeOK' /\ ContsInv'
  BY <1>14 DEF SpinOnWaitCondition, vars, TypeOK, ContsInv
<1>15. ASSUME NEW d \in Decls, clearContinuousAssigns(d)
       PROVE  TypeOK' /\ ContsInv'
  BY <1>15 DEF clearContinuousAssigns, TypeOK, ContsInv
<1>16. CASE UNCHANGED vars
  BY <1>16 DEF vars, TypeOK, ContsInv
<1>17. QED
  BY <1>1, <1>2, <1>3, <1>4, <1>5, <1>6, <1>7, <1>8, <1>9, <1>10, <1>11, <1>12, <1>13,
     <1>14, <1>15, <1>16 DEF Next, fixLogicCones, StepOf, Returned

(* TypeOK is an invariant: whatever the order of the loops, the graph, the     *)
(* cone bodies, the calls and the sensitivity map stay well typed, and a cone  *)
(* is only ever filled with assignments to the net whose infos it reads.       *)
THEOREM TypeCorrect == Spec => []TypeOK
<1>1. TypeOK /\ ContsInv /\ [Next]_vars => TypeOK' /\ ContsInv'
  BY StepType
<1>2. QED BY InitType, <1>1, PTL DEF Spec

-----------------------------------------------------------------------------
(* Cones never reach themselves. The rank that orders the continuous           *)
(* assignments of the design also orders everything that is built from them:   *)
(* the graph, also after parents have been merged, the assignments in a cone,  *)
(* the references to nets from a cone, and so the calls.                       *)
Below(rank, S, d) == \A s \in S : rank[s] < rank[d]

FirstDescends(rank) == \A d \in Decls : Below(rank, first[d], d)

(* What the body of the cone c may hold. *)
GoodItems(rank, c) ==
    {it \in Items :
        /\ it.op \in {"assign", "assignTmp"} =>
              it.asg \in design.conts /\ (it.asg.tgt = c \/ rank[it.asg.tgt] < rank[c])
        /\ it.op = "call" => rank[it.cone] < rank[c]}

BodiesDescend(rank) == \A c \in Decls : body[c] \in Seq(GoodItems(rank, c))

ConeRefsDescend(rank) == \A r \in coneRefs : r.decl = r.cone \/ rank[r.decl] < rank[r.cone]

RankInv(rank) ==
    /\ rank \in Ranks
    /\ Layered(design.conts, rank)
    /\ FirstDescends(rank)
    /\ BodiesDescend(rank)
    /\ ConeRefsDescend(rank)

CallsInv == \E rank \in Ranks : RankInv(rank)

(* A rank is a number, so ranks can be compared. *)
LEMMA RankType ==
    ASSUME NEW rank \in Ranks
    PROVE  \A d \in Decls : rank[d] \in Nat
<1>1. Cardinality(Decls) \in Nat
  BY DeclsAssumption, FS_CardinalityType
<1>2. QED BY <1>1 DEF Ranks

(* The copies of the assignments to p may stand in the cone of d if p is d or  *)
(* lies below d.                                                               *)
LEMMA CopiesDescend ==
    ASSUME TypeOK, ContsInv, NEW rank, NEW p \in Decls, NEW d \in Decls,
           p = d \/ rank[p] < rank[d],
           NEW s \in SetToSeqs(lhsContinuous[p]), NEW op \in {"assign", "assignTmp"}
    PROVE  Copies(op, s) \in Seq(GoodItems(rank, d))
<1>1. s \in Seq(lhsContinuous[p])
  BY FiniteDrivers, EnumerationIsSeq
<1>2. ASSUME NEW a \in lhsContinuous[p]
      PROVE  [op |-> op, asg |-> a] \in GoodItems(rank, d)
  <2>1. a \in design.conts /\ a.tgt = p /\ a \in ContAssigns
    BY DEF ContsInv, TypeOK
  <2>2. [op |-> op, asg |-> a] \in Items
    BY <2>1, AssignItems
  <2>3. QED BY <2>1, <2>2 DEF GoodItems
<1>3. QED BY <1>1, <1>2, CopiesType

(* The rank of the design orders the empty graph. *)
LEMMA InitRank == Init => CallsInv
<1> SUFFICES ASSUME Init PROVE CallsInv
  OBVIOUS
<1>1. PICK rank \in Ranks : Layered(design.conts, rank)
  BY DesignsAssumption DEF Init, WellFormed
<1>2. FirstDescends(rank) /\ ConeRefsDescend(rank)
  BY DEF Init, FirstDescends, Below, ConeRefsDescend
<1>3. BodiesDescend(rank)
  BY DEF Init, BodiesDescend
<1>4. QED BY <1>1, <1>2, <1>3 DEF CallsInv, RankInv

(* Every step of fixLogicCones keeps the order. *)
LEMMA StepRank ==
    ASSUME TypeOK, ContsInv, NEW rank \in Ranks, RankInv(rank), [Next]_vars
    PROVE  RankInv(rank)'
<1> USE RankType
<1>0. design' = design /\ \A c \in Decls : GoodItems(rank, c)' = GoodItems(rank, c)
  <2>1. design' = design
    BY DEF Next, fixLogicCones, StepOf, Returned, vars, sortGraph, generateConeFunction, SkipCone,
           EndCones, updateInfos, EndLoop, generateLogicConesGraph, BeginMerge, MergeParent,
           SkipParent, EndMerge, addConesPCalls, fixSensitivities, SpinOnWaitCondition,
           clearContinuousAssigns
  <2>2. QED BY <2>1 DEF GoodItems
<1>1. ASSUME UNCHANGED <<design, first, body, coneRefs>>
      PROVE  RankInv(rank)'
  BY <1>0, <1>1 DEF RankInv, Layered, FirstDescends, Below, BodiesDescend, ConeRefsDescend
<1>2. CASE generateConeFunction
  <2>1. sorted[k] \in Decls
    BY <1>2 DEF generateConeFunction, TypeOK
  <2>2. PICK s \in SetToSeqs(lhsContinuous[sorted[k]]) :
          body' = [body EXCEPT ![sorted[k]] =
                      Copies(IF IsMixedTarget(sorted[k]) THEN "assignTmp" ELSE "assign", s)]
    BY <1>2 DEF generateConeFunction
  <2>3. Copies(IF IsMixedTarget(sorted[k]) THEN "assignTmp" ELSE "assign", s)
            \in Seq(GoodItems(rank, sorted[k]))
    BY <2>1, CopiesDescend
  <2>4. BodiesDescend(rank)'
    BY <1>0, <2>1, <2>2, <2>3 DEF RankInv, BodiesDescend, TypeOK
  <2>5. QED BY <1>2, <2>4
          DEF generateConeFunction, infoVars, graphVars, RankInv, Layered, FirstDescends, Below, ConeRefsDescend
<1>3. CASE updateInfos
  <2>1. ConeRefsDescend(rank)'
    <3> SUFFICES ASSUME NEW r \in coneRefs'
                 PROVE  r.decl = r.cone \/ rank[r.decl] < rank[r.cone]
      BY DEF ConeRefsDescend
    <3>1. r \in ConeRefs /\ r.decl \in ReadsOf(r.cone) \cup WritesOf(r.cone)
      BY <1>3 DEF updateInfos
    <3>2. r.decl \in Decls /\ r.cone \in Decls
      BY <3>1 DEF ConeRefs
    <3>3. PICK i \in Assigned(r.cone) :
              r.decl \in body[r.cone][i].asg.srcs \cup {body[r.cone][i].asg.tgt}
      BY <3>1 DEF ReadsOf, WritesOf
    <3> DEFINE a == body[r.cone][i].asg
    <3>4. body[r.cone][i] \in GoodItems(rank, r.cone)
      BY <3>2, <3>3 DEF Assigned, RankInv, BodiesDescend
    <3>5. a \in design.conts /\ (a.tgt = r.cone \/ rank[a.tgt] < rank[r.cone])
      BY <3>3, <3>4 DEF Assigned, GoodItems
    <3>6. a.tgt \in Decls
      BY <3>5, WellFormedDesign DEF TypeOK, ContAssigns
    <3>7. r.decl = a.tgt \/ rank[r.decl] < rank[a.tgt]
      BY <3>3, <3>5 DEF RankInv, Layered
    <3> HIDE DEF a
    <3>8. QED BY <3>2, <3>5, <3>6, <3>7
  <2>2. QED BY <1>0, <1>3, <2>1
          DEF updateInfos, graphVars, coneVars, RankInv, Layered, FirstDescends, Below, BodiesDescend
<1>4. ASSUME NEW d \in Decls, generateLogicConesGraph(d)
      PROVE  RankInv(rank)'
  <2>1. Below(rank, GraphSources(d), d)
    BY DEF Below, GraphSources, ContsInv, RankInv, Layered
  <2>2. FirstDescends(rank)'
    BY <1>4, <2>1 DEF generateLogicConesGraph, RankInv, FirstDescends, Below, TypeOK
  <2>3. QED BY <1>0, <1>4, <2>2
          DEF generateLogicConesGraph, coneVars, RankInv, Layered, BodiesDescend, ConeRefsDescend
<1>5. ASSUME NEW d \in Decls, MergeParent(d)
      PROVE  RankInv(rank)'
  <2>1. sorted[k] \in Decls /\ sorted[k] \in first[d]
    BY <1>5 DEF MergeParent, IsMergeable, TypeOK
  <2>2. rank[sorted[k]] < rank[d]
    BY <2>1 DEF RankInv, FirstDescends, Below
  <2>3. PICK s \in SetToSeqs(lhsContinuous[sorted[k]]) :
          body' = [body EXCEPT ![d] = Copies("assign", s) \o @]
    BY <1>5 DEF MergeParent
  <2>4. Copies("assign", s) \in Seq(GoodItems(rank, d))
    BY <2>1, <2>2, CopiesDescend
  <2>5. Copies("assign", s) \o body[d] \in Seq(GoodItems(rank, d))
    BY <2>4, ConcatType DEF RankInv, BodiesDescend
  <2>6. BodiesDescend(rank)'
    BY <1>0, <2>3, <2>5 DEF RankInv, BodiesDescend, TypeOK
  <2>7. Below(rank, first[sorted[k]], d)
    <3> SUFFICES ASSUME NEW g \in first[sorted[k]] PROVE rank[g] < rank[d]
      BY DEF Below
    <3>1. g \in Decls /\ rank[g] < rank[sorted[k]]
      BY <2>1 DEF RankInv, FirstDescends, Below, TypeOK
    <3>2. QED BY <2>1, <2>2, <3>1
  <2>8. FirstDescends(rank)'
    BY <1>5, <2>7 DEF MergeParent, RankInv, FirstDescends, Below, TypeOK
  <2>9. QED BY <1>5, <2>6, <2>8
          DEF MergeParent, infoVars, RankInv, Layered, ConeRefsDescend
<1>6. ASSUME NEW d \in Decls, addConesPCalls(d)
      PROVE  RankInv(rank)'
  <2>1. PICK pos \in [Hosts(d) -> UNION {MentionsAt(c, d) : c \in Hosts(d)}] :
          /\ \A c \in Hosts(d) : IsFirstMention(pos[c], c, d)
          /\ body' = [c \in Decls |->
                         IF c \in Hosts(d)
                         THEN InsertAt(body[c], pos[c], [op |-> "call", cone |-> d])
                         ELSE body[c]]
    BY <1>6 DEF addConesPCalls
  <2>2. ASSUME NEW c \in Decls
        PROVE  body'[c] \in Seq(GoodItems(rank, c))
    <3>1. body[c] \in Seq(GoodItems(rank, c))
      BY DEF RankInv, BodiesDescend
    <3>2. CASE c \notin Hosts(d)
      BY <2>1, <3>1, <3>2
    <3>3. CASE c \in Hosts(d)
      <4>1. c # d /\ \E r \in coneRefs : r.decl = d /\ r.cone = c
        BY <3>3 DEF Hosts
      <4>2. rank[d] < rank[c]
        BY <4>1 DEF RankInv, ConeRefsDescend
      <4>3. [op |-> "call", cone |-> d] \in GoodItems(rank, c)
        BY <4>2 DEF GoodItems, Items
      <4>4. pos[c] \in DOMAIN body[c]
        BY <2>1, <3>3 DEF IsFirstMention, MentionsAt, Assigned
      <4>5. QED BY <2>1, <3>1, <3>3, <4>3, <4>4, InsertAtType
    <3>4. QED BY <3>2, <3>3
  <2>3. BodiesDescend(rank)'
    BY <1>0, <2>2 DEF BodiesDescend
  <2>4. QED BY <1>6, <2>3
          DEF addConesPCalls, infoVars, graphVars, RankInv, Layered, FirstDescends, Below, ConeRefsDescend
<1>7. CASE sortGraph \/ SkipCone \/ EndCones \/ EndLoop
  BY <1>1, <1>7 DEF sortGraph, SkipCone, EndCones, EndLoop, infoVars, graphVars, coneVars
<1>8. ASSUME NEW d \in Decls,
             \/ BeginMerge(d) \/ SkipParent(d) \/ EndMerge(d)
             \/ fixSensitivities(d) \/ SpinOnWaitCondition(d) \/ clearContinuousAssigns(d)
      PROVE  RankInv(rank)'
  BY <1>1, <1>8 DEF BeginMerge, SkipParent, EndMerge, fixSensitivities, SpinOnWaitCondition,
                    clearContinuousAssigns, vars, infoVars, graphVars, coneVars
<1>9. CASE UNCHANGED vars
  BY <1>1, <1>9 DEF vars, infoVars, graphVars, coneVars
<1>10. QED
  BY <1>2, <1>3, <1>4, <1>5, <1>6, <1>7, <1>8, <1>9 DEF Next, fixLogicCones, StepOf, Returned

(* The order forbids recursion. *)
LEMMA RankOrdersCalls ==
    ASSUME TypeOK, CallsInv
    PROVE  ConeCallsAcyclic
<1>1. PICK rank \in Ranks : RankInv(rank)
  BY DEF CallsInv
<1>2. ASSUME NEW c \in Decls, NEW d \in CalledBy(c)
      PROVE  rank[d] < rank[c]
  <2>1. PICK i \in DOMAIN body[c] : body[c][i].op = "call" /\ d = body[c][i].cone
    BY <1>2 DEF CalledBy
  <2>2. body[c][i] \in GoodItems(rank, c)
    BY <1>1, <2>1 DEF RankInv, BodiesDescend
  <2>3. QED BY <2>1, <2>2 DEF GoodItems
<1>3. QED BY <1>1, <1>2 DEF ConeCallsAcyclic

(* No generated procedure can reach itself: for every well-formed design and   *)
(* every order of the loops of fixLogicCones there is one rank that every call *)
(* inserted by addConesPCalls descends, so executing a cone always returns.    *)
THEOREM CallsNeverRecurse == Spec => []ConeCallsAcyclic
<1>1. TypeOK /\ ContsInv /\ CallsInv /\ [Next]_vars => TypeOK' /\ ContsInv' /\ CallsInv'
  <2> SUFFICES ASSUME TypeOK, ContsInv, CallsInv, [Next]_vars
               PROVE  TypeOK' /\ ContsInv' /\ CallsInv'
    OBVIOUS
  <2>1. PICK rank \in Ranks : RankInv(rank)
    BY DEF CallsInv
  <2>2. RankInv(rank)'
    BY <2>1, StepRank
  <2>3. QED BY <2>1, <2>2, StepType DEF CallsInv
<1>2. QED BY InitType, InitRank, <1>1, RankOrdersCalls, PTL DEF Spec

-----------------------------------------------------------------------------
(* fixSensitivities takes a computed net out of every list for good: what it   *)
(* puts in is a root, and no root has sources.                                 *)

(* Every step of fixLogicCones keeps the lists of the visited cones clean. *)
LEMMA StepLists ==
    ASSUME TypeOK, ListsNameRoots, [Next]_vars
    PROVE  ListsNameRoots'
<1>1. ASSUME NEW d \in Decls, fixSensitivities(d)
      PROVE  ListsNameRoots'
  <2>1. phase' = phase /\ phase = "sens" /\ cones' = cones /\ first' = first /\ todo' = todo \ {d}
    BY <1>1 DEF fixSensitivities, coneVars, graphVars
  <2>2. SUFFICES ASSUME NEW e \in cones, first[e] # {}, e \notin todo \ {d},
                        NEW r \in Sensitivities(e)'
                 PROVE  FALSE
    BY <2>1 DEF ListsNameRoots
  <2>3. r.decl = e /\ UseOf(r.ctx) \in {"sensitivity", "wait"} /\ r \in refs'
    BY DEF Sensitivities
  <2>4. r \notin RootEntries(d)
    BY <2>2, <2>3 DEF RootEntries, Roots
  <2>5. r \in refs /\ r \notin Sensitivities(d)
    BY <1>1, <2>3, <2>4 DEF fixSensitivities
  <2>6. r \in Sensitivities(e)
    BY <2>3, <2>5 DEF Sensitivities
  <2>7. e # d /\ e \notin todo
    BY <2>2, <2>5, <2>6
  <2>8. QED BY <2>1, <2>2, <2>6, <2>7 DEF ListsNameRoots
<1>2. CASE EndLoop
  <2>1. \/ phase' = "sort"
        \/ phase' = "sens" /\ todo' = cones
        \/ phase = "sens" /\ todo = {} /\ phase' = "clear"
        \/ phase = "clear"
    BY <1>2 DEF EndLoop, Following, LoopOver
  <2>2. cones' = cones /\ first' = first /\ refs' = refs
    BY <1>2 DEF EndLoop, coneVars, graphVars, infoVars
  <2>3. QED BY <2>1, <2>2 DEF ListsNameRoots, Sensitivities
<1>3. ASSUME NEW d \in Decls, clearContinuousAssigns(d)
      PROVE  ListsNameRoots'
  BY <1>3 DEF clearContinuousAssigns, coneVars, graphVars, ListsNameRoots, Sensitivities
<1>4. CASE sortGraph \/ generateConeFunction \/ SkipCone \/ EndCones \/ updateInfos
  BY <1>4 DEF sortGraph, generateConeFunction, SkipCone, EndCones, updateInfos, ListsNameRoots
<1>5. ASSUME NEW d \in Decls,
             \/ generateLogicConesGraph(d) \/ BeginMerge(d) \/ MergeParent(d)
             \/ SkipParent(d) \/ EndMerge(d) \/ addConesPCalls(d)
      PROVE  ListsNameRoots'
  BY <1>5 DEF generateLogicConesGraph, BeginMerge, MergeParent, SkipParent, EndMerge,
              addConesPCalls, ListsNameRoots
<1>6. CASE UNCHANGED vars
  BY <1>6 DEF vars, loopVars, infoVars, graphVars, coneVars, ListsNameRoots, Sensitivities
<1>7. QED
  BY <1>1, <1>2, <1>3, <1>4, <1>5, <1>6
     DEF Next, fixLogicCones, StepOf, Returned, SpinOnWaitCondition

(* From the moment fixSensitivities has visited a cone, no sensitivity list    *)
(* and no wait names its net, whatever the order of the visits.                *)
THEOREM ListsAreRooted == Spec => []ListsNameRoots
<1>1. Init => ListsNameRoots
  BY DEF Init, ListsNameRoots
<1>2. TypeOK /\ ContsInv /\ ListsNameRoots /\ [Next]_vars => ListsNameRoots'
  BY StepLists
<1>3. TypeOK /\ ContsInv /\ [Next]_vars => TypeOK' /\ ContsInv'
  BY StepType
<1>4. QED BY InitType, <1>1, <1>2, <1>3, PTL DEF Spec

-----------------------------------------------------------------------------
(* Calls are inserted in front of every access that infoMap counts as one.     *)

Served(d) == \A r \in design.refs : r.decl = d /\ UseOf(r.ctx) \in AccessUses => d \in calls[r.at]

ServedInv ==
    /\ phase \in {"graph", "sort", "cones", "merge", "calls"} => refs = design.refs
    /\ phase = "calls" => \A d \in cones \ todo : Served(d)
    /\ phase \in {"sens", "clear", "refine"} => \A d \in cones : Served(d)

(* Every step of fixLogicCones keeps the accesses of the visited cones served. *)
LEMMA StepServed ==
    ASSUME TypeOK, ServedInv, [Next]_vars
    PROVE  ServedInv'
<1>1. ASSUME NEW d \in Decls, addConesPCalls(d)
      PROVE  ServedInv'
  <2>1. /\ phase = "calls" /\ phase' = phase /\ refs' = refs /\ design' = design
        /\ cones' = cones /\ todo' = todo \ {d} /\ calls' = AddedCalls(d)
    BY <1>1 DEF addConesPCalls, infoVars
  <2>2. refs = design.refs /\ refs \subseteq Refs
    BY <2>1 DEF ServedInv, TypeOK
  <2>3. \A r \in design.refs : r.at \in Acts /\ calls[r.at] \subseteq calls'[r.at]
    BY <2>1, <2>2 DEF AddedCalls, Refs
  <2>4. Served(d)'
    <3> SUFFICES ASSUME NEW r \in design.refs, r.decl = d, UseOf(r.ctx) \in AccessUses
                 PROVE  d \in calls'[r.at]
      BY <2>1 DEF Served
    <3>1. r.at \in Accesses(d)
      BY <2>2 DEF Accesses
    <3>2. QED BY <2>1, <2>3, <3>1 DEF AddedCalls
  <2>5. \A e \in cones \ todo : Served(e)'
    BY <2>1, <2>3 DEF ServedInv, Served
  <2>6. QED BY <2>1, <2>2, <2>4, <2>5 DEF ServedInv
<1>2. CASE EndLoop
  <2>1. \/ phase = "graph" /\ phase' = "sort"
        \/ phase = "calls" /\ todo = {} /\ phase' = "sens"
        \/ phase = "sens" /\ phase' = "clear"
        \/ phase = "clear" /\ phase' = "refine"
    BY <1>2 DEF EndLoop, Following
  <2>2. UNCHANGED <<design, refs, cones, calls>>
    BY <1>2 DEF EndLoop, coneVars, infoVars
  <2>3. QED BY <2>1, <2>2 DEF ServedInv, Served
<1>3. CASE updateInfos
  BY <1>3 DEF updateInfos, coneVars, ServedInv, Served
<1>4. CASE sortGraph \/ generateConeFunction \/ SkipCone \/ EndCones
  BY <1>4 DEF sortGraph, generateConeFunction, SkipCone, EndCones, infoVars, ServedInv
<1>5. ASSUME NEW d \in Decls,
             \/ generateLogicConesGraph(d) \/ BeginMerge(d) \/ MergeParent(d)
             \/ SkipParent(d) \/ EndMerge(d)
      PROVE  ServedInv'
  BY <1>5 DEF generateLogicConesGraph, BeginMerge, MergeParent, SkipParent, EndMerge,
              infoVars, ServedInv
<1>6. ASSUME NEW d \in Decls, fixSensitivities(d) \/ clearContinuousAssigns(d)
      PROVE  ServedInv'
  BY <1>6 DEF fixSensitivities, clearContinuousAssigns, coneVars, ServedInv, Served
<1>7. CASE UNCHANGED vars
  BY <1>7 DEF vars, loopVars, infoVars, coneVars, ServedInv, Served
<1>8. QED
  BY <1>1, <1>2, <1>3, <1>4, <1>5, <1>6, <1>7
     DEF Next, fixLogicCones, StepOf, Returned, SpinOnWaitCondition

(* What is accessed is refreshed if infoMap counts it as an access. *)
LEMMA ServedIsRefreshed ==
    ASSUME \A D \in Designs : \A r \in D.refs : r.ctx \notin {"callInout", "callOutIndex"},
           TypeOK, ServedInv
    PROVE  AccessesRefreshed
<1> SUFFICES ASSUME OnExit, NEW r \in design.refs, r.ctx \in ReadContexts, r.decl \in cones
             PROVE  r.decl \in calls[r.at]
  BY DEF AccessesRefreshed
<1>1. r.ctx \in {"callIn", "assignRhs", "condition"}
  BY DEF TypeOK, ReadContexts
<1>2. UseOf(r.ctx) = "read"
  BY <1>1 DEF UseOf, getWritingCallFormal
<1>3. Served(r.decl)
  BY DEF ServedInv, OnExit
<1>4. QED BY <1>2, <1>3 DEF Served, AccessUses

(* In a design where no declaration with a cone can be an inout argument or an *)
(* index of an out argument, every action that needs the value of a net with a *)
(* cone is preceded by a call of the cone. Section 5 of the README describes   *)
(* what the code does in the two excluded contexts.                            *)
THEOREM AccessesAreServed ==
    ASSUME \A D \in Designs : \A r \in D.refs : r.ctx \notin {"callInout", "callOutIndex"}
    PROVE  Spec => []AccessesRefreshed
<1>1. Init => ServedInv
  BY DEF Init, fillInfoMap, ServedInv
<1>2. TypeOK /\ ServedInv /\ [Next]_vars => ServedInv'
  BY StepServed
<1>3. TypeOK /\ ContsInv /\ [Next]_vars => TypeOK' /\ ContsInv'
  BY StepType
<1>4. TypeOK /\ ServedInv => AccessesRefreshed
  BY ServedIsRefreshed
<1>5. QED BY InitType, <1>1, <1>2, <1>3, <1>4, PTL DEF Spec

-----------------------------------------------------------------------------
(* Drivers are deleted only where a cone has taken their place. Up to the last *)
(* function the references are those of the design, so that a net which a      *)
(* process, list or instance uses has a node in the graph and then a cone.     *)

(* A port, or something the code can tell from its references will be written  *)
(* or waited for.                                                              *)
Changes(D, s) ==
    \/ s \in D.ports
    \/ \E r \in D.refs : r.decl = s /\ UseOf(r.ctx) \in
            {"port", "bind", "sensitivity", "wait", "lhsNonBlocking", "lhsBlocking"}

NamesLive(D, c) == \E q \in c.srcs \ {c.tgt} : Changes(D, q)

(* An assignment that names a parameter or a function also names a signal that *)
(* will change, or a net that is computed from one.                            *)
ExtDriversAreLive(D) ==
    \A c \in D.conts : c.ext =>
        NamesLive(D, c) \/ \E b \in D.conts : b.tgt \in c.srcs \ {c.tgt} /\ NamesLive(D, b)

IsUsed(d) == ~isOnlyInContinuousAssignments(UsesOnEntry(d))

EntryRefsInv ==
    phase \in {"graph", "sort", "cones"} => refs = design.refs /\ coneRefs = {}

(* An assignment that names something that changes is never taken as constant. *)
LiveInv ==
    phase = "graph" => \A c \in design.conts : NamesLive(design, c) =>
        c \in lhsContinuous[c.tgt] /\ wasLhsContinuous[c.tgt]

(* A net of G whose drivers were not taken as constant is a target of the       *)
(* graph, then in the sorted graph, then, if it is used, in conesMap.          *)
NodesInv(G) ==
    /\ phase = "graph" => \A d \in G \ todo : lhsContinuous[d] # {} => first[d] # {}
    /\ phase = "sort" => \A d \in G : lhsContinuous[d] # {} => first[d] # {}
    /\ phase = "cones" => \A d \in G : lhsContinuous[d] # {} =>
                               \E i \in DOMAIN sorted : sorted[i] = d

HasCone(d) == lhsContinuous[d] # {} /\ IsUsed(d) => d \in cones

HasConeInv(G) ==
    /\ phase = "cones" => k \in Nat \ {0} /\ \A i \in DOMAIN sorted : i < k => HasCone(sorted[i])
    /\ phase \in {"merge", "calls", "sens", "clear"} => \A d \in G : HasCone(d)

DriversInv(G) == EntryRefsInv /\ NodesInv(G) /\ HasConeInv(G)

(* While the graph is built, what changes is a source of the graph. *)
LEMMA LiveSources ==
    ASSUME TypeOK, EntryRefsInv, phase = "graph", NEW s \in Decls,
           Changes(design, s) \/ wasLhsContinuous[s]
    PROVE  StaysSource(s)
<1>1. CASE Changes(design, s)
  <2>1. \A r \in design.refs : r.decl = s => UseOf(r.ctx) \in Uses(s)
    BY DEF EntryRefsInv, Uses
  <2>2. QED BY <1>1, <2>1 DEF Changes, StaysSource, isSignal, isConnectionSignal, isVariable
<1>2. CASE wasLhsContinuous[s]
  BY <1>2 DEF StaysSource, isVariable
<1>3. QED BY <1>1, <1>2

(* The visit of a net leaves it without drivers or with a source. *)
LEMMA GraphDrivers ==
    ASSUME TypeOK, ContsInv, EntryRefsInv, LiveInv, ExtDriversAreLive(design),
           NEW d \in Decls, generateLogicConesGraph(d)
    PROVE  LiveInv' /\ (lhsContinuous'[d] # {} => first'[d] # {})
<1>1. /\ phase = "graph" /\ phase' = "graph" /\ design' = design
      /\ first' = [first EXCEPT ![d] = @ \cup GraphSources(d)]
  BY DEF generateLogicConesGraph
<1>2. ASSUME NEW c \in lhsContinuous[d], NEW s \in c.srcs \ {d},
             Changes(design, s) \/ wasLhsContinuous[s]
      PROVE  s \in GraphSources(d)
  <2>1. s \in Decls
    BY DEF TypeOK, ContAssigns
  <2>2. QED BY <1>1, <1>2, <2>1, LiveSources DEF GraphSources
<1>3. ASSUME NEW c \in lhsContinuous[d], c.ext PROVE GraphSources(d) # {}
  <2>1. c \in design.conts /\ c.tgt = d
    BY DEF ContsInv
  <2>2. CASE NamesLive(design, c)
    BY <1>2, <2>1, <2>2 DEF NamesLive
  <2>3. CASE \E b \in design.conts : b.tgt \in c.srcs \ {c.tgt} /\ NamesLive(design, b)
    <3>1. PICK b \in design.conts : b.tgt \in c.srcs \ {c.tgt} /\ NamesLive(design, b)
      BY <2>3
    <3>2. wasLhsContinuous[b.tgt]
      BY <1>1, <3>1 DEF LiveInv
    <3>3. QED BY <1>2, <2>1, <3>1, <3>2
  <2>4. QED BY <1>3, <2>1, <2>2, <2>3 DEF ExtDriversAreLive
<1>4. CASE hasOnlyConstantDrivers(d)
  <2>1. /\ lhsContinuous' = [lhsContinuous EXCEPT ![d] = {}]
        /\ wasLhsContinuous' = [wasLhsContinuous EXCEPT ![d] = FALSE]
    BY <1>4 DEF generateLogicConesGraph
  <2>2. LiveInv'
    <3> SUFFICES ASSUME NEW c \in design.conts, NamesLive(design, c)
                 PROVE  c \in lhsContinuous'[c.tgt] /\ wasLhsContinuous'[c.tgt]
      BY <1>1 DEF LiveInv, NamesLive, Changes
    <3>1. c \in lhsContinuous[c.tgt] /\ wasLhsContinuous[c.tgt]
      BY <1>1 DEF LiveInv
    <3>2. c.tgt # d
      BY <1>2, <1>4, <3>1 DEF NamesLive, hasOnlyConstantDrivers
    <3>3. c.tgt \in Decls
      BY WellFormedDesign DEF TypeOK, ContAssigns
    <3>4. QED BY <2>1, <3>1, <3>2, <3>3 DEF TypeOK
  <2>3. lhsContinuous'[d] = {}
    BY <2>1 DEF TypeOK
  <2>4. QED BY <2>2, <2>3
<1>5. CASE ~hasOnlyConstantDrivers(d)
  <2>1. UNCHANGED <<lhsContinuous, wasLhsContinuous>>
    BY <1>5 DEF generateLogicConesGraph
  <2>2. LiveInv'
    BY <1>1, <2>1 DEF LiveInv, NamesLive, Changes
  <2>3. lhsContinuous'[d] # {} => GraphSources(d) # {}
    BY <1>3, <1>5, <2>1 DEF hasOnlyConstantDrivers
  <2>4. QED BY <1>1, <2>2, <2>3 DEF TypeOK
<1>6. QED BY <1>4, <1>5

(* Whether a net needs a cone is decided by the references of the design. *)
LEMMA NeedsConeOnEntry ==
    ASSUME EntryRefsInv, phase = "cones", NEW d \in Decls
    PROVE  NeedsCone(d) <=> lhsContinuous[d] # {} /\ IsUsed(d)
<1>1. Uses(d) \ {"lhsContinuous"} = UsesOnEntry(d) \ {"lhsContinuous"}
  BY DEF EntryRefsInv, Uses, UsesOnEntry
<1>2. QED BY <1>1 DEF NeedsCone, IsUsed, isOnlyInContinuousAssignments

(* The next net of the sorted graph adds itself to those that have a cone. *)
LEMMA NextCone ==
    ASSUME TypeOK, NEW G, HasConeInv(G), phase = "cones", phase' = "cones", k' = k + 1,
           cones \subseteq cones', UNCHANGED <<design, sorted, lhsContinuous>>,
           NEW n \in Decls, n = sorted[k], HasCone(n)'
    PROVE  HasConeInv(G)'
<1>1. k \in Nat \ {0} /\ k' \in Nat \ {0} /\ \A i \in DOMAIN sorted : i \in Nat
  BY DEF HasConeInv, TypeOK
<1>2. ASSUME NEW i \in DOMAIN sorted, i < k' PROVE HasCone(sorted[i])'
  <2>1. CASE i = k
    BY <2>1
  <2>2. CASE i # k
    <3>1. i < k
      BY <1>1, <1>2, <2>2
    <3>2. HasCone(sorted[i])
      BY <3>1 DEF HasConeInv
    <3>3. QED BY <3>2 DEF HasCone, IsUsed, UsesOnEntry
  <2>3. QED BY <2>1, <2>2
<1>3. QED BY <1>1, <1>2 DEF HasConeInv

(* Every other function of fixLogicCones keeps the drivers it needs. *)
LEMMA StepDrivers ==
    ASSUME TypeOK, ContsInv, NEW G \in SUBSET Decls, DriversInv(G), [Next]_vars,
           \A d \in G : generateLogicConesGraph(d) => (lhsContinuous'[d] # {} => first'[d] # {})
    PROVE  DriversInv(G)'
<1> USE DEF infoVars, graphVars, coneVars, loopVars
<1>1. CASE sortGraph
  <2>1. PICK s \in SetToSeqs(GraphNodes) : sorted' = s
    BY <1>1 DEF sortGraph
  <2>2. IsFiniteSet(GraphNodes)
    BY DeclsAssumption, FS_Subset DEF GraphNodes
  <2>3. \A d \in G : lhsContinuous[d] # {} => d \in GraphNodes
    BY <1>1 DEF sortGraph, DriversInv, NodesInv, GraphNodes
  <2>4. \A d \in GraphNodes : \E i \in DOMAIN s : s[i] = d
    BY <2>1, <2>2, EnumerationCovers
  <2>5. /\ phase = "sort" /\ phase' = "cones" /\ k' = 1
        /\ UNCHANGED <<design, infoVars>>
    BY <1>1 DEF sortGraph
  <2>6. EntryRefsInv' /\ NodesInv(G)'
    BY <2>1, <2>3, <2>4, <2>5 DEF DriversInv, EntryRefsInv, NodesInv
  <2>7. \A i \in DOMAIN sorted' : ~(i < k')
    <3>1. DOMAIN sorted' = 1 .. Cardinality(GraphNodes)
      BY <2>1 DEF SetToSeqs
    <3>2. QED BY <2>2, <2>5, <3>1, FS_CardinalityType
  <2>8. QED BY <2>5, <2>6, <2>7 DEF DriversInv, HasConeInv
<1>2. CASE generateConeFunction
  <2>1. /\ phase = "cones" /\ phase' = "cones" /\ k' = k + 1 /\ sorted' = sorted
        /\ k \in DOMAIN sorted /\ cones' = cones \cup {sorted[k]} /\ design' = design
        /\ UNCHANGED infoVars
    BY <1>2 DEF generateConeFunction
  <2>2. PICK n \in Decls : n = sorted[k]
    BY <2>1 DEF TypeOK
  <2>3. HasConeInv(G)'
    BY <2>1, <2>2, NextCone DEF DriversInv, HasCone
  <2>4. QED BY <2>1, <2>3 DEF DriversInv, EntryRefsInv, NodesInv
<1>3. CASE SkipCone
  <2>1. /\ phase = "cones" /\ phase' = "cones" /\ k' = k + 1 /\ sorted' = sorted
        /\ k \in DOMAIN sorted /\ cones' = cones /\ design' = design
        /\ UNCHANGED infoVars
    BY <1>3 DEF SkipCone
  <2>2. PICK n \in Decls : n = sorted[k] /\ ~NeedsCone(n)
    BY <1>3 DEF SkipCone, TypeOK
  <2>3. HasCone(n)
    BY <2>1, <2>2, NeedsConeOnEntry DEF DriversInv, HasCone
  <2>4. HasConeInv(G)'
    <3>1. HasCone(n)'
      BY <2>1, <2>3 DEF HasCone, IsUsed, UsesOnEntry
    <3>2. QED BY <2>1, <2>2, <3>1, NextCone DEF DriversInv
  <2>5. QED BY <2>1, <2>4 DEF DriversInv, EntryRefsInv, NodesInv
<1>4. CASE EndCones
  <2>1. /\ phase = "cones" /\ phase' = "merge" /\ k \notin DOMAIN sorted
        /\ UNCHANGED <<design, infoVars, cones>>
    BY <1>4 DEF EndCones
  <2>2. \A i \in DOMAIN sorted : i < k
    BY <2>1 DEF DriversInv, HasConeInv, TypeOK
  <2>3. \A d \in G : HasCone(d)
    BY <2>1, <2>2 DEF DriversInv, HasConeInv, NodesInv, HasCone
  <2>4. QED
    BY <2>1, <2>3 DEF DriversInv, EntryRefsInv, NodesInv, HasConeInv, HasCone,
                      IsUsed, UsesOnEntry
<1>5. CASE EndLoop
  <2>1. /\ phase \in {"graph", "calls", "sens", "clear"} /\ todo = {}
        /\ phase' = Following[phase] /\ UNCHANGED <<design, infoVars, first, cones>>
    BY <1>5 DEF EndLoop, Following
  <2>2. CASE phase = "graph"
    BY <2>1, <2>2 DEF Following, DriversInv, EntryRefsInv, NodesInv, HasConeInv
  <2>3. CASE phase # "graph"
    <3>1. phase' \in {"sens", "clear", "refine"}
      BY <2>1, <2>3 DEF Following
    <3>2. QED
      BY <2>1, <2>3, <3>1 DEF DriversInv, EntryRefsInv, NodesInv, HasConeInv,
                              HasCone, IsUsed, UsesOnEntry
  <2>4. QED BY <2>2, <2>3
<1>6. ASSUME phase \in {"merge", "calls", "sens", "clear"}, UNCHANGED <<design, cones>>,
             phase' \in {"merge", "calls", "sens", "clear"},
             \A d \in Decls : lhsContinuous'[d] \subseteq lhsContinuous[d]
      PROVE  DriversInv(G)'
  BY <1>6 DEF DriversInv, EntryRefsInv, NodesInv, HasConeInv, HasCone, IsUsed, UsesOnEntry
<1>7. CASE updateInfos
  BY <1>6, <1>7 DEF updateInfos
<1>8. ASSUME NEW d \in Decls, generateLogicConesGraph(d) PROVE DriversInv(G)'
  <2>1. /\ phase = "graph" /\ phase' = "graph" /\ design' = design /\ refs' = refs
        /\ coneRefs' = coneRefs /\ d \in todo /\ todo' = todo \ {d}
    BY <1>8 DEF generateLogicConesGraph
  <2>2. \A e \in Decls \ {d} : lhsContinuous'[e] = lhsContinuous[e] /\ first'[e] = first[e]
    BY <1>8 DEF generateLogicConesGraph, TypeOK
  <2>3. \A e \in G \ todo' : lhsContinuous'[e] # {} => first'[e] # {}
    BY <1>8, <2>1, <2>2 DEF DriversInv, NodesInv
  <2>4. QED BY <2>1, <2>3 DEF DriversInv, EntryRefsInv, NodesInv, HasConeInv
<1>9. ASSUME NEW d \in Decls, BeginMerge(d) \/ MergeParent(d) \/ SkipParent(d) \/ EndMerge(d)
      PROVE  DriversInv(G)'
  BY <1>6, <1>9 DEF BeginMerge, MergeParent, SkipParent, EndMerge
<1>10. ASSUME NEW d \in Decls, addConesPCalls(d) \/ fixSensitivities(d) PROVE DriversInv(G)'
  BY <1>6, <1>10 DEF addConesPCalls, fixSensitivities
<1>11. ASSUME NEW d \in Decls, clearContinuousAssigns(d) PROVE DriversInv(G)'
  <2>1. \A e \in Decls : lhsContinuous'[e] \subseteq lhsContinuous[e]
    BY <1>11 DEF clearContinuousAssigns, TypeOK
  <2>2. QED BY <1>6, <1>11, <2>1 DEF clearContinuousAssigns
<1>12. CASE UNCHANGED vars
  BY <1>12 DEF vars, DriversInv, EntryRefsInv, NodesInv,
               HasConeInv, HasCone, IsUsed, UsesOnEntry
<1>13. QED
  BY <1>1, <1>2, <1>3, <1>4, <1>5, <1>7, <1>8, <1>9, <1>10, <1>11, <1>12
     DEF Next, fixLogicCones, StepOf, Returned, SpinOnWaitCondition

(* Only the visits of the graph change what it is built from. *)
LEMMA LeavesGraph ==
    ASSUME [Next]_vars, phase' = "graph"
    PROVE  \/ \E d \in Decls : generateLogicConesGraph(d)
           \/ phase = "graph" /\ UNCHANGED <<design, todo, lhsContinuous, wasLhsContinuous, first>>
<1>1. ~EndLoop
  BY DEF EndLoop, Following
<1>2. QED
  BY <1>1 DEF Next, fixLogicCones, StepOf, Returned, vars, infoVars, graphVars, coneVars, loopVars,
         sortGraph, generateConeFunction, SkipCone, EndCones, updateInfos, BeginMerge,
         MergeParent, SkipParent, EndMerge, addConesPCalls, fixSensitivities,
         SpinOnWaitCondition, clearContinuousAssigns

(* If every continuous assignment that names a parameter or a function also     *)
(* names a signal that changes, or a net computed from one, then an assignment  *)
(* leaves the tree only for the cone of its target, or because nothing outside  *)
(* the continuous assignments uses the target. Section 5 of the README          *)
(* describes the assignments that name parameters or functions alone.           *)
THEOREM NoDriverIsLost ==
    ASSUME \A D \in Designs : ExtDriversAreLive(D)
    PROVE  Spec => DriversAreReplaced
<1>1. Init => LiveInv /\ DriversInv(Decls)
  <2> SUFFICES ASSUME Init PROVE LiveInv /\ DriversInv(Decls)
    OBVIOUS
  <2>1. \A c \in design.conts : c.tgt \in Decls
    BY WellFormedDesign DEF Init, ContAssigns
  <2>2. QED
    BY <2>1 DEF Init, fillInfoMap, DriversInv, EntryRefsInv, LiveInv, NodesInv, HasConeInv
<1>2. TypeOK /\ ContsInv /\ LiveInv /\ DriversInv(Decls) /\ [Next]_vars
          => LiveInv' /\ DriversInv(Decls)'
  <2> SUFFICES ASSUME TypeOK, ContsInv, LiveInv, DriversInv(Decls), [Next]_vars
               PROVE  LiveInv' /\ DriversInv(Decls)'
    OBVIOUS
  <2>1. ExtDriversAreLive(design)
    BY DEF TypeOK
  <2>2. \A d \in Decls : generateLogicConesGraph(d) =>
            LiveInv' /\ (lhsContinuous'[d] # {} => first'[d] # {})
    BY <2>1, GraphDrivers DEF DriversInv
  <2>3. LiveInv' \/ \E d \in Decls : generateLogicConesGraph(d)
    BY LeavesGraph DEF LiveInv, NamesLive, Changes
  <2>4. QED BY <2>2, <2>3, StepDrivers
<1>3. TypeOK /\ ContsInv /\ [Next]_vars => TypeOK' /\ ContsInv'
  BY StepType
<1>4. ContsInv /\ DriversInv(Decls) /\ [Next]_vars =>
          [\A c \in conts \ conts' :
              c.tgt \in cones \/ isOnlyInContinuousAssignments(UsesOnEntry(c.tgt))]_vars
  <2> SUFFICES ASSUME ContsInv, DriversInv(Decls), [Next]_vars, NEW c \in conts \ conts'
               PROVE  c.tgt \in cones \/ ~IsUsed(c.tgt)
    BY DEF IsUsed
  <2>1. PICK d \in Decls : clearContinuousAssigns(d)
    BY DEF Next, fixLogicCones, StepOf, Returned, vars, infoVars, graphVars, coneVars, loopVars,
           sortGraph, generateConeFunction, SkipCone, EndCones, updateInfos, EndLoop,
           generateLogicConesGraph, BeginMerge, MergeParent, SkipParent, EndMerge,
           addConesPCalls, fixSensitivities, SpinOnWaitCondition
  <2>2. phase = "clear" /\ c \in lhsContinuous[d]
    BY <2>1 DEF clearContinuousAssigns
  <2>3. c.tgt = d
    BY <2>2 DEF ContsInv
  <2>4. QED BY <2>2, <2>3 DEF DriversInv, HasConeInv, HasCone
<1>5. QED BY InitType, <1>1, <1>2, <1>3, <1>4, PTL DEF Spec, DriversAreReplaced

-----------------------------------------------------------------------------
(* Reachability: the closure of S is the least set with S that succ does not   *)
(* leave.                                                                      *)
LEMMA ClosureFacts ==
    ASSUME NEW succ \in [Decls -> SUBSET Decls], NEW S \in SUBSET Decls
    PROVE  /\ S \subseteq Closure(succ, S) /\ Closure(succ, S) \subseteq Decls
           /\ IsClosed(succ, Closure(succ, S))
           /\ \A T \in SUBSET Decls : S \subseteq T /\ IsClosed(succ, T) => Closure(succ, S) \subseteq T
<1>1. S \subseteq Closure(succ, S) /\ Closure(succ, S) \subseteq Decls
  BY DEF Closure
<1>2. IsClosed(succ, Closure(succ, S))
  <2> SUFFICES ASSUME NEW t \in Closure(succ, S), NEW u \in succ[t],
                      NEW T \in SUBSET Decls, S \subseteq T, IsClosed(succ, T)
               PROVE  u \in T
    BY DEF IsClosed, Closure
  <2>1. t \in T
    BY DEF Closure
  <2>2. QED BY <2>1 DEF IsClosed
<1>3. QED BY <1>1, <1>2 DEF Closure

(* What is reached from y is reached from anything that reaches y. *)
LEMMA ClosureMono ==
    ASSUME NEW succ \in [Decls -> SUBSET Decls], NEW R \in SUBSET Decls, NEW S \in SUBSET Decls,
           S \subseteq Closure(succ, R)
    PROVE  Closure(succ, S) \subseteq Closure(succ, R)
BY ClosureFacts

(* A path is empty or goes through a successor. *)
LEMMA ClosureSplit ==
    ASSUME NEW succ \in [Decls -> SUBSET Decls], NEW e \in Decls, NEW x \in Closure(succ, {e}), x # e
    PROVE  \E y \in succ[e] : x \in Closure(succ, {y})
<1> DEFINE T == {e} \cup {z \in Decls : \E y \in succ[e] : z \in Closure(succ, {y})}
<1>1. \A y \in Decls : /\ y \in Closure(succ, {y}) /\ IsClosed(succ, Closure(succ, {y}))
                       /\ Closure(succ, {y}) \subseteq Decls
  <2> TAKE y \in Decls
  <2>1. {y} \in SUBSET Decls
    OBVIOUS
  <2>2. QED BY <2>1, ClosureFacts
<1>2. IsClosed(succ, T)
  <2> SUFFICES ASSUME NEW t \in T, NEW u \in succ[t] PROVE u \in T
    BY DEF IsClosed
  <2>1. CASE t = e
    BY <1>1, <2>1
  <2>2. CASE t # e
    <3>1. PICK y \in succ[e] : t \in Closure(succ, {y})
      BY <2>2
    <3>2. u \in Closure(succ, {y}) /\ u \in Decls
      BY <1>1, <3>1 DEF IsClosed
    <3>3. QED BY <3>1, <3>2
  <2>3. QED BY <2>1, <2>2
<1>3. T \in SUBSET Decls /\ {e} \in SUBSET Decls /\ {e} \subseteq T
  OBVIOUS
<1> HIDE DEF T
<1>4. x \in T
  BY <1>2, <1>3, ClosureFacts
<1>5. QED BY <1>4 DEF T

-----------------------------------------------------------------------------
(* A net is live if it is computed, directly or through other nets, from        *)
(* something that changes and that no continuous assignment drives. The graph   *)
(* keeps every path from a live net to what it is computed from.                *)
Sources(D) == SourcesIn(D.conts)

Driven(D, e) == \E c \in D.conts : c.tgt = e

LiveRoots(D, e) == {s \in RootsIn(D.conts, {e}) : Changes(D, s)}

IsLive(D, e) == LiveRoots(D, e) # {}

(* What only a task writes is not taken for written by the code.               *)
TaskWritesAreSeen(D) ==
    \A r \in D.refs : r.ctx \in {"callOut", "callInout"} => Changes(D, r.decl)

LEMMA SourcesType ==
    ASSUME NEW D \in Designs
    PROVE  /\ Sources(D) \in [Decls -> SUBSET Decls]
           /\ \A c \in D.conts : c.tgt \in Decls /\ c.srcs \subseteq Decls
           /\ \A d \in Decls : Sources(D)[d] = (UNION {c.srcs : c \in {a \in D.conts : a.tgt = d}}) \ {d}
BY WellFormedDesign DEF Sources, SourcesIn, ContAssigns

(* A source hands its roots to what is computed from it. *)
LEMMA RootsOfSource ==
    ASSUME NEW D \in Designs, NEW e \in Decls, NEW y \in Sources(D)[e]
    PROVE  LiveRoots(D, y) \subseteq LiveRoots(D, e)
<1>1. Sources(D) \in [Decls -> SUBSET Decls] /\ {e} \in SUBSET Decls
  BY SourcesType
<1>2. y \in Decls /\ {y} \in SUBSET Decls
  BY <1>1
<1>3. {y} \subseteq Closure(Sources(D), {e})
  BY <1>1, ClosureFacts DEF IsClosed
<1>4. Closure(Sources(D), {y}) \subseteq Closure(Sources(D), {e})
  BY <1>1, <1>2, <1>3, ClosureMono
<1>5. QED BY <1>4 DEF LiveRoots, RootsIn, Sources

(* A driven net has its roots from its sources. *)
LEMMA RootsFromSources ==
    ASSUME NEW D \in Designs, NEW e \in Decls, Driven(D, e), NEW s \in LiveRoots(D, e)
    PROVE  \E y \in Sources(D)[e] : s \in LiveRoots(D, y)
<1>1. s \in Closure(Sources(D), {e}) /\ s # e
  BY DEF LiveRoots, RootsIn, Sources, Driven
<1>2. \E y \in Sources(D)[e] : s \in Closure(Sources(D), {y})
  BY <1>1, SourcesType, ClosureSplit
<1>3. QED BY <1>2 DEF LiveRoots, RootsIn, Sources

(* Without a driver, a declaration is its own root. *)
LEMMA UndrivenRoots ==
    ASSUME NEW D \in Designs, NEW e \in Decls, ~Driven(D, e)
    PROVE  RootsIn(D.conts, {e}) = {e}
<1>1. Sources(D)[e] = {}
  BY SourcesType DEF Driven
<1>2. {e} \in SUBSET Decls /\ IsClosed(Sources(D), {e})
  BY <1>1 DEF IsClosed
<1>3. Closure(Sources(D), {e}) = {e}
  BY <1>2, SourcesType, ClosureFacts
<1>4. QED BY <1>3 DEF RootsIn, Sources, Driven

(* The continuous assignments of a live net are those of the design until they *)
(* are deleted, and its live sources are its sources in the graph once it has  *)
(* been visited. Merging only adds sources, to nets that have some.            *)
LiveNet(D, e) ==
    /\ phase # "refine" /\ (phase = "clear" => e \in todo) =>
           lhsContinuous[e] = {c \in D.conts : c.tgt = e}
    /\ phase = "graph" => wasLhsContinuous[e]
    /\ (phase = "graph" => e \notin todo) => \A y \in Sources(D)[e] : IsLive(D, y) => y \in first[e]
    /\ (phase = "clear" /\ e \notin todo) \/ phase = "refine" => \A c \in conts : c.tgt # e

GraphInv(D) ==
    /\ design = D
    /\ \A e \in Decls : Driven(D, e) /\ IsLive(D, e) => LiveNet(D, e)
    /\ \A e \in Decls : ~Driven(D, e) => first[e] = {}

LEMMA GraphInit ==
    ASSUME NEW D \in Designs, Init, design = D
    PROVE  GraphInv(D)
BY DEF Init, fillInfoMap, GraphInv, LiveNet, Driven

(* While the graph is built a live net or register is a source of its targets. *)
LEMMA LiveNetStays ==
    ASSUME NEW D \in Designs, TypeOK, EntryRefsInv, GraphInv(D), phase = "graph",
           NEW y \in Decls, IsLive(D, y)
    PROVE  StaysSource(y)
<1>1. CASE Driven(D, y)
  BY <1>1, LiveSources DEF GraphInv, LiveNet
<1>2. CASE ~Driven(D, y)
  <2>1. Changes(D, y)
    BY <1>2, UndrivenRoots DEF IsLive, LiveRoots
  <2>2. QED BY <2>1, LiveSources DEF GraphInv
<1>3. QED BY <1>1, <1>2

(* So the visit of a live net never takes it for constant. *)
LEMMA GraphVisit ==
    ASSUME NEW D \in Designs, TypeOK, ContsInv, EntryRefsInv, GraphInv(D),
           NEW d \in Decls, generateLogicConesGraph(d)
    PROVE  GraphInv(D)'
<1>1. /\ phase = "graph" /\ phase' = "graph" /\ design' = design /\ d \in todo
      /\ todo' = todo \ {d} /\ first' = [first EXCEPT ![d] = @ \cup GraphSources(d)]
  BY DEF generateLogicConesGraph
<1>2. \A e \in Decls \ {d} : /\ lhsContinuous'[e] = lhsContinuous[e] /\ first'[e] = first[e]
                             /\ wasLhsContinuous'[e] = wasLhsContinuous[e]
  BY DEF generateLogicConesGraph, TypeOK
<1>3. first'[d] = first[d] \cup GraphSources(d)
  BY <1>1 DEF TypeOK
<1>4. ASSUME Driven(D, d), IsLive(D, d) PROVE LiveNet(D, d)'
  <2>1. lhsContinuous[d] = {c \in D.conts : c.tgt = d} /\ wasLhsContinuous[d]
    BY <1>1, <1>4 DEF GraphInv, LiveNet
  <2>2. ASSUME NEW y \in Sources(D)[d], IsLive(D, y) PROVE y \in GraphSources(d)
    <3>1. y \in (UNION {c.srcs : c \in {a \in D.conts : a.tgt = d}}) \ {d}
      BY <2>2, SourcesType
    <3>2. y \in Decls /\ y # d /\ \E c \in lhsContinuous[d] : y \in c.srcs
      <4>1. Sources(D) \in [Decls -> SUBSET Decls]
        BY SourcesType
      <4>2. y \in Decls
        BY <2>2, <4>1
      <4>3. y # d /\ \E c \in {a \in D.conts : a.tgt = d} : y \in c.srcs
        BY <3>1, Zenon
      <4>4. QED BY <2>1, <4>2, <4>3
    <3>3. StaysSource(y)
      BY <1>1, <2>2, <3>2, LiveNetStays
    <3>4. QED BY <3>2, <3>3 DEF GraphSources
  <2>3. \E y \in Sources(D)[d] : IsLive(D, y)
    BY <1>4, RootsFromSources DEF IsLive
  <2>4. ~hasOnlyConstantDrivers(d)
    BY <2>2, <2>3 DEF hasOnlyConstantDrivers
  <2>5. lhsContinuous' = lhsContinuous /\ wasLhsContinuous' = wasLhsContinuous
    BY <2>4 DEF generateLogicConesGraph
  <2>6. QED BY <1>1, <1>3, <2>1, <2>2, <2>5 DEF LiveNet
<1>5. ASSUME ~Driven(D, d) PROVE first'[d] = {}
  <2>1. lhsContinuous[d] = {}
    BY <1>5 DEF ContsInv, GraphInv, Driven
  <2>2. QED BY <1>3, <1>5, <2>1 DEF GraphInv, GraphSources
<1>6. \A e \in Decls \ {d} : LiveNet(D, e) => LiveNet(D, e)'
  BY <1>1, <1>2 DEF LiveNet
<1>7. QED BY <1>1, <1>2, <1>4, <1>5, <1>6 DEF GraphInv

LEMMA GraphMerge ==
    ASSUME NEW D \in Designs, TypeOK, GraphInv(D), NEW d \in Decls, MergeParent(d)
    PROVE  GraphInv(D)'
<1>1. /\ phase = "merge" /\ phase' = "merge" /\ d \in cur
      /\ first' = [first EXCEPT ![d] = @ \cup first[sorted[k]]]
      /\ sorted[k] \in first[d] /\ UNCHANGED <<design, lhsContinuous, conts>>
  BY DEF MergeParent, IsMergeable, infoVars
<1>2. \A e \in Decls : first[e] \subseteq first'[e] /\ (first[e] = {} => first'[e] = {})
  BY <1>1 DEF TypeOK
<1>3. QED BY <1>1, <1>2 DEF GraphInv, LiveNet

LEMMA StepGraph ==
    ASSUME NEW D \in Designs, TypeOK, ContsInv, EntryRefsInv, GraphInv(D), [Next]_vars
    PROVE  GraphInv(D)'
<1> USE DEF infoVars, graphVars, coneVars, loopVars
<1>1. ASSUME UNCHANGED <<design, lhsContinuous, first, conts>>,
             phase \notin {"clear", "refine"}, phase' \notin {"graph", "refine"},
             phase' = "clear" => todo' = Decls,
             phase = "graph" => todo = {}
      PROVE  GraphInv(D)'
  <2>1. \A e \in Decls : LiveNet(D, e) => LiveNet(D, e)'
    BY <1>1 DEF LiveNet
  <2>2. QED BY <1>1, <2>1 DEF GraphInv
<1>2. CASE EndLoop
  <2>1. CASE phase = "clear"
    <3>1. /\ phase' = "refine" /\ todo = {} /\ UNCHANGED <<design, first, conts>>
      BY <1>2, <2>1 DEF EndLoop, Following
    <3>2. \A e \in Decls : LiveNet(D, e) => LiveNet(D, e)'
      BY <2>1, <3>1 DEF LiveNet
    <3>3. QED BY <3>1, <3>2 DEF GraphInv
  <2>2. CASE phase # "clear"
    <3>1. phase' \in {"sort", "sens", "clear"} /\ (phase' = "clear" => todo' = Decls)
      BY <1>2, <2>2 DEF EndLoop, Following, LoopOver
    <3>2. /\ UNCHANGED <<design, lhsContinuous, first, conts>> /\ todo = {}
          /\ phase # "refine"
      BY <1>2 DEF EndLoop, Following
    <3>3. QED BY <1>1, <2>2, <3>1, <3>2
  <2>3. QED BY <2>1, <2>2
<1>3. CASE sortGraph \/ generateConeFunction \/ SkipCone \/ EndCones \/ updateInfos
  BY <1>1, <1>3 DEF sortGraph, generateConeFunction, SkipCone, EndCones, updateInfos
<1>4. ASSUME NEW d \in Decls,
             BeginMerge(d) \/ SkipParent(d) \/ EndMerge(d) \/ addConesPCalls(d) \/ fixSensitivities(d)
      PROVE  GraphInv(D)'
  BY <1>1, <1>4 DEF BeginMerge, SkipParent, EndMerge, addConesPCalls, fixSensitivities
<1>5. ASSUME NEW d \in Decls, clearContinuousAssigns(d)
      PROVE  GraphInv(D)'
  <2>1. /\ phase = "clear" /\ phase' = "clear" /\ d \in todo /\ todo' = todo \ {d}
        /\ conts' = conts \ lhsContinuous[d] /\ UNCHANGED <<design, first>>
        /\ conts \subseteq D.conts
    BY <1>5 DEF clearContinuousAssigns, GraphInv, ContsInv
  <2>2. \A e \in Decls \ {d} : lhsContinuous'[e] = lhsContinuous[e]
    BY <1>5 DEF clearContinuousAssigns, TypeOK
  <2>3. \A e \in Decls \ {d} : LiveNet(D, e) => LiveNet(D, e)'
    BY <2>1, <2>2 DEF LiveNet
  <2>4. LiveNet(D, d) => LiveNet(D, d)'
    BY <2>1 DEF LiveNet
  <2>5. QED BY <2>1, <2>3, <2>4 DEF GraphInv
<1>6. ASSUME NEW d \in Decls, generateLogicConesGraph(d) \/ MergeParent(d)
      PROVE  GraphInv(D)'
  BY <1>6, GraphVisit, GraphMerge
<1>7. CASE UNCHANGED vars
  BY <1>7 DEF vars, GraphInv, LiveNet
<1>8. QED
  BY <1>2, <1>3, <1>4, <1>5, <1>6, <1>7
     DEF Next, fixLogicCones, StepOf, Returned, SpinOnWaitCondition

(* What a process writes or an instance is bound to is seen to change. *)
LEMMA ChangesSeen ==
    ASSUME NEW D \in Designs, TaskWritesAreSeen(D), design = D, NEW s \in Decls, CanChange(s)
    PROVE  Changes(D, s)
<1>1. CASE s \in D.ports
  BY <1>1 DEF Changes
<1>2. CASE s \notin D.ports
  <2>1. PICK r \in D.refs : r.decl = s /\ r.ctx \in WriteContexts \cup {"portActual"}
    BY <1>2 DEF CanChange
  <2>2. CASE r.ctx \in {"callOut", "callInout"}
    BY <2>1, <2>2 DEF TaskWritesAreSeen
  <2>3. CASE r.ctx \in {"blockingLhs", "nonblockingLhs", "portActual"}
    <3>1. UseOf(r.ctx) \in {"bind", "lhsNonBlocking", "lhsBlocking"}
      BY <2>3 DEF UseOf, getWritingCallFormal
    <3>2. QED BY <2>1, <3>1 DEF Changes
  <2>4. QED BY <2>1, <2>2, <2>3 DEF WriteContexts
<1>3. QED BY <1>1, <1>2

(* What the sources of an assignment are computed from, its target is too. *)
LEMMA RootsOfAssignment ==
    ASSUME NEW D \in Designs, NEW c \in D.conts
    PROVE  RootsIn(D.conts, c.srcs \ {c.tgt}) \subseteq RootsIn(D.conts, {c.tgt})
<1>1. /\ Sources(D) \in [Decls -> SUBSET Decls]
      /\ {c.tgt} \in SUBSET Decls /\ c.srcs \ {c.tgt} \in SUBSET Decls
  BY SourcesType
<1>2. c.srcs \ {c.tgt} \subseteq Sources(D)[c.tgt]
  <2>1. ASSUME NEW y \in c.srcs, y # c.tgt
        PROVE  y \in (UNION {b.srcs : b \in {a \in D.conts : a.tgt = c.tgt}}) \ {c.tgt}
    BY <2>1, Zenon
  <2>2. c.tgt \in Decls
    BY SourcesType
  <2>3. QED BY <2>1, <2>2, SourcesType
<1>3. c.tgt \in Closure(Sources(D), {c.tgt}) /\ IsClosed(Sources(D), Closure(Sources(D), {c.tgt}))
  BY <1>1, ClosureFacts
<1>4. c.srcs \ {c.tgt} \subseteq Closure(Sources(D), {c.tgt})
  BY <1>2, <1>3 DEF IsClosed
<1>5. Closure(Sources(D), c.srcs \ {c.tgt}) \subseteq Closure(Sources(D), {c.tgt})
  BY <1>1, <1>4, ClosureMono
<1>6. QED BY <1>5 DEF RootsIn, Sources

(* Every path of the graph from something that changes has been kept, so no    *)
(* live net was taken for constant.                                            *)
LEMMA KeptAreDead ==
    ASSUME NEW D \in Designs, TaskWritesAreSeen(D), TypeOK, ContsInv, GraphInv(D), OnExit
    PROVE  \A c \in conts : \A s \in RootsIn(design.conts, c.srcs \ {c.tgt}) : ~CanChange(s)
<1> SUFFICES ASSUME NEW c \in conts, NEW s \in RootsIn(design.conts, c.srcs \ {c.tgt}), CanChange(s)
             PROVE  FALSE
  OBVIOUS
<1>1. design = D /\ c \in D.conts /\ c.tgt \in Decls
  BY SourcesType DEF GraphInv, ContsInv
<1>2. s \in Decls /\ s \in RootsIn(D.conts, {c.tgt})
  BY <1>1, RootsOfAssignment DEF RootsIn, Closure
<1>3. Changes(D, s)
  BY <1>1, <1>2, ChangesSeen
<1>4. Driven(D, c.tgt) /\ IsLive(D, c.tgt)
  BY <1>1, <1>2, <1>3 DEF Driven, IsLive, LiveRoots
<1>5. \A b \in conts : b.tgt # c.tgt
  BY <1>1, <1>4 DEF GraphInv, LiveNet, OnExit
<1>6. QED BY <1>5

(* No hypothesis on the parameters and functions that assignments name is       *)
(* needed here, only that what a task writes is also written or watched in a    *)
(* way generateLogicConesGraph sees: whatever order the maps are walked in, a   *)
(* continuous assignment that fixLogicCones leaves in the tree names nothing    *)
(* that changes, directly or through other nets.                                *)
THEOREM ConstantDriversStay ==
    ASSUME \A D \in Designs : TaskWritesAreSeen(D)
    PROVE  Spec => []KeptDriversAreConstant
<1> DEFINE KeptInv == DriversInv({}) /\ \E D \in Designs : GraphInv(D)
<1>1. Init => KeptInv
  <2> SUFFICES ASSUME Init PROVE DriversInv({}) /\ \E D \in Designs : GraphInv(D)
    OBVIOUS
  <2>1. DriversInv({})
    BY DEF Init, fillInfoMap, DriversInv, EntryRefsInv, NodesInv, HasConeInv
  <2>2. PICK D \in Designs : design = D
    BY DEF Init
  <2>3. QED BY <2>1, <2>2, GraphInit
<1>2. TypeOK /\ ContsInv /\ KeptInv /\ [Next]_vars => KeptInv'
  <2> SUFFICES ASSUME TypeOK, ContsInv, DriversInv({}), [Next]_vars,
                      NEW D \in Designs, GraphInv(D)
               PROVE  DriversInv({})' /\ GraphInv(D)'
    OBVIOUS
  <2>1. GraphInv(D)'
    BY StepGraph DEF DriversInv
  <2>2. DriversInv({})'
    BY StepDrivers
  <2>3. QED BY <2>1, <2>2
<1>3. TypeOK /\ ContsInv /\ KeptInv => KeptDriversAreConstant
  BY KeptAreDead DEF KeptDriversAreConstant
<1>4. TypeOK /\ ContsInv /\ [Next]_vars => TypeOK' /\ ContsInv'
  BY StepType
<1>5. QED BY InitType, <1>1, <1>2, <1>3, <1>4, PTL DEF Spec

-----------------------------------------------------------------------------
(* Wake-ups. From the sorting of the graph on, everything that changes and     *)
(* that a driven net is computed from is found among the roots of the net:     *)
(* what generateLogicConesGraph left out is never on such a path.              *)
LEMMA RootsReached ==
    ASSUME NEW D \in Designs, TypeOK, GraphInv(D), phase # "graph",
           NEW d \in Decls, Driven(D, d), NEW s \in LiveRoots(D, d)
    PROVE  s \in Roots(d)
<1>1. s \in Decls /\ ~Driven(D, s) /\ Changes(D, s) /\ s \in Closure(Sources(D), {d})
  BY DEF LiveRoots, RootsIn, Driven, Sources, Closure
<1>2. first[s] = {} /\ s # d
  BY <1>1 DEF GraphInv
<1>3. s \in LiveRoots(D, s)
  BY <1>1, UndrivenRoots DEF LiveRoots
<1>4. ASSUME NEW T \in SUBSET Decls, first[d] \subseteq T, IsClosed(first, T)
      PROVE  s \in T
  <2> DEFINE R == {x \in Decls : x = d \/ x \in T \/ s \notin LiveRoots(D, x)}
  <2>1. ASSUME NEW x \in R, NEW y \in Sources(D)[x] PROVE y \in R
    <3>1. x \in Decls /\ y \in Decls
      BY SourcesType
    <3>2. CASE s \notin LiveRoots(D, y)
      BY <3>1, <3>2
    <3>3. CASE s \in LiveRoots(D, y)
      <4>1. s \in LiveRoots(D, x)
        BY <3>1, <3>3, RootsOfSource
      <4>2. Driven(D, x)
        BY <3>1, SourcesType DEF Driven
      <4>3. y \in first[x]
        BY <3>1, <3>3, <4>1, <4>2 DEF GraphInv, LiveNet, IsLive
      <4>4. x = d \/ x \in T
        BY <4>1
      <4>5. y \in T
        BY <1>4, <4>3, <4>4 DEF IsClosed
      <4>6. QED BY <3>1, <4>5
    <3>4. QED BY <3>2, <3>3
  <2>2. R \in SUBSET Decls /\ {d} \subseteq R /\ {d} \in SUBSET Decls
    OBVIOUS
  <2>3. IsClosed(Sources(D), R)
    BY <2>1 DEF IsClosed
  <2>4. s \in R
    <3> HIDE DEF R
    <3>1. QED BY <1>1, <2>2, <2>3, SourcesType, ClosureFacts
  <2>5. QED BY <1>2, <1>3, <2>4
<1>5. QED BY <1>1, <1>2, <1>4 DEF Roots, Ancestors, Closure

(* The nets that are computed from something that changes. *)
LiveNets(D) == {d \in Decls : Driven(D, d) /\ IsLive(D, d)}

IsWatch(r) == UseOf(r.ctx) \in {"sensitivity", "wait"}

(* The roots of d stand where d stood, and in the sensitivity map.             *)
Woken(D, d) ==
    /\ LiveRoots(D, d) \subseteq sensMap[d]
    /\ \A r \in D.refs : r.decl = d /\ IsWatch(r) =>
           \A s \in LiveRoots(D, d) : [decl |-> s, ctx |-> r.ctx, at |-> r.at] \in refs

(* Only nets have cones, so the entries of what no assignment drives stay, those *)
(* of a net until it is visited; every new entry names a root of the graph.      *)
EntriesInv(D) ==
    /\ phase # "refine" => \A d \in cones : Driven(D, d)
    /\ phase \notin {"sens", "clear", "refine"} => refs = D.refs
    /\ phase = "sens" => todo \subseteq cones
    /\ phase = "sens" => \A r \in D.refs : r.decl \in todo => r \in refs
    /\ \A r \in D.refs : ~Driven(D, r.decl) => r \in refs
    /\ \A r \in refs : r \in D.refs \/ (IsWatch(r) /\ first[r.decl] = {})

WokenInv(D) ==
    phase \in {"sens", "clear", "refine"} =>
        \A d \in LiveNets(D) : IsUsed(d) /\ (phase = "sens" => d \notin todo) => Woken(D, d)

WakeInv(D) == GraphInv(D) /\ DriversInv(LiveNets(D)) /\ EntriesInv(D) /\ WokenInv(D)

LEMMA WakeInit ==
    ASSUME NEW D \in Designs, Init, design = D
    PROVE  WakeInv(D)
<1>1. DriversInv(LiveNets(D))
  BY DEF Init, fillInfoMap, DriversInv, EntryRefsInv, NodesInv, HasConeInv, LiveNets
<1>2. EntriesInv(D) /\ WokenInv(D)
  BY DEF Init, fillInfoMap, EntriesInv, WokenInv
<1>3. QED BY <1>1, <1>2, GraphInit DEF WakeInv

(* The visit of a net by fixSensitivities. *)
LEMMA VisitWakes ==
    ASSUME NEW D \in Designs, TypeOK, WakeInv(D), NEW d \in Decls, fixSensitivities(d)
    PROVE  EntriesInv(D)' /\ WokenInv(D)'
<1>1. /\ phase = "sens" /\ phase' = "sens" /\ d \in todo /\ todo' = todo \ {d}
      /\ refs' = (refs \ Sensitivities(d)) \cup RootEntries(d)
      /\ sensMap' = [n \in Decls |-> IF n \in {d} \cup Ancestors(d) THEN Roots(n) ELSE sensMap[n]]
      /\ UNCHANGED <<design, cones>> /\ design = D
  BY DEF fixSensitivities, calculateParentNodes, coneVars, WakeInv, GraphInv
<1>2. \A e \in todo : Driven(D, e)
  BY <1>1 DEF WakeInv, EntriesInv
<1>3. \A r \in refs : r.decl # d => r \in refs'
  BY <1>1 DEF Sensitivities
<1>4. EntriesInv(D)'
  <2>1. \A r \in D.refs : r.decl \in todo' => r \in refs'
    BY <1>1, <1>3 DEF WakeInv, EntriesInv
  <2>2. \A r \in D.refs : ~Driven(D, r.decl) => r \in refs'
    BY <1>1, <1>2, <1>3 DEF WakeInv, EntriesInv
  <2>3. ASSUME NEW r \in refs' PROVE r \in D.refs \/ (IsWatch(r) /\ first'[r.decl] = {})
    <3>1. first' = first
      BY DEF fixSensitivities, graphVars
    <3>2. CASE r \in refs
      BY <3>1, <3>2 DEF WakeInv, EntriesInv
    <3>3. CASE r \in RootEntries(d)
      BY <3>1, <3>3 DEF RootEntries, Roots, Sensitivities, IsWatch
    <3>4. QED BY <1>1, <3>2, <3>3
  <2>4. QED BY <1>1, <2>1, <2>2, <2>3 DEF WakeInv, EntriesInv
<1>5. ASSUME NEW e \in LiveNets(D) PROVE LiveRoots(D, e) \subseteq Roots(e)
  BY <1>1, RootsReached DEF LiveNets, WakeInv
<1>6. ASSUME NEW e \in LiveNets(D), e # d, Woken(D, e) PROVE Woken(D, e)'
  <2>1. LiveRoots(D, e) \subseteq sensMap'[e]
    BY <1>1, <1>5, <1>6 DEF Woken, LiveNets
  <2>2. ASSUME NEW r \in D.refs, r.decl = e, IsWatch(r), NEW s \in LiveRoots(D, e)
        PROVE  [decl |-> s, ctx |-> r.ctx, at |-> r.at] \in refs'
    <3>1. [decl |-> s, ctx |-> r.ctx, at |-> r.at] \in refs
      BY <1>6, <2>2 DEF Woken
    <3>2. s # d
      BY <1>1, <1>2 DEF LiveRoots, RootsIn, Driven
    <3>3. QED BY <1>3, <3>1, <3>2
  <2>3. QED BY <2>1, <2>2 DEF Woken
<1>7. ASSUME d \in LiveNets(D) PROVE Woken(D, d)'
  <2>1. LiveRoots(D, d) \subseteq sensMap'[d]
    BY <1>1, <1>5, <1>7
  <2>2. ASSUME NEW r \in D.refs, r.decl = d, IsWatch(r), NEW s \in LiveRoots(D, d)
        PROVE  [decl |-> s, ctx |-> r.ctx, at |-> r.at] \in refs'
    <3>1. r \in Sensitivities(d)
      BY <1>1, <2>2 DEF Sensitivities, IsWatch, WakeInv, EntriesInv
    <3>2. s \in Roots(d)
      BY <1>5, <1>7
    <3>3. QED BY <1>1, <3>1, <3>2 DEF RootEntries
  <2>3. QED BY <2>1, <2>2 DEF Woken
<1>8. WokenInv(D)'
  BY <1>1, <1>6, <1>7 DEF WokenInv, IsUsed, UsesOnEntry, WakeInv
<1>9. QED BY <1>4, <1>8

(* Every step of fixLogicCones keeps the entries. *)
LEMMA StepWakes ==
    ASSUME NEW D \in Designs, TypeOK, ContsInv, WakeInv(D), [Next]_vars
    PROVE  WakeInv(D)'
<1> USE DEF infoVars, graphVars, coneVars, loopVars
<1>1. GraphInv(D)'
  BY StepGraph DEF WakeInv, DriversInv
<1>2. DriversInv(LiveNets(D))'
  <2>1. ASSUME NEW d \in LiveNets(D), generateLogicConesGraph(d) PROVE first'[d] # {}
    <3>1. d \in Decls /\ phase' = "graph" /\ d \notin todo'
      BY <2>1 DEF generateLogicConesGraph, LiveNets
    <3>2. LiveNet(D, d)'
      BY <1>1, <2>1 DEF GraphInv, LiveNets
    <3>3. \E y \in Sources(D)[d] : IsLive(D, y)
      BY <3>1, RootsFromSources DEF LiveNets, IsLive
    <3>4. QED BY <3>1, <3>2, <3>3 DEF LiveNet
  <2>2. LiveNets(D) \in SUBSET Decls
    BY DEF LiveNets
  <2>3. QED BY <2>1, <2>2, StepDrivers DEF WakeInv
<1> SUFFICES EntriesInv(D)' /\ WokenInv(D)'
  BY <1>1, <1>2 DEF WakeInv
<1>3. ASSUME UNCHANGED <<design, refs, cones, sensMap>>, phase # "refine",
             phase' \notin {"sens", "clear", "refine"}, phase \notin {"sens", "clear"}
      PROVE  EntriesInv(D)' /\ WokenInv(D)'
  BY <1>3 DEF WakeInv, EntriesInv, WokenInv
<1>4. CASE EndLoop
  <2>1. /\ phase \in {"graph", "calls", "sens", "clear"} /\ todo = {} /\ phase' = Following[phase]
        /\ todo' = LoopOver(phase') /\ UNCHANGED <<design, refs, cones, sensMap, first>>
    BY <1>4 DEF EndLoop, Following
  <2>2. CASE phase = "graph"
    BY <1>3, <2>1, <2>2 DEF Following
  <2>3. CASE phase = "calls"
    <3>1. phase' = "sens" /\ todo' = cones
      BY <2>1, <2>3 DEF Following, LoopOver
    <3>2. EntriesInv(D)'
      BY <2>1, <2>3, <3>1 DEF WakeInv, EntriesInv
    <3>3. \A d \in LiveNets(D) : IsUsed(d) => d \in cones
      BY <2>3 DEF WakeInv, DriversInv, HasConeInv, HasCone, GraphInv, LiveNet, LiveNets, Driven
    <3>4. WokenInv(D)'
      BY <2>1, <3>1, <3>3 DEF WokenInv, IsUsed, UsesOnEntry
    <3>5. QED BY <3>2, <3>4
  <2>4. CASE phase \in {"sens", "clear"}
    <3>1. phase' \in {"clear", "refine"} /\ (phase = "sens" => phase' # "refine")
      BY <2>1, <2>4 DEF Following
    <3>2. EntriesInv(D)'
      BY <2>1, <2>4, <3>1 DEF WakeInv, EntriesInv
    <3>3. WokenInv(D)'
      BY <2>1, <2>4, <3>1 DEF WakeInv, WokenInv, Woken, IsUsed, UsesOnEntry
    <3>4. QED BY <3>2, <3>3
  <2>5. QED BY <2>1, <2>2, <2>3, <2>4
<1>5. CASE sortGraph \/ SkipCone \/ EndCones \/ updateInfos
  BY <1>3, <1>5 DEF sortGraph, SkipCone, EndCones, updateInfos
<1>6. CASE generateConeFunction
  <2>1. /\ phase = "cones" /\ phase' = "cones" /\ refs' = refs /\ cones' = cones \cup {sorted[k]}
        /\ lhsContinuous[sorted[k]] # {} /\ sorted[k] \in Decls
    BY <1>6 DEF generateConeFunction, NeedsCone, TypeOK
  <2>2. Driven(D, sorted[k])
    BY <2>1 DEF ContsInv, WakeInv, GraphInv, Driven
  <2>3. QED BY <2>1, <2>2 DEF WakeInv, EntriesInv, WokenInv
<1>7. ASSUME NEW d \in Decls,
             \/ generateLogicConesGraph(d) \/ BeginMerge(d) \/ MergeParent(d)
             \/ SkipParent(d) \/ EndMerge(d) \/ addConesPCalls(d)
      PROVE  EntriesInv(D)' /\ WokenInv(D)'
  BY <1>3, <1>7 DEF generateLogicConesGraph, BeginMerge, MergeParent, SkipParent, EndMerge,
                    addConesPCalls
<1>8. ASSUME NEW d \in Decls, clearContinuousAssigns(d)
      PROVE  EntriesInv(D)' /\ WokenInv(D)'
  BY <1>8 DEF clearContinuousAssigns, WakeInv, EntriesInv, WokenInv, Woken, IsUsed, UsesOnEntry
<1>9. CASE UNCHANGED vars
  BY <1>9 DEF vars, WakeInv, EntriesInv, WokenInv, Woken, IsUsed, UsesOnEntry
<1>10. QED
  BY <1>4, <1>5, <1>6, <1>7, <1>8, <1>9, VisitWakes
     DEF Next, fixLogicCones, StepOf, Returned, SpinOnWaitCondition

(* On exit the entries are there. *)
LEMMA EntriesNameRoots ==
    ASSUME NEW D \in Designs, TaskWritesAreSeen(D), TypeOK, WakeInv(D), OnExit,
           NEW r \in design.refs, IsWatch(r), NEW s \in RootsIn(design.conts, {r.decl}), CanChange(s)
    PROVE  [decl |-> s, ctx |-> r.ctx, at |-> r.at] \in refs
<1>1. design = D /\ r \in Refs /\ r.decl \in Decls /\ s \in Decls
  BY WellFormedDesign DEF WakeInv, GraphInv, Refs, RootsIn, Closure
<1>2. s \in LiveRoots(D, r.decl)
  BY <1>1, ChangesSeen DEF LiveRoots
<1>3. CASE Driven(D, r.decl)
  <2>1. r.decl \in LiveNets(D)
    BY <1>1, <1>2, <1>3 DEF LiveNets, IsLive
  <2>2. UseOf(r.ctx) \in UsesOnEntry(r.decl)
    BY <1>1 DEF UsesOnEntry
  <2>3. IsUsed(r.decl)
    BY <2>2 DEF IsUsed, isOnlyInContinuousAssignments, IsWatch
  <2>4. Woken(D, r.decl)
    BY <2>1, <2>3 DEF WakeInv, WokenInv, OnExit
  <2>5. QED BY <1>1, <1>2, <2>4 DEF Woken
<1>4. CASE ~Driven(D, r.decl)
  <2>1. s = r.decl
    BY <1>1, <1>4, UndrivenRoots
  <2>2. r \in refs
    BY <1>1, <1>4 DEF WakeInv, EntriesInv
  <2>3. r = [decl |-> r.decl, ctx |-> r.ctx, at |-> r.at]
    BY <1>1 DEF Refs
  <2>4. QED BY <2>1, <2>2, <2>3
<1>5. QED BY <1>3, <1>4

(* No wake-up is lost when fixSensitivities rewrites the lists, in whatever     *)
(* order: an entry for a net is replaced by everything that changes and that    *)
(* the assignments of the design computed the net from, although the roots are  *)
(* taken from a graph from which sources have been left out and into which      *)
(* cones have been merged.                                                      *)
THEOREM NoWakeUpIsLost ==
    ASSUME \A D \in Designs : TaskWritesAreSeen(D)
    PROVE  Spec => []WakesOnRoots
<1> DEFINE EntriesKept == \E D \in Designs : WakeInv(D)
<1>1. Init => EntriesKept
  BY WakeInit DEF Init
<1>2. TypeOK /\ ContsInv /\ EntriesKept /\ [Next]_vars => EntriesKept'
  <2> SUFFICES ASSUME TypeOK, ContsInv, [Next]_vars, NEW D \in Designs, WakeInv(D)
               PROVE  WakeInv(D)'
    OBVIOUS
  <2>1. QED BY StepWakes
<1>3. TypeOK /\ EntriesKept => WakesOnRoots
  BY EntriesNameRoots DEF WakesOnRoots, IsWatch
<1>4. TypeOK /\ ContsInv /\ [Next]_vars => TypeOK' /\ ContsInv'
  BY StepType
<1>5. QED BY InitType, <1>1, <1>2, <1>3, <1>4, PTL DEF Spec

-----------------------------------------------------------------------------
(* What holds of the graph for every net, live or not: its edges follow the    *)
(* continuous assignments, a net with sources keeps its drivers and gets its    *)
(* cone if it is used, and the sensitivity map only names roots.               *)
ReachInv(D) == \A d \in Decls : first[d] \subseteq Closure(Sources(D), {d})

IsSourced(d) ==
    /\ phase = "graph" => d \notin todo
    /\ phase \in {"graph", "sort", "cones"} => lhsContinuous[d] # {}
    /\ phase = "cones" => \E i \in DOMAIN sorted : sorted[i] = d
    /\ phase \in {"merge", "calls", "sens", "clear", "refine"} /\ IsUsed(d) => d \in cones

SensInv ==
    \A d \in Decls : sensMap[d] # {} =>
        sensMap[d] \subseteq Roots(d) /\ phase \in {"sens", "clear", "refine"}

EdgesInv(D) ==
    /\ design = D
    /\ ReachInv(D)
    /\ \A d \in Decls : first[d] # {} => IsSourced(d)
    /\ SensInv

LEMMA EdgesInit ==
    ASSUME NEW D \in Designs, Init, design = D
    PROVE  EdgesInv(D)
BY DEF Init, EdgesInv, ReachInv, SensInv

(* The sources of the graph are sources of the assignments. *)
LEMMA ReachVisit ==
    ASSUME NEW D \in Designs, TypeOK, ContsInv, design = D, ReachInv(D),
           NEW d \in Decls, generateLogicConesGraph(d)
    PROVE  ReachInv(D)'
<1>1. first' = [first EXCEPT ![d] = @ \cup GraphSources(d)]
  BY DEF generateLogicConesGraph
<1>2. GraphSources(d) \subseteq Sources(D)[d]
  <2>1. ASSUME NEW s \in GraphSources(d)
        PROVE  s \in (UNION {c.srcs : c \in {a \in D.conts : a.tgt = d}}) \ {d}
    <3>1. s # d /\ \E c \in lhsContinuous[d] : s \in c.srcs
      BY DEF GraphSources
    <3>2. \E c \in {a \in D.conts : a.tgt = d} : s \in c.srcs
      BY <3>1 DEF ContsInv
    <3>3. QED BY <3>1, <3>2, Zenon
  <2>2. QED BY <2>1, SourcesType
<1>3. Sources(D)[d] \subseteq Closure(Sources(D), {d})
  BY SourcesType, ClosureFacts DEF IsClosed
<1>4. QED BY <1>1, <1>2, <1>3 DEF ReachInv, TypeOK

(* A merged parent hands over what it is computed from. *)
LEMMA ReachMerge ==
    ASSUME NEW D \in Designs, TypeOK, ReachInv(D), NEW d \in Decls, MergeParent(d)
    PROVE  ReachInv(D)'
<1>1. PICK p \in Decls : p = sorted[k]
  BY DEF MergeParent, TypeOK
<1>2. first' = [first EXCEPT ![d] = @ \cup first[p]] /\ p \in first[d]
  BY <1>1 DEF MergeParent, IsMergeable
<1>3. {p} \subseteq Closure(Sources(D), {d})
  BY <1>2 DEF ReachInv
<1>4. Closure(Sources(D), {p}) \subseteq Closure(Sources(D), {d})
  BY <1>3, SourcesType, ClosureMono
<1>5. QED BY <1>2, <1>4 DEF ReachInv, TypeOK

(* A step keeps IsSourced if it leaves drivers, cones and the order alone. *)
LEMMA StepSourced ==
    ASSUME NEW D \in Designs, TypeOK, ContsInv, DriversInv({}), EdgesInv(D), [Next]_vars,
           NEW d \in Decls, first'[d] # {}
    PROVE  IsSourced(d)'
<1> USE DEF infoVars, graphVars, coneVars, loopVars
<1>1. CASE first[d] = {}
  <2>1. PICK e \in Decls : generateLogicConesGraph(e) \/ MergeParent(e)
    BY <1>1 DEF Next, fixLogicCones, StepOf, Returned, vars, sortGraph, generateConeFunction,
           SkipCone, EndCones, updateInfos, EndLoop, BeginMerge, SkipParent, EndMerge,
           addConesPCalls, fixSensitivities, SpinOnWaitCondition, clearContinuousAssigns
  <2>2. e = d
    BY <1>1, <2>1 DEF generateLogicConesGraph, MergeParent, TypeOK
  <2>3. ~MergeParent(d)
    BY <1>1 DEF MergeParent, IsMergeable
  <2>4. generateLogicConesGraph(d) /\ GraphSources(d) # {}
    <3>1. generateLogicConesGraph(d)
      BY <2>1, <2>2, <2>3
    <3>2. first'[d] = first[d] \cup GraphSources(d)
      BY <3>1 DEF generateLogicConesGraph, TypeOK
    <3>3. QED BY <1>1, <3>1, <3>2
  <2>5. lhsContinuous[d] # {} /\ lhsContinuous' = lhsContinuous
    BY <2>4 DEF GraphSources, generateLogicConesGraph, hasOnlyConstantDrivers
  <2>6. QED BY <2>4, <2>5 DEF generateLogicConesGraph, IsSourced
<1>2. CASE first[d] # {}
  <2>0. IsSourced(d)
    BY <1>2 DEF EdgesInv
  <2>1. CASE sortGraph
    <3>1. PICK s \in SetToSeqs(GraphNodes) : sorted' = s
      BY <2>1 DEF sortGraph
    <3>2. IsFiniteSet(GraphNodes) /\ d \in GraphNodes
      BY <1>2, DeclsAssumption, FS_Subset DEF GraphNodes
    <3>3. \E i \in DOMAIN s : s[i] = d
      BY <3>1, <3>2, EnumerationCovers
    <3>4. QED BY <2>0, <2>1, <3>1, <3>3 DEF sortGraph, IsSourced
  <2>2. CASE EndCones
    <3>1. /\ phase = "cones" /\ phase' = "merge" /\ k \notin DOMAIN sorted
          /\ UNCHANGED <<design, infoVars, cones>>
      BY <2>2 DEF EndCones
    <3>2. \A i \in DOMAIN sorted : i < k
      BY <3>1 DEF DriversInv, HasConeInv, TypeOK
    <3>3. HasCone(d)
      BY <2>0, <3>1, <3>2 DEF DriversInv, HasConeInv, IsSourced
    <3>4. QED BY <2>0, <3>1, <3>3 DEF IsSourced, HasCone, IsUsed, UsesOnEntry
  <2>3. CASE EndLoop
    <3>1. /\ phase \in {"graph", "calls", "sens", "clear"} /\ phase' = Following[phase]
          /\ UNCHANGED <<design, lhsContinuous, cones>>
      BY <2>3 DEF EndLoop, Following
    <3>2. CASE phase = "graph"
      BY <2>0, <3>1, <3>2 DEF IsSourced, Following
    <3>3. CASE phase # "graph"
      <4>1. phase' \in {"sens", "clear", "refine"}
        BY <3>1, <3>3 DEF Following
      <4>2. QED BY <2>0, <3>1, <3>3, <4>1 DEF IsSourced, IsUsed, UsesOnEntry
    <3>4. QED BY <3>2, <3>3
  <2>4. ASSUME UNCHANGED <<design, phase, sorted>>, cones \subseteq cones',
               phase = "graph" => todo' \subseteq todo,
               phase \in {"graph", "sort", "cones"} /\ lhsContinuous[d] # {} => lhsContinuous'[d] # {}
        PROVE  IsSourced(d)'
    BY <2>0, <2>4 DEF IsSourced, IsUsed, UsesOnEntry
  <2>5. CASE generateConeFunction \/ SkipCone
    BY <2>4, <2>5 DEF generateConeFunction, SkipCone
  <2>6. CASE updateInfos
    BY <2>0, <2>6 DEF updateInfos, IsSourced, IsUsed, UsesOnEntry
  <2>7. ASSUME NEW e \in Decls, generateLogicConesGraph(e)
        PROVE  IsSourced(d)'
    <3>1. e # d
      BY <2>0, <2>7 DEF generateLogicConesGraph, IsSourced
    <3>2. lhsContinuous'[d] = lhsContinuous[d]
      BY <2>7, <3>1 DEF generateLogicConesGraph, TypeOK
    <3>3. QED BY <2>4, <2>7, <3>2 DEF generateLogicConesGraph
  <2>8. ASSUME NEW e \in Decls,
               \/ BeginMerge(e) \/ MergeParent(e) \/ SkipParent(e) \/ EndMerge(e)
               \/ addConesPCalls(e) \/ fixSensitivities(e) \/ clearContinuousAssigns(e)
        PROVE  IsSourced(d)'
    BY <2>4, <2>8 DEF BeginMerge, MergeParent, SkipParent, EndMerge, addConesPCalls,
                      fixSensitivities, clearContinuousAssigns
  <2>9. CASE UNCHANGED vars
    BY <2>4, <2>9 DEF vars
  <2>10. QED
    BY <2>1, <2>2, <2>3, <2>5, <2>6, <2>7, <2>8, <2>9
       DEF Next, fixLogicCones, StepOf, Returned, SpinOnWaitCondition
<1>3. QED BY <1>1, <1>2

LEMMA StepEdges ==
    ASSUME NEW D \in Designs, TypeOK, ContsInv, DriversInv({}), EdgesInv(D), [Next]_vars
    PROVE  EdgesInv(D)'
<1> USE DEF infoVars, graphVars, coneVars, loopVars
<1>1. \A d \in Decls : first'[d] # {} => IsSourced(d)'
  BY StepSourced
<1>2. design' = design
  BY DEF Next, fixLogicCones, StepOf, Returned, vars, sortGraph, generateConeFunction, SkipCone,
         EndCones, updateInfos, EndLoop, generateLogicConesGraph, BeginMerge, MergeParent,
         SkipParent, EndMerge, addConesPCalls, fixSensitivities, SpinOnWaitCondition,
         clearContinuousAssigns
<1>3. ReachInv(D)'
  <2>1. first' = first \/ \E d \in Decls : generateLogicConesGraph(d) \/ MergeParent(d)
    BY DEF Next, fixLogicCones, StepOf, Returned, vars, sortGraph, generateConeFunction, SkipCone,
         EndCones, updateInfos, EndLoop, BeginMerge, SkipParent, EndMerge, addConesPCalls,
         fixSensitivities, SpinOnWaitCondition, clearContinuousAssigns
  <2>2. QED BY <2>1, ReachVisit, ReachMerge DEF EdgesInv, ReachInv
<1>4. SensInv'
  <2>1. CASE UNCHANGED <<sensMap, first>>
    <3>1. CASE EndLoop
      BY <2>1, <3>1 DEF EndLoop, Following, EdgesInv, SensInv, Roots, Ancestors, Closure, IsClosed
    <3>2. CASE ~EndLoop
      <4>1. phase' = phase \/ phase \notin {"sens", "clear", "refine"}
        BY <3>2 DEF Next, fixLogicCones, StepOf, Returned, vars, sortGraph, generateConeFunction,
             SkipCone, EndCones, updateInfos, generateLogicConesGraph, BeginMerge, MergeParent,
             SkipParent, EndMerge, addConesPCalls, fixSensitivities, SpinOnWaitCondition,
             clearContinuousAssigns
      <4>2. QED BY <2>1, <4>1 DEF EdgesInv, SensInv, Roots, Ancestors, Closure, IsClosed
    <3>3. QED BY <3>1, <3>2
  <2>2. ASSUME NEW e \in Decls, fixSensitivities(e) PROVE SensInv'
    <3>1. /\ sensMap' = [n \in Decls |-> IF n \in {e} \cup Ancestors(e) THEN Roots(n) ELSE sensMap[n]]
          /\ phase' = "sens" /\ first' = first
      BY <2>2 DEF fixSensitivities, calculateParentNodes
    <3>2. \A d \in Decls : Roots(d)' = Roots(d)
      BY <3>1 DEF Roots, Ancestors, Closure, IsClosed
    <3>3. QED BY <3>1, <3>2 DEF EdgesInv, SensInv
  <2>3. ASSUME first' # first, sensMap' = sensMap PROVE SensInv'
    <3>1. phase \notin {"sens", "clear", "refine"}
      BY <2>3 DEF Next, fixLogicCones, StepOf, Returned, vars, sortGraph, generateConeFunction,
           SkipCone, EndCones, updateInfos, EndLoop, generateLogicConesGraph, BeginMerge, MergeParent,
           SkipParent, EndMerge, addConesPCalls, fixSensitivities, SpinOnWaitCondition,
           clearContinuousAssigns
    <3>2. QED BY <2>3, <3>1 DEF EdgesInv, SensInv
  <2>4. sensMap' = sensMap \/ \E e \in Decls : fixSensitivities(e)
    BY DEF Next, fixLogicCones, StepOf, Returned, vars, sortGraph, generateConeFunction, SkipCone,
         EndCones, updateInfos, EndLoop, generateLogicConesGraph, BeginMerge, MergeParent,
         SkipParent, EndMerge, addConesPCalls, SpinOnWaitCondition, clearContinuousAssigns
  <2>5. QED BY <2>1, <2>2, <2>3, <2>4
<1>5. QED BY <1>1, <1>2, <1>3, <1>4 DEF EdgesInv

-----------------------------------------------------------------------------
(* The end of step 3: what becomes of the references to a declaration that is *)
(* refined to a variable.                                                     *)

(* The references of a process that writes a declaration, other than by a     *)
(* non-blocking assignment.                                                   *)
ShadowWrites(d) ==
    {r \in design.refs : r.decl = d /\ r.ctx \in WriteContexts \ {"nonblockingLhs"}}

(* fixSensitivities never removes a write, and a declaration is shadowed only  *)
(* by the step that also adds its write-backs.                                 *)
PublishedInv ==
    /\ kind \in [Decls -> Kinds]
    /\ design.refs \subseteq Refs
    /\ \A d \in Decls : ShadowWrites(d) \subseteq refs
    /\ \A d \in Decls : kind[d] = "shadowed" => ShadowWrites(d) \subseteq writeBacks

(* The contexts that write and are no non-blocking assignment. *)
LEMMA WriteUses ==
    ASSUME NEW ctx \in WriteContexts \ {"nonblockingLhs"}
    PROVE  UseOf(ctx) \in {"lhsBlocking", "lhsCall"}
BY DEF WriteContexts, UseOf, getWritingCallFormal

(* No step of fixLogicCones removes a write from the tree. *)
LEMMA ConesKeepWrites ==
    ASSUME fixLogicCones, NEW e \in Decls, ShadowWrites(e) \subseteq refs
    PROVE  design' = design /\ ShadowWrites(e) \subseteq refs'
<1> USE DEF infoVars
<1>1. ASSUME NEW d \in Decls, fixSensitivities(d)
      PROVE  design' = design /\ ShadowWrites(e) \subseteq refs'
  <2>1. \A r \in ShadowWrites(e) : r \notin Sensitivities(d)
    BY WriteUses DEF Sensitivities, ShadowWrites
  <2>2. QED BY <1>1, <2>1 DEF fixSensitivities
<1>2. ASSUME NEW d \in Decls, StepOf(d), ~fixSensitivities(d)
      PROVE  design' = design /\ refs' = refs
  BY <1>2 DEF StepOf, generateLogicConesGraph, BeginMerge, MergeParent, SkipParent, EndMerge,
              addConesPCalls, SpinOnWaitCondition, clearContinuousAssigns, vars
<1>3. CASE sortGraph \/ generateConeFunction \/ SkipCone \/ EndCones \/ updateInfos \/ EndLoop
  BY <1>3 DEF sortGraph, generateConeFunction, SkipCone, EndCones, updateInfos, EndLoop
<1>4. QED BY <1>1, <1>2, <1>3 DEF fixLogicCones

(* Every step of step 3 keeps the writes of the shadowed declarations published. *)
LEMMA StepPublished ==
    ASSUME PublishedInv, [Step3Next]_step3Vars
    PROVE  PublishedInv'
<1>1. CASE fixLogicCones /\ UNCHANGED refineVars
  <2>1. design' = design
    BY <1>1, ConesKeepWrites DEF PublishedInv, fixLogicCones, sortGraph, generateConeFunction,
       SkipCone, EndCones, updateInfos, EndLoop
  <2>2. \A d \in Decls : ShadowWrites(d)' = ShadowWrites(d) /\ ShadowWrites(d) \subseteq refs'
    BY <1>1, <2>1, ConesKeepWrites DEF PublishedInv, ShadowWrites
  <2>3. QED BY <1>1, <2>1, <2>2 DEF PublishedInv, refineVars
<1>2. ASSUME NEW d \in Decls, ShadowSignal(d)
      PROVE  PublishedInv'
  <2>1. /\ design' = design /\ refs' = refs
        /\ kind' = [kind EXCEPT ![d] = "shadowed"]
        /\ writeBacks' = writeBacks \cup WrittenBack(d)
    BY <1>2 DEF ShadowSignal, Visit, infoVars
  <2>2. ShadowWrites(d) \subseteq WrittenBack(d)
    BY WriteUses DEF PublishedInv, ShadowWrites, WrittenBack
  <2>3. \A e \in Decls : ShadowWrites(e)' = ShadowWrites(e)
    BY <2>1 DEF ShadowWrites
  <2>4. QED BY <2>1, <2>2, <2>3 DEF PublishedInv, Kinds
<1>3. ASSUME NEW d \in Decls, KeepSignal(d) \/ BecomeVariable(d)
      PROVE  PublishedInv'
  <2>1. /\ design' = design /\ refs' = refs /\ writeBacks' = writeBacks
        /\ \E result \in {"signal", "variable"} : kind' = [kind EXCEPT ![d] = result]
    BY <1>3 DEF KeepSignal, BecomeVariable, Visit, infoVars
  <2>2. \A e \in Decls : ShadowWrites(e)' = ShadowWrites(e)
    BY <2>1 DEF ShadowWrites
  <2>3. QED BY <2>1, <2>2 DEF PublishedInv, Kinds
<1>4. CASE UNCHANGED step3Vars
  BY <1>4 DEF step3Vars, refineVars, vars, infoVars, PublishedInv, ShadowWrites
<1>5. QED BY <1>1, <1>2, <1>3, <1>4 DEF Step3Next, refineToVariables, Step3Returned

(* Every write a process makes to a shadowed signal is followed by the         *)
(* publication of the shadow, the writes of a task through its arguments       *)
(* included, for every design and every order in which infoMap is walked.      *)
THEOREM WritesArePublished == Step3Spec => []ShadowWritesPublished
<1>1. Step3Init => PublishedInv
  <2> SUFFICES ASSUME Step3Init PROVE PublishedInv
    OBVIOUS
  <2>1. design.refs \subseteq Refs
    BY DesignsAssumption DEF Step3Init, Init, WellFormed
  <2>2. QED BY <2>1 DEF Step3Init, Init, fillInfoMap, PublishedInv, ShadowWrites, Kinds
<1>2. PublishedInv /\ [Step3Next]_step3Vars => PublishedInv'
  BY StepPublished
<1>3. PublishedInv => ShadowWritesPublished
  <2> SUFFICES ASSUME PublishedInv, NEW r \in design.refs, kind[r.decl] = "shadowed",
                      r.ctx \in WriteContexts \ {"nonblockingLhs"}
               PROVE  r \in writeBacks
    BY DEF ShadowWritesPublished
  <2>1. r.decl \in Decls
    BY DEF PublishedInv, Refs
  <2>2. QED BY <2>1 DEF PublishedInv, ShadowWrites
<1>4. QED BY <1>1, <1>2, <1>3, PTL DEF Step3Spec

-----------------------------------------------------------------------------
(* Type correctness *)

(* The visit of a declaration leaves everything but the cones alone. *)
LEMMA RefineLeaves ==
    ASSUME NEW d \in Decls, refineToVariables(d)
    PROVE  /\ phase = "refine" /\ phase' = "refine" /\ d \in todo /\ todo' = todo \ {d}
           /\ UNCHANGED <<design, cur, k, conts, infoVars, graphVars, sorted, sensMap>>
BY DEF refineToVariables, KeepSignal, BecomeVariable, ShadowSignal, Visit

LEMMA ConesStep ==
    ASSUME fixLogicCones /\ UNCHANGED refineVars
    PROVE  [Next]_vars
BY DEF Next

LEMMA FiniteMentions ==
    ASSUME NEW c \in Decls, NEW d, NEW T, body[c] \in Seq(T)
    PROVE  /\ IsFiniteSet(MentionsAt(c, d)) /\ MentionsAt(c, d) \subseteq 1 .. Len(body[c])
           /\ Cardinality(MentionsAt(c, d)) \in Nat
<1>1. Len(body[c]) \in Nat /\ DOMAIN body[c] = 1 .. Len(body[c])
  OBVIOUS
<1>2. MentionsAt(c, d) \subseteq 1 .. Len(body[c])
  BY <1>1 DEF MentionsAt, Assigned
<1>3. IsFiniteSet(1 .. Len(body[c]))
  <2>1. PICK n \in Nat : n = Len(body[c])
    BY <1>1
  <2>2. 1 \in Int /\ n \in Int
    OBVIOUS
  <2>3. QED BY <2>1, <2>2, FS_Interval
<1>4. IsFiniteSet(MentionsAt(c, d))
  BY <1>2, <1>3, FS_Subset
<1>5. QED BY <1>2, <1>4, FS_CardinalityType

(* A body into which calls are put consists of its entries and of the calls. *)
LEMMA CallsBetweenType ==
    ASSUME NEW c \in Decls, NEW d, NEW T, body[c] \in Seq(T), [op |-> "call", cone |-> d] \in T,
           NEW place
    PROVE  CallsBetween(c, d, place) \in Seq(T)
<1> DEFINE n == Len(body[c]) + Cardinality(MentionsAt(c, d))
<1>1. n \in Nat
  BY FiniteMentions
<1>2. \A i \in DOMAIN body[c] : body[c][i] \in T
  OBVIOUS
<1>3. ASSUME NEW j \in 1 .. n PROVE CallsBetween(c, d, place)[j] \in T
  <2>1. CASE \E i \in DOMAIN body[c] : place[i] = j
    <3>1. (CHOOSE i \in DOMAIN body[c] : place[i] = j) \in DOMAIN body[c]
      BY <2>1
    <3>2. QED BY <1>2, <2>1, <3>1 DEF CallsBetween
  <2>2. CASE ~\E i \in DOMAIN body[c] : place[i] = j
    BY <2>2 DEF CallsBetween
  <2>3. QED BY <2>1, <2>2
<1>4. CallsBetween(c, d, place) = [j \in 1 .. n |-> CallsBetween(c, d, place)[j]]
  BY DEF CallsBetween
<1> HIDE DEF n
<1>5. QED BY <1>1, <1>3, <1>4

(* Putting an entry in front of a body keeps its entries. *)
LEMMA PrefixType ==
    ASSUME NEW T, NEW s \in Seq(T), NEW e \in T
    PROVE  <<e>> \o s \in Seq(T) /\ <<e>> \in Seq(T)
OBVIOUS

(* The bodies after the cone of d has been made to refresh the shadow of d. *)
LEMMA RefreshedBodies ==
    ASSUME NEW T, NEW d \in Decls, AddRefresh(d),
           body \in [Decls -> Seq(Items)],
           \A c \in Decls : body[c] \in Seq(T[c]),
           Refresh(d) \in T[d],
           \A c \in Hosts(d) : [op |-> "call", cone |-> d] \in T[c]
    PROVE  \A c \in Decls : body'[c] \in Seq(T[c])
<1>1. CASE d \in cones
  <2>1. body' = [body EXCEPT ![d] = <<Refresh(d)>> \o @]
    BY <1>1 DEF AddRefresh
  <2>2. <<Refresh(d)>> \o body[d] \in Seq(T[d])
    BY PrefixType
  <2>3. QED BY <2>1, <2>2
<1>2. CASE d \notin cones
  <2>1. body' = [c \in Decls |->
                        IF c = d THEN <<Refresh(d)>>
                        ELSE IF c \in Hosts(d) THEN CallAtEachMention(c, d)
                        ELSE body[c]]
    BY <1>2 DEF AddRefresh
  <2>2. <<Refresh(d)>> \in Seq(T[d])
    BY PrefixType
  <2>3. ASSUME NEW c \in Decls, c \in Hosts(d) PROVE CallAtEachMention(c, d) \in Seq(T[c])
    BY <2>3, CallsBetweenType DEF CallAtEachMention
  <2>4. QED BY <2>1, <2>2, <2>3
<1>3. QED BY <1>1, <1>2

(* What the visit of a declaration does to the cones. *)
LEMMA RefineCones ==
    ASSUME NEW d \in Decls, refineToVariables(d)
    PROVE  UNCHANGED coneVars \/ (AddRefresh(d) /\ "lhsNonBlocking" \in Uses(d))
BY DEF refineToVariables, KeepSignal, BecomeVariable, ShadowSignal

LEMMA RefreshType ==
    ASSUME TypeOK, NEW d \in Decls, AddRefresh(d)
    PROVE  /\ cones' \subseteq Decls /\ body' \in [Decls -> Seq(Items)]
           /\ calls' \in [Acts -> SUBSET Decls]
<1>1. Refresh(d) \in Items /\ [op |-> "call", cone |-> d] \in Items
  BY DEF Refresh, Items
<1>2. PICK T : T = [c \in Decls |-> Items]
  OBVIOUS
<1>3. \A c \in Hosts(d) : c \in Decls
  BY DEF Hosts, TypeOK, ConeRefs
<1>4. \A c \in Decls : body'[c] \in Seq(T[c])
  BY <1>1, <1>2, <1>3, RefreshedBodies DEF TypeOK
<1>5. body' = [c \in Decls |-> body'[c]]
  BY DEF AddRefresh, TypeOK
<1>6. body' \in [Decls -> Seq(Items)]
  BY <1>2, <1>4, <1>5
<1>7. cones' \subseteq Decls
  BY DEF AddRefresh, TypeOK
<1>8. calls' \in [Acts -> SUBSET Decls]
  <2>1. calls \in [Acts -> SUBSET Decls]
    BY DEF TypeOK
  <2>2. AddedCalls(d) \in [Acts -> SUBSET Decls]
    BY <2>1 DEF AddedCalls
  <2>3. QED BY <2>1, <2>2 DEF AddRefresh
<1>9. QED BY <1>6, <1>7, <1>8

(* Every step of step 3 keeps its maps well typed. *)
LEMMA Step3Type ==
    ASSUME RefineTypeOK, ContsInv, [Step3Next]_step3Vars
    PROVE  RefineTypeOK' /\ ContsInv'
<1>1. CASE fixLogicCones /\ UNCHANGED refineVars
  BY <1>1, ConesStep, StepType DEF RefineTypeOK, refineVars
<1>2. ASSUME NEW d \in Decls, refineToVariables(d)
      PROVE  RefineTypeOK' /\ ContsInv'
  <2>1. /\ cones' \subseteq Decls /\ body' \in [Decls -> Seq(Items)]
        /\ calls' \in [Acts -> SUBSET Decls]
    BY <1>2, RefineCones, RefreshType DEF RefineTypeOK, TypeOK, coneVars
  <2>2. TypeOK' /\ ContsInv'
    BY <1>2, <2>1, RefineLeaves DEF RefineTypeOK, TypeOK, ContsInv, infoVars, graphVars
  <2>3. kind' \in [Decls -> Kinds]
    BY <1>2 DEF refineToVariables, KeepSignal, BecomeVariable, ShadowSignal, Visit,
                RefineTypeOK, Kinds
  <2>4. writeBacks' \subseteq Refs
    BY <1>2 DEF refineToVariables, KeepSignal, BecomeVariable, ShadowSignal, WrittenBack,
                RefineTypeOK, TypeOK
  <2>5. syncList' \in [Decls -> SUBSET Decls]
    BY <1>2 DEF refineToVariables, KeepSignal, BecomeVariable, ShadowSignal, RefineTypeOK, TypeOK
  <2>6. QED BY <2>2, <2>3, <2>4, <2>5 DEF RefineTypeOK
<1>3. CASE UNCHANGED step3Vars
  BY <1>3, StepType DEF step3Vars, refineVars, RefineTypeOK
<1>4. QED BY <1>1, <1>2, <1>3 DEF Step3Next, Step3Returned

LEMMA InitStep3 == Step3Init => RefineTypeOK /\ ContsInv
BY InitType DEF Step3Init, RefineTypeOK, Kinds

(* RefineTypeOK is an invariant of step 3: the bodies stay bodies when the     *)
(* refresh of a shadow and the calls of a new cone are put into them.          *)
THEOREM RefineTypeCorrect == Step3Spec => []RefineTypeOK
<1>1. RefineTypeOK /\ ContsInv /\ [Step3Next]_step3Vars => RefineTypeOK' /\ ContsInv'
  BY Step3Type
<1>2. QED BY InitStep3, <1>1, PTL DEF Step3Spec

-----------------------------------------------------------------------------
(* Calls in front of mentions. A body that grows keeps every call in front of  *)
(* the mentions it serves.                                                     *)
Mentions(s, d) ==
    {i \in DOMAIN s : /\ s[i].op \in {"assign", "assignTmp"}
                      /\ d \in s[i].asg.srcs \/ (s[i].op = "assign" /\ d = s[i].asg.tgt)}

CalledIn(s, d) ==
    \A n \in Mentions(s, d) : \E m \in 1 .. n : s[m] = [op |-> "call", cone |-> d]

LEMMA MentionsOfBody ==
    ASSUME NEW c, NEW d
    PROVE  MentionsAt(c, d) = Mentions(body[c], d)
BY DEF MentionsAt, Assigned, Mentions

(* t holds the entries of s in their order and no other assignment. *)
Extends(s, t, place) ==
    /\ \A i \in DOMAIN s : place[i] \in DOMAIN t /\ t[place[i]] = s[i]
    /\ \A i, j \in DOMAIN s : i <= j => place[i] <= place[j]
    /\ \A j \in DOMAIN t : t[j].op \in {"assign", "assignTmp"} => \E i \in DOMAIN s : place[i] = j

LEMMA ExtendedCalls ==
    ASSUME NEW S, NEW s \in Seq(S), NEW t \in Seq(S), NEW place, Extends(s, t, place),
           NEW d, CalledIn(s, d)
    PROVE  CalledIn(t, d)
<1> SUFFICES ASSUME NEW n \in Mentions(t, d)
             PROVE  \E m \in 1 .. n : t[m] = [op |-> "call", cone |-> d]
  BY DEF CalledIn
<1>1. PICK i \in DOMAIN s : place[i] = n
  BY DEF Mentions, Extends
<1>2. i \in Mentions(s, d)
  BY <1>1 DEF Mentions, Extends
<1>3. PICK j \in 1 .. i : s[j] = [op |-> "call", cone |-> d]
  BY <1>2 DEF CalledIn
<1>4. j \in DOMAIN s /\ j <= i
  BY <1>1
<1>5. place[j] \in DOMAIN t /\ place[j] <= n /\ t[place[j]] = s[j]
  BY <1>1, <1>4 DEF Extends
<1>6. place[j] \in 1 .. n
  <2>1. DOMAIN t = 1 .. Len(t) /\ Len(t) \in Nat /\ n \in DOMAIN t
    BY DEF Mentions
  <2>2. QED BY <1>5, <2>1
<1>7. QED BY <1>3, <1>5, <1>6

(* Where InsertAt puts everything. *)
LEMMA InsertAtFacts ==
    ASSUME NEW S, NEW s \in Seq(S), NEW i \in DOMAIN s, NEW e \in S
    PROVE  /\ DOMAIN InsertAt(s, i, e) = 1 .. Len(s) + 1
           /\ InsertAt(s, i, e)[i] = e
           /\ \A j \in DOMAIN s : j < i => InsertAt(s, i, e)[j] = s[j]
           /\ \A j \in DOMAIN s : ~(j < i) => InsertAt(s, i, e)[j + 1] = s[j]
<1>1. i \in 1 .. Len(s) /\ Len(s) \in Nat /\ DOMAIN s = 1 .. Len(s)
  OBVIOUS
<1> DEFINE a == SubSeq(s, 1, i - 1)
           b == SubSeq(s, i, Len(s))
<1>2. a \in Seq(S) /\ Len(a) = i - 1 /\ \A j \in 1 .. i - 1 : a[j] = s[j]
  BY <1>1
<1>3. b \in Seq(S) /\ Len(b) = Len(s) - i + 1 /\ \A j \in 1 .. Len(b) : b[j] = s[i + j - 1]
  BY <1>1
<1>4. InsertAt(s, i, e) = a \o <<e>> \o b
  BY DEF InsertAt
<1> HIDE DEF a, b
<1>5. (a \o <<e>>) \in Seq(S) /\ Len(a \o <<e>>) = i
  BY <1>1, <1>2
<1>6. (a \o <<e>>)[i] = e /\ \A j \in 1 .. i - 1 : (a \o <<e>>)[j] = s[j]
  BY <1>1, <1>2
<1> DEFINE h == a \o <<e>>
<1> HIDE DEF h
<1>7. h \in Seq(S) /\ Len(h) = i /\ h[i] = e /\ \A j \in 1 .. i - 1 : h[j] = s[j]
  BY <1>5, <1>6 DEF h
<1>8. DOMAIN (h \o b) = 1 .. Len(s) + 1
  <2>1. h \o b \in Seq(S) /\ Len(h \o b) = Len(h) + Len(b)
    <3>1. h \in Seq(S) /\ b \in Seq(S)
      BY <1>3, <1>7
    <3>2. QED BY <3>1
  <2>2. Len(h) + Len(b) = Len(s) + 1
    <3>1. Len(h) = i /\ Len(b) = Len(s) - i + 1 /\ i \in Int /\ Len(s) \in Int
      BY <1>1, <1>3, <1>7
    <3>2. QED BY <3>1
  <2>3. PICK u \in Seq(S) : u = h \o b
    BY <2>1
  <2>4. DOMAIN u = 1 .. Len(u)
    OBVIOUS
  <2>5. QED BY <2>1, <2>2, <2>3, <2>4
<1>9. (h \o b)[i] = e
  BY <1>1, <1>3, <1>7
<1>10. ASSUME NEW j \in DOMAIN s, j < i PROVE (h \o b)[j] = s[j]
  BY <1>1, <1>3, <1>7, <1>10
<1>11. ASSUME NEW j \in DOMAIN s, ~(j < i) PROVE (h \o b)[j + 1] = s[j]
  <2>1. j + 1 - i \in 1 .. Len(b) /\ b[j + 1 - i] = s[j]
    BY <1>1, <1>3, <1>11
  <2>2. (h \o b)[j + 1] = b[j + 1 - i]
    BY <1>1, <1>3, <1>7, <1>11, <2>1
  <2>3. QED BY <2>1, <2>2
<1>12. QED BY <1>4, <1>8, <1>9, <1>10, <1>11 DEF h

(* A call put in front of the first mention of d serves all of them, and every *)
(* call there was serves what it served.                                       *)
LEMMA InsertedCall ==
    ASSUME NEW S, NEW s \in Seq(S), NEW d, NEW i \in Mentions(s, d),
           \A j \in Mentions(s, d) : i <= j,
           NEW x \in S, x = [op |-> "call", cone |-> d]
    PROVE  LET t == InsertAt(s, i, x)
           IN  /\ CalledIn(t, d) /\ \A e : CalledIn(s, e) => CalledIn(t, e)
               /\ \E place : Extends(s, t, place)
<1> DEFINE t == InsertAt(s, i, x)
           place == [j \in DOMAIN s |-> IF j < i THEN j ELSE j + 1]
<1>1. i \in DOMAIN s /\ i \in 1 .. Len(s) /\ Len(s) \in Nat /\ DOMAIN s = 1 .. Len(s)
  BY DEF Mentions
<1>2. /\ t \in Seq(S) /\ DOMAIN t = 1 .. Len(s) + 1
      /\ t[i] = x
      /\ \A j \in DOMAIN s : t[place[j]] = s[j]
  <2>1. t \in Seq(S)
    BY <1>1, InsertAtType
  <2>2. /\ DOMAIN t = 1 .. Len(s) + 1 /\ t[i] = x
        /\ \A j \in DOMAIN s : j < i => t[j] = s[j]
        /\ \A j \in DOMAIN s : ~(j < i) => t[j + 1] = s[j]
    BY <1>1, InsertAtFacts
  <2> HIDE DEF t
  <2>3. QED BY <2>1, <2>2
<1> HIDE DEF t
<1>3. Extends(s, t, place)
  <2>1. \A j \in DOMAIN s : place[j] \in DOMAIN t
    BY <1>1, <1>2
  <2>2. \A j, l \in DOMAIN s : j <= l => place[j] <= place[l]
    BY <1>1
  <2>3. ASSUME NEW j \in DOMAIN t, j # i PROVE \E l \in DOMAIN s : place[l] = j
    <3>1. CASE j < i
      <4>1. j \in DOMAIN s /\ place[j] = j
        BY <1>1, <1>2, <3>1
      <4>2. QED BY <4>1
    <3>2. CASE ~(j < i)
      <4>1. j - 1 \in DOMAIN s /\ place[j - 1] = j
        BY <1>1, <1>2, <2>3, <3>2
      <4>2. QED BY <4>1
    <3>3. QED BY <3>1, <3>2
  <2>4. QED BY <1>2, <2>1, <2>2, <2>3 DEF Extends
<1>4. ASSUME NEW e, CalledIn(s, e) PROVE CalledIn(t, e)
  BY <1>2, <1>3, <1>4, ExtendedCalls
<1>5. ASSUME NEW n \in Mentions(t, d) PROVE i \in 1 .. n
  <2>1. n \in DOMAIN t /\ t[n].op \in {"assign", "assignTmp"}
    BY DEF Mentions
  <2>2. PICK l \in DOMAIN s : place[l] = n
    BY <1>3, <2>1 DEF Extends
  <2>3. l \in Mentions(s, d)
    BY <1>2, <2>2 DEF Mentions
  <2>4. i <= l /\ l <= n
    BY <1>1, <2>2, <2>3
  <2>5. QED BY <1>1, <1>2, <2>1, <2>4
<1>6. CalledIn(t, d)
  BY <1>2, <1>5 DEF CalledIn
<1>7. QED BY <1>3, <1>4, <1>6 DEF t

(* An entry put in front of a body leaves its mentions served. *)
LEMMA PrefixExtends ==
    ASSUME NEW S, NEW s \in Seq(S), NEW x \in S, x.op = "refresh"
    PROVE  \E place : Extends(s, <<x>> \o s, place)
<1> DEFINE t == <<x>> \o s
           place == [j \in DOMAIN s |-> j + 1]
<1>1. Len(s) \in Nat /\ DOMAIN s = 1 .. Len(s)
  OBVIOUS
<1>2. t \in Seq(S) /\ DOMAIN t = 1 .. Len(s) + 1 /\ t[1] = x
  OBVIOUS
<1>3. \A j \in DOMAIN s : t[place[j]] = s[j]
  OBVIOUS
<1> HIDE DEF t
<1>4. ASSUME NEW j \in DOMAIN t, t[j].op \in {"assign", "assignTmp"}
      PROVE  \E l \in DOMAIN s : place[l] = j
  <2>1. j # 1
    BY <1>2, <1>4
  <2>2. j - 1 \in DOMAIN s /\ place[j - 1] = j
    BY <1>1, <1>2, <2>1
  <2>3. QED BY <2>2
<1>5. Extends(s, t, place)
  BY <1>1, <1>2, <1>3, <1>4 DEF Extends
<1>6. QED BY <1>5 DEF t

LEMMA PrefixedCalls ==
    ASSUME NEW S, NEW s \in Seq(S), NEW x \in S, x.op = "refresh", NEW e, CalledIn(s, e)
    PROVE  CalledIn(<<x>> \o s, e)
<1>1. PICK t : t = <<x>> \o s
  OBVIOUS
<1>2. t \in Seq(S)
  BY <1>1
<1>3. PICK place : Extends(s, t, place)
  BY <1>1, PrefixExtends
<1>4. CalledIn(t, e)
  BY <1>2, <1>3, ExtendedCalls
<1>5. QED BY <1>1, <1>4

(* How many elements of M are at most n grows with n, and grows at every       *)
(* element of M.                                                               *)
Upto(M, n) == {m \in M : m <= n}

LEMMA UptoGrows ==
    ASSUME NEW M, IsFiniteSet(M), M \subseteq Nat, NEW l \in Nat, NEW n \in Nat, l <= n
    PROVE  /\ Cardinality(Upto(M, l)) \in Nat /\ Cardinality(Upto(M, n)) \in Nat
           /\ Cardinality(Upto(M, n)) <= Cardinality(M) /\ Cardinality(M) \in Nat
           /\ Cardinality(Upto(M, l)) <= Cardinality(Upto(M, n))
           /\ l < n /\ n \in M => Cardinality(Upto(M, l)) < Cardinality(Upto(M, n))
           /\ n \in M => Cardinality(Upto(M, n)) > 0
<1>1. Upto(M, n) \in SUBSET M /\ Upto(M, l) \in SUBSET M /\ Upto(M, l) \in SUBSET Upto(M, n)
  <2>1. ASSUME NEW m \in Upto(M, l) PROVE m \in M /\ m \in Upto(M, n)
    BY DEF Upto
  <2>2. ASSUME NEW m \in Upto(M, n) PROVE m \in M
    BY DEF Upto
  <2>3. QED BY <2>1, <2>2
<1>2. IsFiniteSet(Upto(M, n)) /\ Cardinality(Upto(M, n)) <= Cardinality(M)
  BY <1>1, FS_Subset
<1>3. IsFiniteSet(Upto(M, l)) /\ Cardinality(Upto(M, l)) <= Cardinality(Upto(M, n))
  BY <1>1, <1>2, FS_Subset
<1>4. /\ Cardinality(Upto(M, l)) \in Nat /\ Cardinality(Upto(M, n)) \in Nat
      /\ Cardinality(M) \in Nat
  BY <1>2, <1>3, FS_CardinalityType
<1>5. ASSUME l < n, n \in M PROVE Cardinality(Upto(M, l)) < Cardinality(Upto(M, n))
  <2>1. n \in Upto(M, n) /\ n \notin Upto(M, l)
    BY <1>5 DEF Upto
  <2>2. Cardinality(Upto(M, l)) # Cardinality(Upto(M, n))
    BY <1>1, <1>2, <2>1, FS_Subset
  <2>3. QED BY <1>3, <1>4, <2>2
<1>6. ASSUME n \in M PROVE Cardinality(Upto(M, n)) > 0
  <2>1. Upto(M, n) # {}
    BY <1>6 DEF Upto
  <2>2. Cardinality(Upto(M, n)) # 0
    BY <1>2, <2>1, FS_EmptySet
  <2>3. QED BY <1>4, <2>2
<1>7. QED BY <1>2, <1>3, <1>4, <1>5, <1>6

(* With a call in front of every mention of d, d is served everywhere, and     *)
(* what was served is served.                                                  *)
LEMMA EachMentionCalled ==
    ASSUME body \in [Decls -> Seq(Items)], NEW c \in Decls, NEW d \in Decls
    PROVE  /\ CalledIn(CallAtEachMention(c, d), d)
           /\ \A e : CalledIn(body[c], e) => CalledIn(CallAtEachMention(c, d), e)
           /\ \E place : Extends(body[c], CallAtEachMention(c, d), place)
<1> DEFINE s == body[c]
           t == CallAtEachMention(c, d)
           M == MentionsAt(c, d)
           place == [n \in DOMAIN body[c] |-> n + Cardinality({m \in MentionsAt(c, d) : m <= n})]
           last == Len(s) + Cardinality(M)
<1>1. /\ s \in Seq(Items) /\ Len(s) \in Nat /\ DOMAIN s = 1 .. Len(s)
      /\ IsFiniteSet(M) /\ M \subseteq 1 .. Len(s) /\ Cardinality(M) \in Nat
  <2>1. body[c] \in Seq(Items)
    OBVIOUS
  <2>2. IsFiniteSet(M) /\ M \subseteq 1 .. Len(s) /\ Cardinality(M) \in Nat
    BY <2>1, FiniteMentions
  <2>3. Len(body[c]) \in Nat /\ DOMAIN body[c] = 1 .. Len(body[c])
    BY <2>1
  <2> HIDE DEF M
  <2>4. QED BY <2>1, <2>2, <2>3
<1>2. [op |-> "call", cone |-> d] \in Items
  BY DEF Items
<1>3. t \in Seq(Items)
  BY <1>1, <1>2, CallsBetweenType DEF CallAtEachMention
<1>4. \A n \in DOMAIN s : place[n] = n + Cardinality(Upto(M, n))
  BY DEF Upto
<1>5. t = CallsBetween(c, d, place)
  BY DEF CallAtEachMention
<1>6. t = [j \in 1 .. last |->
              IF \E n \in DOMAIN s : place[n] = j
              THEN s[CHOOSE n \in DOMAIN s : place[n] = j]
              ELSE [op |-> "call", cone |-> d]]
  BY <1>5 DEF CallsBetween
<1>7. M = Mentions(s, d)
  BY MentionsOfBody
<1> HIDE DEF s, t, M, place, last
<1>8. ASSUME NEW l \in DOMAIN s, NEW n \in DOMAIN s, l < n
      PROVE  place[l] < place[n] /\ (n \in M => place[l] < place[n] - 1)
  <2>1. l \in Nat /\ n \in Nat /\ M \subseteq Nat /\ l <= n
    BY <1>1, <1>8
  <2>2. /\ Cardinality(Upto(M, l)) \in Nat /\ Cardinality(Upto(M, n)) \in Nat
        /\ Cardinality(Upto(M, l)) <= Cardinality(Upto(M, n))
        /\ n \in M => Cardinality(Upto(M, l)) < Cardinality(Upto(M, n))
    BY <1>1, <1>8, <2>1, UptoGrows
  <2>3. QED BY <1>4, <1>8, <2>1, <2>2
<1>9. ASSUME NEW n \in DOMAIN s
      PROVE  place[n] \in 1 .. last /\ (n \in M => place[n] - 1 \in 1 .. last)
  <2>1. n \in Nat /\ M \subseteq Nat /\ n <= n /\ n <= Len(s) /\ n >= 1
    BY <1>1
  <2>2. /\ Cardinality(Upto(M, n)) \in Nat /\ Cardinality(Upto(M, n)) <= Cardinality(M)
        /\ n \in M => Cardinality(Upto(M, n)) > 0
    BY <1>1, <2>1, UptoGrows
  <2>3. QED BY <1>1, <1>4, <2>1, <2>2 DEF last
<1>10. \A l, n \in DOMAIN s : place[l] = place[n] => l = n
  <2>1. ASSUME NEW l \in DOMAIN s, NEW n \in DOMAIN s, place[l] = place[n], l # n PROVE FALSE
    <3>1. l < n \/ n < l
      BY <1>1, <2>1
    <3>2. \A p \in DOMAIN s : place[p] \in Int
      BY <1>1, <1>9 DEF last
    <3>3. QED BY <1>8, <2>1, <3>1, <3>2
  <2>2. QED BY <2>1
<1>11. ASSUME NEW n \in DOMAIN s PROVE t[place[n]] = s[n]
  <2>1. (CHOOSE l \in DOMAIN s : place[l] = place[n]) = n
    BY <1>10
  <2>2. QED BY <1>6, <1>9, <2>1
<1>12. \A j \in DOMAIN t : (\E n \in DOMAIN s : place[n] = j) \/ t[j] = [op |-> "call", cone |-> d]
  BY <1>6
<1>13. Extends(s, t, place)
  <2>1. \A l, n \in DOMAIN s : l <= n => place[l] <= place[n]
    <3>1. ASSUME NEW l \in DOMAIN s, NEW n \in DOMAIN s, l <= n PROVE place[l] <= place[n]
      <4>1. l = n \/ l < n
        BY <1>1, <3>1
      <4>2. place[l] \in Int /\ place[n] \in Int
        BY <1>1, <1>9 DEF last
      <4>3. QED BY <1>8, <4>1, <4>2
    <3>2. QED BY <3>1
  <2>2. DOMAIN t = 1 .. last
    BY <1>6
  <2>3. QED BY <1>9, <1>11, <1>12, <2>1, <2>2 DEF Extends
<1>14. ASSUME NEW e, CalledIn(s, e) PROVE CalledIn(t, e)
  BY <1>1, <1>3, <1>13, <1>14, ExtendedCalls
<1>15. CalledIn(t, d)
  <2>1. SUFFICES ASSUME NEW j \in Mentions(t, d)
                 PROVE  \E m \in 1 .. j : t[m] = [op |-> "call", cone |-> d]
    BY DEF CalledIn
  <2>2. j \in DOMAIN t /\ t[j].op \in {"assign", "assignTmp"}
    BY DEF Mentions
  <2>3. PICK n \in DOMAIN s : place[n] = j
    BY <1>13, <2>2 DEF Extends
  <2>4. n \in M
    BY <1>7, <1>11, <2>3 DEF Mentions
  <2>5. place[n] - 1 \in 1 .. last /\ ~\E l \in DOMAIN s : place[l] = place[n] - 1
    <3>1. place[n] - 1 \in 1 .. last
      BY <1>9, <2>4
    <3>2. ASSUME NEW l \in DOMAIN s, place[l] = place[n] - 1 PROVE FALSE
      <4>1. l < n \/ l = n \/ n < l
        BY <1>1
      <4>2. place[l] \in Int /\ place[n] \in Int
        BY <1>1, <1>9 DEF last
      <4>3. QED BY <1>8, <2>4, <3>2, <4>1, <4>2
    <3>3. QED BY <3>1, <3>2
  <2>6. t[place[n] - 1] = [op |-> "call", cone |-> d]
    BY <1>6, <2>5
  <2>7. place[n] - 1 \in 1 .. j
    BY <1>1, <1>9, <2>3, <2>5 DEF last
  <2>8. QED BY <2>6, <2>7
<1>16. QED BY <1>13, <1>14, <1>15 DEF s, t

(* Every cone is called in the other cones in front of each action that        *)
(* mentions its net, from the visit of addConesPCalls to the end of step 3.    *)
HostsCall(d) == \A c \in Hosts(d) : CalledIn(body[c], d)

HostsInv ==
    /\ phase = "calls" => \A d \in cones \ todo : HostsCall(d)
    /\ phase \in {"sens", "clear", "refine"} => \A d \in cones : HostsCall(d)

LEMMA CallsAdded ==
    ASSUME TypeOK, HostsInv, NEW d \in Decls, addConesPCalls(d)
    PROVE  HostsInv'
<1>1. PICK pos \in [Hosts(d) -> UNION {MentionsAt(c, d) : c \in Hosts(d)}] :
          /\ \A c \in Hosts(d) : IsFirstMention(pos[c], c, d)
          /\ body' = [c \in Decls |->
                         IF c \in Hosts(d)
                         THEN InsertAt(body[c], pos[c], [op |-> "call", cone |-> d])
                         ELSE body[c]]
  BY DEF addConesPCalls
<1>2. /\ phase = "calls" /\ phase' = "calls" /\ todo' = todo \ {d}
      /\ UNCHANGED <<cones, coneRefs>>
  BY DEF addConesPCalls, infoVars
<1>3. \A e : \A c \in Hosts(e) : c \in Decls
  BY DEF Hosts, TypeOK, ConeRefs
<1>4. PICK x \in Items : x = [op |-> "call", cone |-> d]
  BY DEF Items
<1>5. ASSUME NEW c \in Hosts(d)
      PROVE  CalledIn(body'[c], d) /\ \A e : CalledIn(body[c], e) => CalledIn(body'[c], e)
  <2>1. PICK i : i = pos[c]
    OBVIOUS
  <2>2. c \in Decls /\ body[c] \in Seq(Items)
    BY <1>3 DEF TypeOK
  <2>3. i \in Mentions(body[c], d) /\ \A j \in Mentions(body[c], d) : i <= j
    BY <1>1, <2>1, MentionsOfBody DEF IsFirstMention
  <2>4. body'[c] = InsertAt(body[c], i, x)
    BY <1>1, <1>4, <2>1, <2>2
  <2>5. QED BY <1>4, <2>2, <2>3, <2>4, InsertedCall
<1>6. \A c \in Decls \ Hosts(d) : body'[c] = body[c]
  BY <1>1
<1>7. \A e : Hosts(e)' = Hosts(e)
  BY <1>2 DEF Hosts
<1>8. ASSUME NEW e \in cones, HostsCall(e) \/ e = d PROVE HostsCall(e)'
  <2>1. ASSUME NEW c \in Hosts(e) PROVE CalledIn(body'[c], e)
    BY <1>3, <1>5, <1>6, <1>8, <2>1 DEF HostsCall
  <2>2. QED BY <1>7, <2>1 DEF HostsCall
<1>9. QED BY <1>2, <1>8 DEF HostsInv

LEMMA RefreshesAdded ==
    ASSUME TypeOK, NEW d \in Decls, AddRefresh(d), coneRefs' = coneRefs,
           \A e \in cones : HostsCall(e)
    PROVE  \A e \in cones' : HostsCall(e)'
<1>1. \A e : Hosts(e)' = Hosts(e)
  BY DEF Hosts
<1>2. \A e : \A c \in Hosts(e) : c \in Decls
  BY DEF Hosts, TypeOK, ConeRefs
<1>3. body \in [Decls -> Seq(Items)]
  BY DEF TypeOK
<1>4. CASE d \in cones
  <2>1. cones' = cones /\ body' = [body EXCEPT ![d] = <<Refresh(d)>> \o @]
    BY <1>4 DEF AddRefresh
  <2>2. PICK x \in Items : x = [op |-> "refresh", cone |-> d]
    BY DEF Items
  <2>3. body'[d] = <<x>> \o body[d] /\ \A c \in Decls \ {d} : body'[c] = body[c]
    BY <1>3, <2>1, <2>2 DEF Refresh
  <2>4. body[d] \in Seq(Items)
    BY <1>3
  <2>5. \A e : CalledIn(body[d], e) => CalledIn(body'[d], e)
    BY <2>2, <2>3, <2>4, PrefixedCalls
  <2>6. QED BY <1>1, <1>2, <2>1, <2>3, <2>5 DEF HostsCall
<1>5. CASE d \notin cones
  <2>1. /\ cones' = cones \cup {d}
        /\ body' = [c \in Decls |->
                        IF c = d THEN <<Refresh(d)>>
                        ELSE IF c \in Hosts(d) THEN CallAtEachMention(c, d)
                        ELSE body[c]]
    BY <1>5 DEF AddRefresh
  <2>2. \A e : CalledIn(body'[d], e)
    <3>1. body'[d] = <<Refresh(d)>>
      BY <2>1
    <3>2. \A i \in DOMAIN body'[d] : body'[d][i].op = "refresh"
      BY <3>1 DEF Refresh
    <3>3. QED BY <3>2 DEF CalledIn, Mentions
  <2>3. ASSUME NEW c \in Decls \ {d}, NEW e, CalledIn(body[c], e) \/ (e = d /\ c \in Hosts(d))
        PROVE  CalledIn(body'[c], e)
    <3>1. CASE c \in Hosts(d)
      BY <1>3, <2>1, <2>3, <3>1, EachMentionCalled
    <3>2. CASE c \notin Hosts(d)
      BY <2>1, <2>3, <3>2
    <3>3. QED BY <3>1, <3>2
  <2>4. ASSUME NEW e \in cones', NEW c \in Hosts(e) PROVE CalledIn(body'[c], e)
    <3>1. c \in Decls
      BY <1>2
    <3>2. CASE c = d
      BY <2>2, <3>2
    <3>3. CASE c # d /\ e = d
      BY <2>3, <2>4, <3>1, <3>3
    <3>4. CASE c # d /\ e # d
      <4>1. e \in cones
        BY <2>1, <3>4
      <4>2. CalledIn(body[c], e)
        BY <2>4, <4>1 DEF HostsCall
      <4>3. QED BY <2>3, <3>1, <3>4, <4>2
    <3>5. QED BY <3>2, <3>3, <3>4
  <2>5. QED BY <1>1, <2>4 DEF HostsCall
<1>6. QED BY <1>4, <1>5

LEMMA StepHosts ==
    ASSUME TypeOK, HostsInv, [Step3Next]_step3Vars
    PROVE  HostsInv'
<1> USE DEF infoVars, graphVars, coneVars, loopVars
<1>1. ASSUME UNCHANGED <<coneRefs, cones, body>>,
             phase' \in {"sens", "clear", "refine"} => phase \in {"sens", "clear", "refine"},
             phase' = "calls" => phase = "calls" /\ todo' = todo
      PROVE  HostsInv'
  BY <1>1 DEF HostsInv, HostsCall, Hosts
<1>2. CASE EndLoop
  <2>1. /\ UNCHANGED <<coneRefs, cones, body>> /\ todo = {}
        /\ phase \in {"graph", "calls", "sens", "clear"} /\ phase' = Following[phase]
    BY <1>2 DEF EndLoop, Following
  <2>2. phase' \in {"sort", "sens", "clear", "refine"} /\ (phase = "graph" => phase' = "sort")
    BY <2>1 DEF Following
  <2>3. QED BY <2>1, <2>2 DEF HostsInv, HostsCall, Hosts
<1>3. CASE updateInfos
  BY <1>3 DEF updateInfos, HostsInv
<1>4. CASE sortGraph \/ generateConeFunction \/ SkipCone \/ EndCones
  BY <1>4 DEF sortGraph, generateConeFunction, SkipCone, EndCones, HostsInv
<1>5. ASSUME NEW d \in Decls,
             \/ generateLogicConesGraph(d) \/ BeginMerge(d) \/ MergeParent(d)
             \/ SkipParent(d) \/ EndMerge(d)
      PROVE  HostsInv'
  BY <1>5 DEF generateLogicConesGraph, BeginMerge, MergeParent, SkipParent, EndMerge, HostsInv
<1>6. ASSUME NEW d \in Decls, fixSensitivities(d) \/ clearContinuousAssigns(d)
      PROVE  HostsInv'
  BY <1>1, <1>6 DEF fixSensitivities, clearContinuousAssigns
<1>7. ASSUME NEW d \in Decls, refineToVariables(d) PROVE HostsInv'
  <2>1. /\ phase = "refine" /\ phase' = "refine" /\ coneRefs' = coneRefs
    BY <1>7, RefineLeaves
  <2>2. CASE UNCHANGED coneVars
    BY <1>1, <2>1, <2>2
  <2>3. CASE AddRefresh(d)
    BY <2>1, <2>3, RefreshesAdded DEF HostsInv
  <2>4. QED BY <1>7, <2>2, <2>3, RefineCones
<1>8. CASE UNCHANGED vars
  BY <1>1, <1>8 DEF vars
<1>9. QED
  BY <1>2, <1>3, <1>4, <1>5, <1>6, <1>7, <1>8, CallsAdded
     DEF Step3Next, step3Vars, fixLogicCones, StepOf, SpinOnWaitCondition, Step3Returned

(* In every design and every order of the loops, a cone that refreshes a        *)
(* shadow is called in the bodies of the other cones before any action that     *)
(* mentions it, wherever further calls and refreshes are put later.             *)
THEOREM ReadersAreRefreshed == Step3Spec => []ShadowReadersRefreshed
<1>1. Step3Init => HostsInv
  BY DEF Step3Init, Init, HostsInv
<1>2. RefineTypeOK /\ HostsInv /\ [Step3Next]_step3Vars => HostsInv'
  BY StepHosts DEF RefineTypeOK
<1>3. HostsInv => ShadowReadersRefreshed
  BY MentionsOfBody DEF HostsInv, HostsCall, CalledIn, ShadowReadersRefreshed, Refined
<1>4. RefineTypeOK /\ ContsInv /\ [Step3Next]_step3Vars => RefineTypeOK' /\ ContsInv'
  BY Step3Type
<1>5. QED BY InitStep3, <1>1, <1>2, <1>3, <1>4, PTL DEF Step3Spec

-----------------------------------------------------------------------------
(* What fixLogicCones leaves behind holds to the end of step 3. A cone that    *)
(* refineToVariables adds is the cone of a register the graph computes from    *)
(* nothing, or its net would have had a cone before.                           *)
ConesInv(D) ==
    /\ WakeInv(D)
    /\ EdgesInv(D)
    /\ ListsNameRoots
    /\ \A r \in D.refs : ~IsWatch(r) => r \in refs

LEMMA ConesInit ==
    ASSUME NEW D \in Designs, Init, design = D
    PROVE  ConesInv(D)
<1>1. ListsNameRoots /\ \A r \in D.refs : ~IsWatch(r) => r \in refs
  BY DEF Init, fillInfoMap, ListsNameRoots
<1>2. QED BY <1>1, WakeInit, EdgesInit DEF ConesInv

(* No step of fixLogicCones removes a reference that is no list entry. *)
LEMMA AccessesStay ==
    ASSUME NEW r, ~IsWatch(r), r \in refs, [Next]_vars
    PROVE  r \in refs'
<1>1. ASSUME NEW d \in Decls, fixSensitivities(d) PROVE r \in refs'
  BY <1>1 DEF fixSensitivities, Sensitivities, IsWatch
<1>2. (\E d \in Decls : fixSensitivities(d)) \/ refs' = refs
  BY DEF Next, fixLogicCones, StepOf, Returned, vars, infoVars, sortGraph, generateConeFunction,
         SkipCone, EndCones, updateInfos, EndLoop, generateLogicConesGraph, BeginMerge, MergeParent,
         SkipParent, EndMerge, addConesPCalls, SpinOnWaitCondition, clearContinuousAssigns
<1>3. QED BY <1>1, <1>2

LEMMA ConesInvStep ==
    ASSUME NEW D \in Designs, TypeOK, ContsInv, ConesInv(D), [Next]_vars
    PROVE  ConesInv(D)'
<1>1. WakeInv(D)'
  BY StepWakes DEF ConesInv
<1>2. DriversInv({})
  BY DEF ConesInv, WakeInv, DriversInv, NodesInv, HasConeInv
<1>3. EdgesInv(D)'
  BY <1>2, StepEdges DEF ConesInv
<1>4. ListsNameRoots'
  BY StepLists DEF ConesInv
<1>5. \A r \in D.refs : ~IsWatch(r) => r \in refs'
  BY AccessesStay DEF ConesInv
<1>6. QED BY <1>1, <1>3, <1>4, <1>5 DEF ConesInv

(* A reference by which d is accessed stands in the design as it stands now. *)
LEMMA UseOnEntry ==
    ASSUME NEW D \in Designs, TypeOK, ConesInv(D), NEW d \in Decls,
           NEW u \in {"bind", "lhsNonBlocking"}, u \in Uses(d)
    PROVE  u \in UsesOnEntry(d) /\ IsUsed(d)
<1>1. PICK r \in refs : r.decl = d /\ UseOf(r.ctx) = u
  BY DEF Uses, TypeOK, ConeRefs
<1>2. r \in D.refs /\ design = D
  BY <1>1 DEF ConesInv, WakeInv, EntriesInv, IsWatch, EdgesInv
<1>3. u \in UsesOnEntry(d)
  BY <1>1, <1>2 DEF UsesOnEntry
<1>4. QED BY <1>3 DEF IsUsed, isOnlyInContinuousAssignments

LEMMA RefineKeepsCones ==
    ASSUME NEW D \in Designs, TypeOK, ConesInv(D), NEW d \in Decls, refineToVariables(d)
    PROVE  ConesInv(D)'
<1> USE DEF infoVars, graphVars
<1>1. /\ phase = "refine" /\ phase' = "refine"
      /\ UNCHANGED <<design, cur, k, conts, infoVars, graphVars, sorted, sensMap>>
  BY RefineLeaves
<1>2. /\ cones \subseteq cones'
      /\ \A e \in cones' : e \notin cones => e = d /\ "lhsNonBlocking" \in Uses(d)
  BY RefineCones DEF AddRefresh, coneVars
<1>3. \A e \in cones' : e \in Decls /\ (e \notin cones => first[e] = {})
  <2> SUFFICES ASSUME NEW e \in cones', e \notin cones
               PROVE  e \in Decls /\ first[e] = {}
    BY DEF TypeOK
  <2>1. IsUsed(d) /\ e = d
    BY <1>2, UseOnEntry
  <2>2. QED BY <1>1, <2>1 DEF ConesInv, EdgesInv, IsSourced
<1>4. WakeInv(D)'
  <2>1. GraphInv(D)'
    BY <1>1 DEF ConesInv, WakeInv, GraphInv, LiveNet
  <2>2. DriversInv(LiveNets(D))'
    BY <1>1 DEF DriversInv, EntryRefsInv, NodesInv, HasConeInv
  <2>3. EntriesInv(D)'
    BY <1>1 DEF ConesInv, WakeInv, EntriesInv
  <2>4. WokenInv(D)'
    BY <1>1 DEF ConesInv, WakeInv, WokenInv, Woken, IsUsed, UsesOnEntry
  <2>5. QED BY <2>1, <2>2, <2>3, <2>4 DEF WakeInv
<1>5. EdgesInv(D)'
  <2>1. \A e \in Decls : IsSourced(e) => IsSourced(e)'
    BY <1>1, <1>2 DEF IsSourced, IsUsed, UsesOnEntry
  <2>2. SensInv'
    BY <1>1 DEF ConesInv, EdgesInv, SensInv, Roots, Ancestors, Closure, IsClosed
  <2>3. QED BY <1>1, <2>1, <2>2 DEF ConesInv, EdgesInv, ReachInv
<1>6. ListsNameRoots'
  BY <1>1, <1>3 DEF ConesInv, ListsNameRoots, Sensitivities
<1>7. QED BY <1>1, <1>4, <1>5, <1>6 DEF ConesInv

LEMMA StepCones ==
    ASSUME NEW D \in Designs, TypeOK, ContsInv, ConesInv(D), [Step3Next]_step3Vars
    PROVE  ConesInv(D)'
BY ConesInvStep, RefineKeepsCones DEF Step3Next, Step3Returned, step3Vars, Next

(* The roots in the lists, the constant assignments in the tree and the wake-   *)
(* ups are as fixLogicCones left them when step 3 ends, the cones that          *)
(* refineToVariables adds included.                                             *)
THEOREM ConesOutliveRefinement ==
    ASSUME \A D \in Designs : TaskWritesAreSeen(D)
    PROVE  Step3Spec => [](WakesOnRoots /\ KeptDriversAreConstant)
<1> DEFINE Kept == \E D \in Designs : ConesInv(D)
<1>1. Step3Init => Kept
  BY ConesInit DEF Step3Init, Init
<1>2. RefineTypeOK /\ ContsInv /\ Kept /\ [Step3Next]_step3Vars => Kept'
  <2> SUFFICES ASSUME TypeOK, ContsInv, [Step3Next]_step3Vars, NEW D \in Designs, ConesInv(D)
               PROVE  ConesInv(D)'
    BY DEF RefineTypeOK
  <2>1. QED BY StepCones
<1>3. RefineTypeOK /\ ContsInv /\ Kept => WakesOnRoots /\ KeptDriversAreConstant
  <2> SUFFICES ASSUME TypeOK, ContsInv, NEW D \in Designs, ConesInv(D)
               PROVE  WakesOnRoots /\ KeptDriversAreConstant
    BY DEF RefineTypeOK
  <2>1. WakesOnRoots
    BY EntriesNameRoots DEF WakesOnRoots, IsWatch, ConesInv
  <2>2. KeptDriversAreConstant
    BY KeptAreDead DEF KeptDriversAreConstant, ConesInv, WakeInv
  <2>3. QED BY <2>1, <2>2
<1>4. RefineTypeOK /\ ContsInv /\ [Step3Next]_step3Vars => RefineTypeOK' /\ ContsInv'
  BY Step3Type
<1>5. QED BY InitStep3, <1>1, <1>2, <1>3, <1>4, PTL DEF Step3Spec

-----------------------------------------------------------------------------
(* The sync processes. The sensitivity map a shadowed signal takes its list    *)
(* from was filled for every live net that the code outside the continuous      *)
(* assignments uses.                                                           *)
SyncInv(D) ==
    \A d \in Decls : kind[d] = "shadowed" /\ Driven(D, d) => LiveRoots(D, d) \subseteq syncList[d]

(* A driven declaration stays a signal only because the design uses it. *)
LEMMA LiveSignals ==
    ASSUME NEW D \in Designs, TypeOK, ConesInv(D), phase = "refine",
           NEW d \in LiveNets(D), MustBeSignal(d)
    PROVE  IsUsed(d)
<1>1. design = D /\ d \in Decls /\ d \notin D.ports
  BY WellFormedDesign DEF ConesInv, EdgesInv, LiveNets, Driven
<1>2. PICK u \in {"port", "bind", "sensitivity", "wait", "lhsNonBlocking"} : u \in Uses(d)
  BY <1>1 DEF MustBeSignal, isSignal, isConnectionSignal
<1>3. PICK r \in refs : r.decl = d /\ UseOf(r.ctx) = u
  BY <1>2 DEF Uses, TypeOK, ConeRefs
<1>4. first[d] # {}
  <2>1. LiveNet(D, d)
    BY DEF LiveNets, ConesInv, WakeInv, GraphInv
  <2>2. \E y \in Sources(D)[d] : IsLive(D, y)
    BY <1>1, RootsFromSources DEF LiveNets, IsLive
  <2>3. QED BY <2>1, <2>2 DEF LiveNet
<1>5. r \in D.refs
  BY <1>3, <1>4 DEF ConesInv, WakeInv, EntriesInv
<1>6. u \in UsesOnEntry(d)
  BY <1>1, <1>3, <1>5 DEF UsesOnEntry
<1>7. u # "port"
  <2>1. r.ctx \in Contexts
    BY <1>5, WellFormedDesign DEF Refs
  <2>2. SUFFICES ASSUME u = "port" PROVE r.ctx = "portAssign"
    BY <1>1, <1>3, <1>5, WellFormedDesign
  <2>3. QED BY <1>3, <2>1, <2>2 DEF UseOf, Contexts, getWritingCallFormal
<1>8. QED BY <1>2, <1>6, <1>7 DEF IsUsed, isOnlyInContinuousAssignments

LEMMA StepSync ==
    ASSUME NEW D \in Designs, RefineTypeOK, ConesInv(D), SyncInv(D), [Step3Next]_step3Vars
    PROVE  SyncInv(D)'
<1>1. ASSUME NEW d \in Decls, ShadowSignal(d), Driven(D, d)
      PROVE  LiveRoots(D, d) \subseteq sensMap[d]
  <2>1. CASE LiveRoots(D, d) = {}
    BY <2>1
  <2>2. CASE LiveRoots(D, d) # {}
    <3>1. d \in LiveNets(D)
      BY <1>1, <2>2 DEF LiveNets, IsLive
    <3>2. phase = "refine" /\ MustBeSignal(d)
      BY <1>1 DEF ShadowSignal, Visit
    <3>3. IsUsed(d)
      BY <3>1, <3>2, LiveSignals DEF RefineTypeOK
    <3>4. Woken(D, d)
      BY <3>1, <3>2, <3>3 DEF ConesInv, WakeInv, WokenInv
    <3>5. QED BY <3>4 DEF Woken
  <2>3. QED BY <2>1, <2>2
<1>2. ASSUME NEW d \in Decls, ShadowSignal(d) PROVE SyncInv(D)'
  <2>1. /\ kind' = [kind EXCEPT ![d] = "shadowed"] /\ syncList' = [syncList EXCEPT ![d] = sensMap[d]]
    BY <1>2 DEF ShadowSignal, Visit
  <2>2. QED BY <1>1, <1>2, <2>1 DEF SyncInv, RefineTypeOK
<1>3. ASSUME NEW d \in Decls, KeepSignal(d) \/ BecomeVariable(d) PROVE SyncInv(D)'
  <2>1. /\ syncList' = syncList
        /\ \E result \in {"signal", "variable"} : kind' = [kind EXCEPT ![d] = result]
    BY <1>3 DEF KeepSignal, BecomeVariable, Visit
  <2>2. QED BY <2>1 DEF SyncInv, RefineTypeOK
<1>4. CASE UNCHANGED refineVars
  BY <1>4 DEF refineVars, SyncInv
<1>5. QED BY <1>2, <1>3, <1>4 DEF Step3Next, Step3Returned, step3Vars, refineToVariables

(* A net whose signal stays visible, because it is bound or assigned by a       *)
(* non-blocking assignment as well, is published by a process that wakes on     *)
(* everything that may change and that the net was computed from: calculating   *)
(* the roots in fixSensitivities, before any list is looked at, is enough for   *)
(* the nets that no list names.                                                 *)
THEOREM ShadowsArePublished ==
    ASSUME \A D \in Designs : TaskWritesAreSeen(D)
    PROVE  Step3Spec => []ShadowedNetsPublished
<1> DEFINE Kept == \E D \in Designs : ConesInv(D) /\ SyncInv(D)
<1>1. Step3Init => Kept
  BY ConesInit DEF Step3Init, Init, SyncInv
<1>2. RefineTypeOK /\ ContsInv /\ Kept /\ [Step3Next]_step3Vars => Kept'
  <2> SUFFICES ASSUME RefineTypeOK, ContsInv, [Step3Next]_step3Vars,
                      NEW D \in Designs, ConesInv(D), SyncInv(D)
               PROVE  ConesInv(D)' /\ SyncInv(D)'
    OBVIOUS
  <2>1. QED BY StepCones, StepSync DEF RefineTypeOK
<1>3. Kept => ShadowedNetsPublished
  <2> SUFFICES ASSUME NEW D \in Designs, ConesInv(D), SyncInv(D), NEW d \in Decls,
                      kind[d] = "shadowed", Driven(D, d), NEW s \in RootsIn(D.conts, {d}), CanChange(s)
               PROVE  s \in syncList[d]
    BY DEF ShadowedNetsPublished, ConesInv, EdgesInv, Driven
  <2>1. design = D /\ s \in Decls
    BY DEF ConesInv, EdgesInv, RootsIn, Closure
  <2>2. s \in LiveRoots(D, d)
    BY <2>1, ChangesSeen DEF LiveRoots
  <2>3. QED BY <2>2 DEF SyncInv
<1>4. RefineTypeOK /\ ContsInv /\ [Step3Next]_step3Vars => RefineTypeOK' /\ ContsInv'
  BY Step3Type
<1>5. QED BY InitStep3, <1>1, <1>2, <1>3, <1>4, PTL DEF Step3Spec

-----------------------------------------------------------------------------
(* Nothing waits for a variable. What a net that is bound, or also assigned by  *)
(* a non-blocking assignment, is computed from has to change where a process    *)
(* can wait for it: a net on the way has live roots, and a register that        *)
(* blocking assignments write stays a signal for some other use. What nobody    *)
(* writes is no source of the graph. Section 5 of the README describes the      *)
(* other designs.                                                               *)
EntryUses(D, x) == {UseOf(r.ctx) : r \in {q \in D.refs : q.decl = x}}

PublishedRoots(D) ==
    \A d \in Decls :
        Driven(D, d) /\ EntryUses(D, d) \cap {"bind", "lhsNonBlocking"} # {}
        => \A x \in Closure(Sources(D), {d}) :
               /\ Driven(D, x) => IsLive(D, x)
               /\ ~Driven(D, x) /\ "lhsBlocking" \in EntryUses(D, x)
                      => isSignal(x \in D.ports, EntryUses(D, x))

(* What generateLogicConesGraph takes for a source without drivers is a signal  *)
(* or written by blocking assignments.                                          *)
SourcesInv(D) ==
    /\ \A x \in Decls : ~Driven(D, x) => ~wasLhsContinuous[x]
    /\ \A d \in Decls : \A x \in first[d] : ~Driven(D, x) =>
           isSignal(x \in D.ports, EntryUses(D, x)) \/ "lhsBlocking" \in EntryUses(D, x)

LEMMA StepSources ==
    ASSUME NEW D \in Designs, TypeOK, ContsInv, ConesInv(D), SourcesInv(D), [Step3Next]_step3Vars
    PROVE  SourcesInv(D)'
<1>1. ASSUME UNCHANGED <<wasLhsContinuous, first>> PROVE SourcesInv(D)'
  BY <1>1 DEF SourcesInv
<1>2. ASSUME NEW d \in Decls, generateLogicConesGraph(d) PROVE SourcesInv(D)'
  <2>1. /\ phase = "graph" /\ first' = [first EXCEPT ![d] = @ \cup GraphSources(d)]
        /\ \A x \in Decls : wasLhsContinuous'[x] => wasLhsContinuous[x]
    BY <1>2 DEF generateLogicConesGraph, TypeOK
  <2>2. design = D /\ refs = D.refs /\ coneRefs = {}
    BY <2>1 DEF ConesInv, EdgesInv, WakeInv, DriversInv, EntryRefsInv
  <2>3. ASSUME NEW x \in GraphSources(d), ~Driven(D, x)
        PROVE  isSignal(x \in D.ports, EntryUses(D, x)) \/ "lhsBlocking" \in EntryUses(D, x)
    <3>1. x \in Decls /\ StaysSource(x)
      BY DEF GraphSources, TypeOK, ContAssigns
    <3>2. lhsContinuous[x] = {} /\ ~wasLhsContinuous[x]
      BY <2>2, <2>3, <3>1 DEF ContsInv, SourcesInv, Driven
    <3>3. Uses(x) = EntryUses(D, x)
      BY <2>2, <3>2 DEF Uses, EntryUses
    <3>4. x \in D.ports \/ isSignal(FALSE, EntryUses(D, x)) \/ isVariable(EntryUses(D, x), FALSE)
      BY <2>2, <3>1, <3>2, <3>3 DEF StaysSource, isVariable
    <3>5. \A r \in D.refs : UseOf(r.ctx) # "lhsContinuous"
      BY WellFormedDesign DEF Refs, Contexts, UseOf, getWritingCallFormal
    <3>6. "lhsContinuous" \notin EntryUses(D, x)
      BY <3>5 DEF EntryUses
    <3>7. QED BY <3>4, <3>6 DEF isSignal, isConnectionSignal, isVariable
  <2>4. QED BY <2>1, <2>3 DEF SourcesInv, TypeOK
<1>3. ASSUME NEW d \in Decls, MergeParent(d) PROVE SourcesInv(D)'
  <2>1. PICK p \in Decls : p = sorted[k]
    BY <1>3 DEF MergeParent, TypeOK
  <2>2. first' = [first EXCEPT ![d] = @ \cup first[p]] /\ wasLhsContinuous' = wasLhsContinuous
    BY <1>3, <2>1 DEF MergeParent, infoVars
  <2>3. QED BY <2>2 DEF SourcesInv, TypeOK
<1>4. QED
  BY <1>1, <1>2, <1>3, RefineLeaves
     DEF Step3Next, Step3Returned, step3Vars, fixLogicCones, StepOf, vars, infoVars, graphVars,
         sortGraph, generateConeFunction, SkipCone, EndCones, updateInfos, EndLoop, BeginMerge,
         SkipParent, EndMerge, addConesPCalls, fixSensitivities, SpinOnWaitCondition,
         clearContinuousAssigns

WatchInv ==
    /\ \A d \in Decls : kind[d] = "variable" => phase = "refine" /\ ~MustBeSignal(d)
    /\ \A s \in Decls : \A x \in syncList[s] : phase = "refine" /\ MustBeSignal(x)

LEMMA MustBeSignalStays ==
    ASSUME UNCHANGED <<design, infoVars>>
    PROVE  \A d : MustBeSignal(d)' <=> MustBeSignal(d)
BY DEF MustBeSignal, Uses, infoVars

(* A declaration that no assignment drives keeps its references. *)
LEMMA SignalOnEntry ==
    ASSUME NEW D \in Designs, ConesInv(D), NEW x \in Decls, ~Driven(D, x),
           isSignal(x \in D.ports, EntryUses(D, x))
    PROVE  MustBeSignal(x)
<1>1. design = D /\ \A r \in D.refs : r.decl = x => r \in refs
  BY DEF ConesInv, EdgesInv, WakeInv, EntriesInv
<1>2. EntryUses(D, x) \subseteq Uses(x)
  BY <1>1 DEF Uses, EntryUses
<1>3. QED BY <1>1, <1>2 DEF MustBeSignal, isSignal, isConnectionSignal

LEMMA SyncedRoots ==
    ASSUME NEW D \in Designs, PublishedRoots(D), TypeOK, ConesInv(D), SourcesInv(D), phase = "refine",
           NEW s \in Decls, MustBeSignal(s), NEW x \in sensMap[s]
    PROVE  MustBeSignal(x)
<1>1. design = D /\ x \in Roots(s) /\ x \in Decls /\ x \in Ancestors(s) /\ first[x] = {}
  BY DEF ConesInv, EdgesInv, SensInv, Roots
<1>2. first \in [Decls -> SUBSET Decls] /\ first[s] \in SUBSET Decls
  BY DEF TypeOK
<1>3. first[s] # {}
  <2>1. SUFFICES ASSUME first[s] = {} PROVE FALSE
    OBVIOUS
  <2>2. {} \in SUBSET Decls /\ IsClosed(first, {})
    BY DEF IsClosed
  <2>3. Closure(first, first[s]) \subseteq {}
    BY <1>2, <2>1, <2>2, ClosureFacts
  <2>4. QED BY <1>1, <2>3 DEF Ancestors
<1>4. Driven(D, s) /\ s \notin D.ports
  BY <1>3, WellFormedDesign DEF ConesInv, WakeInv, GraphInv, Driven
<1>5. PICK u \in {"port", "bind", "sensitivity", "wait", "lhsNonBlocking"} : u \in Uses(s)
  BY <1>1, <1>4 DEF MustBeSignal, isSignal, isConnectionSignal
<1>6. PICK r \in refs : r.decl = s /\ UseOf(r.ctx) = u
  BY <1>5 DEF Uses, TypeOK, ConeRefs
<1>7. r \in D.refs /\ r \in Refs
  BY <1>3, <1>6 DEF ConesInv, WakeInv, EntriesInv, TypeOK
<1>8. u # "port"
  <2>1. SUFFICES ASSUME u = "port" PROVE r.ctx = "portAssign"
    BY <1>4, <1>6, <1>7, WellFormedDesign
  <2>2. QED BY <1>6, <1>7, <2>1 DEF UseOf, Contexts, Refs, getWritingCallFormal
<1>9. u \notin {"sensitivity", "wait"}
  <2>1. SUFFICES ASSUME u \in {"sensitivity", "wait"} PROVE FALSE
    OBVIOUS
  <2>2. u \in UsesOnEntry(s)
    BY <1>1, <1>6, <1>7 DEF UsesOnEntry
  <2>3. s \in cones
    BY <1>3, <2>1, <2>2 DEF ConesInv, EdgesInv, IsSourced, IsUsed, isOnlyInContinuousAssignments
  <2>4. Sensitivities(s) = {}
    BY <1>3, <2>3 DEF ConesInv, ListsNameRoots
  <2>5. QED BY <1>6, <2>1, <2>4 DEF Sensitivities
<1>10. x \in Closure(Sources(D), {s})
  <2> DEFINE R == Closure(Sources(D), {s})
  <2>1. R \in SUBSET Decls /\ IsClosed(first, R) /\ first[s] \subseteq R
    <3>1. {s} \in SUBSET Decls
      OBVIOUS
    <3>2. R \in SUBSET Decls
      BY <3>1, SourcesType, ClosureFacts
    <3>3. ASSUME NEW t \in R PROVE first[t] \subseteq R
      <4>1. {t} \in SUBSET Decls /\ {t} \subseteq R
        BY <3>2, <3>3
      <4>2. Closure(Sources(D), {t}) \subseteq R
        BY <3>1, <4>1, SourcesType, ClosureMono
      <4>3. QED BY <3>2, <4>2 DEF ConesInv, EdgesInv, ReachInv
    <3>4. first[s] \subseteq R
      BY DEF ConesInv, EdgesInv, ReachInv
    <3>5. QED BY <3>2, <3>3, <3>4 DEF IsClosed
  <2> HIDE DEF R
  <2>2. Closure(first, first[s]) \subseteq R
    BY <1>2, <2>1, ClosureFacts
  <2>3. QED BY <1>1, <2>2 DEF Ancestors, R
<1>11. /\ Driven(D, x) => IsLive(D, x)
       /\ ~Driven(D, x) /\ "lhsBlocking" \in EntryUses(D, x) => isSignal(x \in D.ports, EntryUses(D, x))
  <2>1. u \in EntryUses(D, s) \cap {"bind", "lhsNonBlocking"}
    BY <1>5, <1>6, <1>7, <1>8, <1>9 DEF EntryUses
  <2>2. QED BY <1>4, <1>10, <2>1 DEF PublishedRoots
<1>12. ~Driven(D, x)
  <2>1. SUFFICES ASSUME Driven(D, x) PROVE FALSE
    OBVIOUS
  <2>2. LiveNet(D, x)
    BY <1>1, <1>11, <2>1 DEF ConesInv, WakeInv, GraphInv
  <2>3. \E y \in Sources(D)[x] : IsLive(D, y)
    BY <1>1, <1>11, <2>1, RootsFromSources DEF IsLive
  <2>4. QED BY <1>1, <2>2, <2>3 DEF LiveNet
<1>13. \E e \in Decls : x \in first[e]
  <2> DEFINE R == {y \in Decls : \E e \in Decls : y \in first[e]}
  <2>1. R \in SUBSET Decls /\ IsClosed(first, R) /\ first[s] \subseteq R
    BY <1>2 DEF IsClosed
  <2> HIDE DEF R
  <2>2. Closure(first, first[s]) \subseteq R
    BY <1>2, <2>1, ClosureFacts
  <2>3. QED BY <1>1, <2>2 DEF Ancestors, R
<1>14. QED BY <1>1, <1>11, <1>12, <1>13, SignalOnEntry DEF SourcesInv

LEMMA StepWatch ==
    ASSUME NEW D \in Designs, PublishedRoots(D), RefineTypeOK, ConesInv(D), SourcesInv(D), WatchInv,
           [Step3Next]_step3Vars
    PROVE  WatchInv'
<1>1. ASSUME NEW d \in Decls, refineToVariables(d) PROVE WatchInv'
  <2>1. /\ phase = "refine" /\ phase' = "refine" /\ UNCHANGED <<design, infoVars, sensMap>>
    BY <1>1, RefineLeaves
  <2>2. \A e : MustBeSignal(e)' <=> MustBeSignal(e)
    BY <2>1, MustBeSignalStays
  <2>3. \A e \in Decls : kind'[e] = "variable" => ~MustBeSignal(e)
    BY <1>1 DEF refineToVariables, KeepSignal, BecomeVariable, ShadowSignal, Visit, WatchInv,
                RefineTypeOK
  <2>4. \A s \in Decls : \A x \in syncList'[s] : MustBeSignal(x)
    <3>1. CASE ShadowSignal(d)
      <4>1. MustBeSignal(d) /\ syncList' = [syncList EXCEPT ![d] = sensMap[d]]
        BY <3>1 DEF ShadowSignal
      <4>2. \A x \in sensMap[d] : MustBeSignal(x)
        BY <2>1, <4>1, SyncedRoots DEF RefineTypeOK
      <4>3. QED BY <4>1, <4>2 DEF WatchInv, RefineTypeOK
    <3>2. CASE syncList' = syncList
      BY <3>2 DEF WatchInv
    <3>3. QED BY <1>1, <3>1, <3>2 DEF refineToVariables, KeepSignal, BecomeVariable
  <2>5. QED BY <2>1, <2>2, <2>3, <2>4 DEF WatchInv
<1>2. CASE fixLogicCones /\ UNCHANGED refineVars
  <2>1. phase # "refine"
    BY <1>2 DEF fixLogicCones, sortGraph, generateConeFunction, SkipCone, EndCones, updateInfos,
                EndLoop, Following, StepOf, generateLogicConesGraph, BeginMerge, MergeParent,
                SkipParent, EndMerge, addConesPCalls, fixSensitivities, SpinOnWaitCondition,
                clearContinuousAssigns
  <2>2. QED BY <1>2, <2>1 DEF WatchInv, refineVars
<1>3. CASE UNCHANGED step3Vars
  BY <1>3, MustBeSignalStays DEF step3Vars, vars, loopVars, refineVars, infoVars, WatchInv
<1>4. QED BY <1>1, <1>2, <1>3 DEF Step3Next, Step3Returned

(* Under that hypothesis no list, no wait and no sync process names what has    *)
(* become a variable, whatever order the loops of step 3 run in.                *)
THEOREM NothingWaitsForVariables ==
    ASSUME \A D \in Designs : PublishedRoots(D)
    PROVE  Step3Spec => []WatchersSeeSignals
<1> DEFINE Kept == \E D \in Designs : ConesInv(D) /\ SourcesInv(D)
<1>1. Step3Init => Kept /\ WatchInv
  <2> SUFFICES ASSUME Step3Init PROVE Kept /\ WatchInv
    OBVIOUS
  <2>1. PICK D \in Designs : design = D
    BY DEF Step3Init, Init
  <2>2. SourcesInv(D) /\ WatchInv
    BY <2>1 DEF Step3Init, Init, fillInfoMap, SourcesInv, WatchInv, Driven
  <2>3. QED BY <2>1, <2>2, ConesInit DEF Step3Init
<1>2. RefineTypeOK /\ ContsInv /\ Kept /\ WatchInv /\ [Step3Next]_step3Vars => Kept' /\ WatchInv'
  <2> SUFFICES ASSUME RefineTypeOK, ContsInv, WatchInv, [Step3Next]_step3Vars,
                      NEW D \in Designs, ConesInv(D), SourcesInv(D)
               PROVE  ConesInv(D)' /\ SourcesInv(D)' /\ WatchInv'
    OBVIOUS
  <2>1. QED BY StepCones, StepSources, StepWatch DEF RefineTypeOK
<1>3. WatchInv => WatchersSeeSignals
  <2> SUFFICES ASSUME WatchInv, NEW d \in Decls, kind[d] = "variable"
               PROVE  /\ \A r \in refs : r.decl = d =>
                             UseOf(r.ctx) \notin {"sensitivity", "wait", "bind", "port"}
                      /\ \A s \in Decls : d \notin syncList[s]
    BY DEF WatchersSeeSignals
  <2>1. ~MustBeSignal(d)
    BY DEF WatchInv
  <2>2. \A r \in refs : r.decl = d => UseOf(r.ctx) \in Uses(d)
    BY DEF Uses
  <2>3. QED BY <2>1, <2>2 DEF WatchInv, MustBeSignal, isSignal, isConnectionSignal
<1>4. RefineTypeOK /\ ContsInv /\ [Step3Next]_step3Vars => RefineTypeOK' /\ ContsInv'
  BY Step3Type
<1>5. QED BY InitStep3, <1>1, <1>2, <1>3, <1>4, PTL DEF Step3Spec

-----------------------------------------------------------------------------
(* The calls that refineToVariables adds follow the order of the others.        *)
LEMMA RefreshItem ==
    ASSUME NEW d \in Decls
    PROVE  Refresh(d) \in Items /\ Refresh(d).op = "refresh"
<1>1. PICK x \in Items : x = [op |-> "refresh", cone |-> d]
  BY DEF Items
<1>2. QED BY <1>1 DEF Refresh

LEMMA RefineRank ==
    ASSUME TypeOK, NEW rank \in Ranks, RankInv(rank), NEW d \in Decls, refineToVariables(d)
    PROVE  RankInv(rank)'
<1> USE DEF infoVars, graphVars
<1>1. UNCHANGED <<design, coneRefs, first>>
  BY RefineLeaves
<1>2. \A c \in Decls : GoodItems(rank, c)' = GoodItems(rank, c)
  BY <1>1 DEF GoodItems
<1>3. \A c \in Decls : body'[c] \in Seq(GoodItems(rank, c))
  <2>1. CASE UNCHANGED coneVars
    BY <2>1 DEF coneVars, RankInv, BodiesDescend
  <2>2. CASE AddRefresh(d)
    <3>1. PICK T : T = [c \in Decls |-> GoodItems(rank, c)]
      OBVIOUS
    <3>2. body \in [Decls -> Seq(Items)] /\ \A c \in Decls : body[c] \in Seq(T[c])
      BY <3>1 DEF TypeOK, RankInv, BodiesDescend
    <3>3. Refresh(d) \in T[d]
      <4>1. Refresh(d) \in Items /\ Refresh(d).op = "refresh"
        BY RefreshItem
      <4>2. QED BY <3>1, <4>1 DEF GoodItems
    <3>4. ASSUME NEW c \in Hosts(d) PROVE [op |-> "call", cone |-> d] \in T[c]
      <4>1. c \in Decls /\ rank[d] < rank[c]
        BY DEF Hosts, TypeOK, ConeRefs, RankInv, ConeRefsDescend
      <4>2. PICK x \in Items : x = [op |-> "call", cone |-> d]
        BY DEF Items
      <4>3. x \in GoodItems(rank, c)
        BY <4>1, <4>2 DEF GoodItems
      <4>4. QED BY <3>1, <4>1, <4>2, <4>3
    <3>5. \A c \in Decls : body'[c] \in Seq(T[c])
      BY <2>2, <3>2, <3>3, <3>4, RefreshedBodies
    <3>6. QED BY <3>1, <3>5
  <2>3. QED BY <2>1, <2>2, RefineCones
<1>4. QED BY <1>1, <1>2, <1>3 DEF RankInv, Layered, FirstDescends, Below, BodiesDescend, ConeRefsDescend

LEMMA StepRankToEnd ==
    ASSUME TypeOK, ContsInv, NEW rank \in Ranks, RankInv(rank), [Step3Next]_step3Vars
    PROVE  RankInv(rank)'
BY StepRank, RefineRank DEF Step3Next, Step3Returned, step3Vars, Next

(* Cones do not reach themselves at the end of step 3 either: the cone of a     *)
(* shadowed register is called by the cones of the nets computed from it.       *)
THEOREM RefreshesNeverRecurse == Step3Spec => []ConeCallsAcyclic
<1>1. RefineTypeOK /\ ContsInv /\ CallsInv /\ [Step3Next]_step3Vars => CallsInv'
  <2> SUFFICES ASSUME TypeOK, ContsInv, [Step3Next]_step3Vars, NEW rank \in Ranks, RankInv(rank)
               PROVE  RankInv(rank)'
    BY DEF RefineTypeOK, CallsInv
  <2>1. QED BY StepRankToEnd
<1>2. Step3Init => CallsInv
  BY InitRank DEF Step3Init
<1>3. RefineTypeOK /\ CallsInv => ConeCallsAcyclic
  BY RankOrdersCalls DEF RefineTypeOK
<1>4. RefineTypeOK /\ ContsInv /\ [Step3Next]_step3Vars => RefineTypeOK' /\ ContsInv'
  BY Step3Type
<1>5. QED BY InitStep3, <1>1, <1>2, <1>3, <1>4, PTL DEF Step3Spec

(* No list names a computed net at the end of step 3, the registers that got a  *)
(* cone from refineToVariables included: nothing is computed into them.         *)
THEOREM ListsStayRooted == Step3Spec => []ListsNameRoots
<1> DEFINE Kept == \E D \in Designs : ConesInv(D)
<1>1. Step3Init => Kept
  BY ConesInit DEF Step3Init, Init
<1>2. RefineTypeOK /\ ContsInv /\ Kept /\ [Step3Next]_step3Vars => Kept'
  <2> SUFFICES ASSUME TypeOK, ContsInv, [Step3Next]_step3Vars, NEW D \in Designs, ConesInv(D)
               PROVE  ConesInv(D)'
    BY DEF RefineTypeOK
  <2>1. QED BY StepCones
<1>3. Kept => ListsNameRoots
  BY DEF ConesInv
<1>4. RefineTypeOK /\ ContsInv /\ [Step3Next]_step3Vars => RefineTypeOK' /\ ContsInv'
  BY Step3Type
<1>5. QED BY InitStep3, <1>1, <1>2, <1>3, <1>4, PTL DEF Step3Spec

-----------------------------------------------------------------------------
(* The cones that refineToVariables adds are called where their register is     *)
(* accessed, because no access has left the tree since the design was entered.  *)
AccessesInv ==
    /\ ServedInv
    /\ design.refs \subseteq Refs
    /\ \A r \in design.refs : ~IsWatch(r) => r \in refs

LEMMA RefineServes ==
    ASSUME TypeOK, AccessesInv, NEW d \in Decls, refineToVariables(d)
    PROVE  AccessesInv'
<1> USE DEF infoVars
<1>1. phase = "refine" /\ phase' = "refine" /\ UNCHANGED <<design, refs>>
  BY RefineLeaves
<1>2. \A c \in cones : Served(c)
  BY <1>1 DEF AccessesInv, ServedInv
<1>3. \A r \in design.refs : r.at \in Acts
  BY DEF AccessesInv, Refs
<1>4. CASE UNCHANGED <<cones, calls>>
  BY <1>1, <1>4 DEF AccessesInv, ServedInv, Served
<1>5. CASE cones' = cones \cup {d} /\ calls' = AddedCalls(d)
  <2>1. \A r \in design.refs : calls[r.at] \subseteq calls'[r.at]
    BY <1>3, <1>5 DEF AddedCalls
  <2>2. ASSUME NEW r \in design.refs, r.decl = d, UseOf(r.ctx) \in AccessUses
        PROVE  d \in calls'[r.at]
    <3>1. r \in refs
      BY <2>2 DEF AccessesInv, IsWatch, AccessUses
    <3>2. r.at \in Accesses(d)
      BY <2>2, <3>1 DEF Accesses
    <3>3. QED BY <1>3, <1>5, <3>2 DEF AddedCalls
  <2>3. \A c \in cones' : Served(c)'
    BY <1>1, <1>2, <1>5, <2>1, <2>2 DEF Served
  <2>4. QED BY <1>1, <2>3 DEF AccessesInv, ServedInv
<1>6. QED BY <1>4, <1>5, RefineCones DEF AddRefresh, coneVars

LEMMA StepAccesses ==
    ASSUME TypeOK, AccessesInv, [Step3Next]_step3Vars
    PROVE  AccessesInv'
<1>1. CASE [Next]_vars
  <2>1. design' = design
    BY <1>1 DEF Next, fixLogicCones, StepOf, Returned, vars, sortGraph, generateConeFunction, SkipCone,
           EndCones, updateInfos, EndLoop, generateLogicConesGraph, BeginMerge, MergeParent,
           SkipParent, EndMerge, addConesPCalls, fixSensitivities, SpinOnWaitCondition,
           clearContinuousAssigns
  <2>2. QED BY <1>1, <2>1, StepServed, AccessesStay DEF AccessesInv
<1>2. QED BY <1>1, RefineServes DEF Step3Next, Step3Returned, step3Vars, Next

(* At the end of step 3 every action that needs the value of a declaration with *)
(* a cone is preceded by a call of the cone, in the designs of AccessesAreServed.*)
THEOREM AccessesStayServed ==
    ASSUME \A D \in Designs : \A r \in D.refs : r.ctx \notin {"callInout", "callOutIndex"}
    PROVE  Step3Spec => []AccessesRefreshed
<1>1. Step3Init => AccessesInv
  BY WellFormedDesign DEF Step3Init, Init, fillInfoMap, AccessesInv, ServedInv
<1>2. RefineTypeOK /\ AccessesInv /\ [Step3Next]_step3Vars => AccessesInv'
  BY StepAccesses DEF RefineTypeOK
<1>3. RefineTypeOK /\ AccessesInv => AccessesRefreshed
  BY ServedIsRefreshed DEF RefineTypeOK, AccessesInv
<1>4. RefineTypeOK /\ ContsInv /\ [Step3Next]_step3Vars => RefineTypeOK' /\ ContsInv'
  BY Step3Type
<1>5. QED BY InitStep3, <1>1, <1>2, <1>3, <1>4, PTL DEF Step3Spec

-----------------------------------------------------------------------------
(* The nets of the graph. wasLhsContinuous tells the nets whose assignments     *)
(* leave the tree from those that only constants drive: when the graph is       *)
(* built, the former have all their assignments and all such sources, and the   *)
(* latter have no such source.                                                  *)
DriversOf(D, z) == {c \in D.conts : c.tgt = z}

NetsInv(D) ==
    /\ design = D
    /\ \A z \in Decls : wasLhsContinuous[z] => Driven(D, z)
    /\ phase = "graph" => \A z \in todo : Driven(D, z) => wasLhsContinuous[z]
    /\ \A z \in Decls : phase # "refine" /\ (phase = "clear" => z \in todo) =>
           lhsContinuous[z] = IF wasLhsContinuous[z] THEN DriversOf(D, z) ELSE {}
    /\ \A z \in Decls : (phase = "graph" => z \notin todo) =>
           \A y \in Sources(D)[z] : wasLhsContinuous[y] => wasLhsContinuous[z] /\ y \in first[z]
    /\ \A e \in Decls : \A y \in first[e] : e \in second[y]
    /\ \A c \in D.conts : c \in conts <=>
           ~(wasLhsContinuous[c.tgt] /\ ((phase = "clear" /\ c.tgt \notin todo) \/ phase = "refine"))

LEMMA NetsInit ==
    ASSUME NEW D \in Designs, Init, design = D
    PROVE  NetsInv(D)
<1>1. \A z \in Decls : wasLhsContinuous[z] <=> Driven(D, z)
  BY DEF Init, fillInfoMap, Driven
<1>2. \A z \in Decls : lhsContinuous[z] = DriversOf(D, z)
  BY DEF Init, fillInfoMap, DriversOf
<1>3. \A z \in Decls : ~Driven(D, z) => DriversOf(D, z) = {}
  BY DEF Driven, DriversOf
<1>4. phase = "graph" /\ todo = Decls /\ conts = D.conts /\ \A e \in Decls : first[e] = {}
  BY DEF Init
<1>5. QED BY <1>1, <1>2, <1>3, <1>4 DEF NetsInv

LEMMA NetsVisit ==
    ASSUME NEW D \in Designs, TypeOK, EntryRefsInv, NetsInv(D),
           NEW d \in Decls, generateLogicConesGraph(d)
    PROVE  NetsInv(D)'
<1>1. /\ phase = "graph" /\ phase' = "graph" /\ d \in todo /\ todo' = todo \ {d}
      /\ first' = [first EXCEPT ![d] = @ \cup GraphSources(d)]
      /\ second' = [s \in Decls |-> IF s \in GraphSources(d) THEN second[s] \cup {d} ELSE second[s]]
      /\ UNCHANGED <<design, conts>> /\ design = D
  BY DEF generateLogicConesGraph, NetsInv
<1>2. \A e \in Decls \ {d} : /\ lhsContinuous'[e] = lhsContinuous[e] /\ first'[e] = first[e]
                             /\ wasLhsContinuous'[e] = wasLhsContinuous[e]
  BY DEF generateLogicConesGraph, TypeOK
<1>3. first'[d] = first[d] \cup GraphSources(d) /\ GraphSources(d) \subseteq Decls
  BY <1>1 DEF TypeOK, GraphSources, ContAssigns
<1>4. ASSUME NEW y \in Sources(D)[d], wasLhsContinuous[y]
      PROVE  wasLhsContinuous[d] /\ y \in GraphSources(d) /\ y # d
  <2>1. y \in (UNION {c.srcs : c \in {a \in D.conts : a.tgt = d}}) \ {d}
    BY <1>4, SourcesType
  <2>2. y # d /\ \E c \in {a \in D.conts : a.tgt = d} : y \in c.srcs
    BY <2>1, Zenon
  <2>3. y \in Decls
    BY <2>2, SourcesType
  <2>4. wasLhsContinuous[d] /\ lhsContinuous[d] = DriversOf(D, d)
    BY <1>1, <2>2 DEF NetsInv, Driven
  <2>5. StaysSource(y)
    BY <1>1, <1>4, <2>3, LiveSources
  <2>6. QED BY <2>2, <2>3, <2>4, <2>5 DEF GraphSources, DriversOf
<1>5. \/ /\ hasOnlyConstantDrivers(d) /\ lhsContinuous'[d] = {} /\ ~wasLhsContinuous'[d]
      \/ lhsContinuous' = lhsContinuous /\ wasLhsContinuous' = wasLhsContinuous
  BY DEF generateLogicConesGraph, TypeOK
<1>6. \A z \in Decls : wasLhsContinuous'[z] => wasLhsContinuous[z]
  BY <1>2, <1>5
<1>7. \A y \in Sources(D)[d] : wasLhsContinuous'[y] => wasLhsContinuous'[d] /\ y \in first'[d]
  <2>1. TAKE y \in Sources(D)[d]
  <2>2. HAVE wasLhsContinuous'[y]
  <2>3. y \in Decls
    BY SourcesType
  <2>4. wasLhsContinuous[d] /\ y \in GraphSources(d) /\ y # d
    BY <1>4, <1>6, <2>2, <2>3
  <2>5. wasLhsContinuous' = wasLhsContinuous
    BY <1>5, <2>4 DEF hasOnlyConstantDrivers
  <2>6. QED BY <1>3, <2>4, <2>5
<1>8. \A z \in Decls : z \notin todo' => \A y \in Sources(D)[z] :
          wasLhsContinuous'[y] => wasLhsContinuous'[z] /\ y \in first'[z]
  <2> SUFFICES ASSUME NEW z \in Decls, z \notin todo', z # d, NEW y \in Sources(D)[z], wasLhsContinuous'[y]
               PROVE  wasLhsContinuous'[z] /\ y \in first'[z]
    BY <1>7
  <2>1. y \in Decls
    BY SourcesType
  <2>2. wasLhsContinuous[z] /\ y \in first[z]
    BY <1>1, <1>6, <2>1 DEF NetsInv
  <2>3. QED BY <1>2, <2>2
<1>9. \A z \in Decls : lhsContinuous'[z] = IF wasLhsContinuous'[z] THEN DriversOf(D, z) ELSE {}
  <2>1. \A z \in Decls : lhsContinuous[z] = IF wasLhsContinuous[z] THEN DriversOf(D, z) ELSE {}
    BY <1>1 DEF NetsInv
  <2>2. QED BY <1>2, <1>5, <2>1
<1>10. ASSUME NEW e \in Decls, NEW y \in first'[e] PROVE e \in second'[y]
  <2>1. \/ y \in first[e] /\ y \in Decls /\ e \in second[y]
        \/ e = d /\ y \in GraphSources(d) /\ y \in Decls
    BY <1>2, <1>3, <1>10 DEF NetsInv, TypeOK
  <2>2. QED BY <1>1, <2>1
<1>11. \A z \in todo' : Driven(D, z) => wasLhsContinuous'[z]
  BY <1>1, <1>2 DEF NetsInv, TypeOK
<1>12. \A c \in D.conts : c \in conts
  BY <1>1 DEF NetsInv
<1>13. QED BY <1>1, <1>6, <1>8, <1>9, <1>10, <1>11, <1>12 DEF NetsInv

LEMMA NetsMerge ==
    ASSUME NEW D \in Designs, TypeOK, NetsInv(D), NEW d \in Decls, MergeParent(d)
    PROVE  NetsInv(D)'
<1>1. PICK p \in Decls : p = sorted[k]
  BY DEF MergeParent, TypeOK
<1>2. /\ phase = "merge" /\ phase' = "merge" /\ UNCHANGED <<design, conts, infoVars>>
      /\ first' = [first EXCEPT ![d] = @ \cup first[p]]
      /\ second' = [g \in Decls |-> IF g \in first[p] THEN second[g] \cup {d} ELSE second[g]]
  BY <1>1 DEF MergeParent
<1>3. \A e \in Decls : first[e] \subseteq first'[e]
  BY <1>2 DEF TypeOK
<1>4. \A e \in Decls : \A y \in first'[e] : e \in second'[y]
  BY <1>2 DEF NetsInv, TypeOK
<1>5. QED BY <1>2, <1>3, <1>4 DEF NetsInv, infoVars

LEMMA NetsStep ==
    ASSUME NEW D \in Designs, TypeOK, EntryRefsInv, NetsInv(D), [Next]_vars
    PROVE  NetsInv(D)'
<1> USE DEF infoVars, graphVars, coneVars, loopVars
<1>1. ASSUME UNCHANGED <<design, lhsContinuous, wasLhsContinuous, first, second, conts>>,
             phase \notin {"clear", "refine"}, phase' \notin {"graph", "refine"},
             phase' = "clear" => todo' = Decls,
             phase = "graph" => todo = {}
      PROVE  NetsInv(D)'
  <2>1. \A c \in D.conts : c \in conts /\ c.tgt \in Decls
    BY <1>1, SourcesType DEF NetsInv
  <2>2. QED BY <1>1, <2>1 DEF NetsInv
<1>2. CASE EndLoop
  <2>1. CASE phase = "clear"
    <3>1. /\ phase' = "refine" /\ todo = {}
          /\ UNCHANGED <<design, lhsContinuous, wasLhsContinuous, first, second, conts>>
      BY <1>2, <2>1 DEF EndLoop, Following
    <3>2. QED BY <2>1, <3>1 DEF NetsInv
  <2>2. CASE phase # "clear"
    <3>1. phase' \in {"sort", "sens", "clear"} /\ (phase' = "clear" => todo' = Decls)
      BY <1>2, <2>2 DEF EndLoop, Following, LoopOver
    <3>2. /\ UNCHANGED <<design, lhsContinuous, wasLhsContinuous, first, second, conts>> /\ todo = {}
          /\ phase # "refine"
      BY <1>2 DEF EndLoop, Following
    <3>3. QED BY <1>1, <2>2, <3>1, <3>2
  <2>3. QED BY <2>1, <2>2
<1>3. CASE sortGraph \/ generateConeFunction \/ SkipCone \/ EndCones \/ updateInfos
  BY <1>1, <1>3 DEF sortGraph, generateConeFunction, SkipCone, EndCones, updateInfos
<1>4. ASSUME NEW d \in Decls,
             BeginMerge(d) \/ SkipParent(d) \/ EndMerge(d) \/ addConesPCalls(d) \/ fixSensitivities(d)
      PROVE  NetsInv(D)'
  BY <1>1, <1>4 DEF BeginMerge, SkipParent, EndMerge, addConesPCalls, fixSensitivities
<1>5. ASSUME NEW d \in Decls, clearContinuousAssigns(d)
      PROVE  NetsInv(D)'
  <2>1. /\ phase = "clear" /\ phase' = "clear" /\ d \in todo /\ todo' = todo \ {d}
        /\ conts' = conts \ lhsContinuous[d]
        /\ UNCHANGED <<design, first, second, wasLhsContinuous>>
    BY <1>5 DEF clearContinuousAssigns
  <2>2. \A e \in Decls \ {d} : lhsContinuous'[e] = lhsContinuous[e]
    BY <1>5 DEF clearContinuousAssigns, TypeOK
  <2>3. lhsContinuous[d] = IF wasLhsContinuous[d] THEN DriversOf(D, d) ELSE {}
    BY <2>1 DEF NetsInv
  <2>4. \A c \in D.conts : c \in conts' <=> ~(wasLhsContinuous[c.tgt] /\ c.tgt \notin todo')
    BY <2>1, <2>3, SourcesType DEF NetsInv, DriversOf
  <2>5. QED BY <2>1, <2>2, <2>4 DEF NetsInv
<1>6. ASSUME NEW d \in Decls, generateLogicConesGraph(d) \/ MergeParent(d)
      PROVE  NetsInv(D)'
  BY <1>6, NetsVisit, NetsMerge
<1>7. CASE UNCHANGED vars
  BY <1>7 DEF vars, NetsInv
<1>8. QED
  BY <1>2, <1>3, <1>4, <1>5, <1>6, <1>7
     DEF Next, fixLogicCones, StepOf, Returned, SpinOnWaitCondition

-----------------------------------------------------------------------------
(* Orders and loops. The sorted graph has every source behind its targets, and  *)
(* merging only adds sources of a source.                                       *)
OrderInv ==
    phase \in {"cones", "merge"} =>
        /\ TargetsFirst(sorted)
        /\ \A e \in Decls : \A y \in first[e] : \E n \in DOMAIN sorted : sorted[n] = y

LoopInv ==
    /\ k # 0
    /\ phase # "merge" => cur = {}
    /\ \A d, e \in cur : d = e
    /\ phase \in {"merge", "calls"} => todo \subseteq cones /\ cur \subseteq cones /\ todo \cap cur = {}

LEMMA StepLoops ==
    ASSUME TypeOK, LoopInv, [Step3Next]_step3Vars
    PROVE  LoopInv'
<1> USE DEF infoVars, graphVars, coneVars, loopVars
<1>1. CASE EndLoop
  <2>1. /\ phase \in {"graph", "calls", "sens", "clear"} /\ phase' = Following[phase]
        /\ UNCHANGED <<cur, k>>
    BY <1>1 DEF EndLoop, Following
  <2>2. phase' \in {"sort", "sens", "clear", "refine"}
    BY <2>1 DEF Following
  <2>3. QED BY <2>1, <2>2 DEF LoopInv
<1>2. CASE sortGraph \/ EndCones \/ updateInfos
  BY <1>2 DEF sortGraph, EndCones, updateInfos, LoopInv
<1>3. CASE generateConeFunction \/ SkipCone
  BY <1>3 DEF generateConeFunction, SkipCone, LoopInv, TypeOK
<1>4. ASSUME NEW d \in Decls, BeginMerge(d) \/ MergeParent(d) \/ SkipParent(d) \/ EndMerge(d)
      PROVE  LoopInv'
  BY <1>4 DEF BeginMerge, MergeParent, SkipParent, EndMerge, LoopInv, TypeOK
<1>5. ASSUME NEW d \in Decls,
             \/ generateLogicConesGraph(d) \/ addConesPCalls(d)
             \/ fixSensitivities(d) \/ clearContinuousAssigns(d)
      PROVE  LoopInv'
  BY <1>5 DEF generateLogicConesGraph, addConesPCalls, fixSensitivities, clearContinuousAssigns, LoopInv
<1>6. ASSUME NEW d \in Decls, refineToVariables(d) PROVE LoopInv'
  BY <1>6, RefineLeaves DEF LoopInv
<1>7. CASE UNCHANGED vars
  BY <1>7 DEF vars, LoopInv
<1>8. QED
  BY <1>1, <1>2, <1>3, <1>4, <1>5, <1>6, <1>7
     DEF Step3Next, step3Vars, fixLogicCones, StepOf, SpinOnWaitCondition, Step3Returned

LEMMA OrderMerge ==
    ASSUME TypeOK, OrderInv, NEW d \in Decls, MergeParent(d)
    PROVE  OrderInv'
<1>1. PICK p \in Decls : p = sorted[k]
  BY DEF MergeParent, TypeOK
<1>2. /\ phase = "merge" /\ k \in DOMAIN sorted /\ p \in first[d] /\ sorted' = sorted
      /\ first' = [first EXCEPT ![d] = @ \cup first[p]]
  BY <1>1 DEF MergeParent, IsMergeable
<1>3. /\ TargetsFirst(sorted)
      /\ \A e \in Decls : \A y \in first[e] : \E n \in DOMAIN sorted : sorted[n] = y
      /\ \A i \in DOMAIN sorted : i \in Nat /\ sorted[i] \in Decls
  BY <1>2 DEF OrderInv, TypeOK
<1>4. \A e \in Decls : \A y \in first'[e] : y \in first[e] \/ (e = d /\ y \in first[p])
  BY <1>2 DEF TypeOK
<1>5. ASSUME NEW i \in DOMAIN sorted, NEW j \in DOMAIN sorted, sorted[j] \in first'[sorted[i]]
      PROVE  i < j
  <2>1. CASE sorted[j] \in first[sorted[i]]
    BY <1>3, <2>1 DEF TargetsFirst
  <2>2. CASE sorted[i] = d /\ sorted[j] \in first[p]
    <3>1. i < k
      BY <1>1, <1>2, <1>3, <2>2 DEF TargetsFirst
    <3>2. k < j
      BY <1>1, <1>2, <1>3, <2>2 DEF TargetsFirst
    <3>3. QED BY <1>2, <1>3, <3>1, <3>2
  <2>3. QED BY <1>3, <1>4, <1>5, <2>1, <2>2
<1>6. \A e \in Decls : \A y \in first'[e] : \E n \in DOMAIN sorted : sorted[n] = y
  BY <1>1, <1>3, <1>4
<1>7. QED BY <1>2, <1>5, <1>6 DEF OrderInv, TargetsFirst

LEMMA OrderStep ==
    ASSUME NEW D \in Designs, TypeOK, NetsInv(D), OrderInv, [Step3Next]_step3Vars
    PROVE  OrderInv'
<1> USE DEF infoVars, graphVars, coneVars, loopVars
<1>1. CASE sortGraph
  <2>1. PICK s \in SetToSeqs(GraphNodes) : sorted' = s /\ TargetsFirst(s)
    BY <1>1 DEF sortGraph
  <2>2. IsFiniteSet(GraphNodes)
    BY DeclsAssumption, FS_Subset DEF GraphNodes
  <2>3. \A y \in GraphNodes : \E n \in DOMAIN s : s[n] = y
    BY <2>1, <2>2, EnumerationCovers
  <2>4. \A e \in Decls : \A y \in first[e] : y \in GraphNodes
    BY DEF NetsInv, GraphNodes, TypeOK
  <2>5. first' = first
    BY <1>1 DEF sortGraph
  <2>6. TargetsFirst(s)'
    BY <2>1, <2>5 DEF TargetsFirst
  <2>7. QED BY <2>1, <2>3, <2>4, <2>5, <2>6 DEF OrderInv, TargetsFirst
<1>2. CASE EndLoop
  <2>1. phase' \in {"sort", "sens", "clear", "refine"}
    BY <1>2 DEF EndLoop, Following
  <2>2. QED BY <2>1 DEF OrderInv
<1>3. CASE generateConeFunction \/ SkipCone \/ EndCones \/ updateInfos
  BY <1>3 DEF generateConeFunction, SkipCone, EndCones, updateInfos, OrderInv, TargetsFirst
<1>4. ASSUME NEW d \in Decls,
             \/ generateLogicConesGraph(d) \/ BeginMerge(d) \/ SkipParent(d) \/ EndMerge(d)
             \/ addConesPCalls(d) \/ fixSensitivities(d) \/ clearContinuousAssigns(d)
      PROVE  OrderInv'
  BY <1>4 DEF generateLogicConesGraph, BeginMerge, SkipParent, EndMerge, addConesPCalls,
              fixSensitivities, clearContinuousAssigns, OrderInv, TargetsFirst
<1>5. ASSUME NEW d \in Decls, refineToVariables(d) PROVE OrderInv'
  BY <1>5, RefineLeaves DEF OrderInv
<1>6. CASE UNCHANGED vars
  BY <1>6 DEF vars, OrderInv, TargetsFirst
<1>7. QED
  BY <1>1, <1>2, <1>3, <1>4, <1>5, <1>6, OrderMerge
     DEF Step3Next, step3Vars, fixLogicCones, StepOf, SpinOnWaitCondition, Step3Returned

-----------------------------------------------------------------------------
(* The bodies of the cones. *)
NoMixedTargets(D) ==
    \A c \in D.conts : EntryUses(D, c.tgt) \cap {"lhsBlocking", "lhsNonBlocking"} = {}

(* What the cone c may hold. *)
ConeItems(D, c) ==
    {it \in Items :
        /\ c \in cones
        /\ it.op # "assignTmp"
        /\ it.op = "assign" =>
              /\ it.asg \in D.conts /\ wasLhsContinuous[it.asg.tgt]
              /\ it.asg.tgt \in Closure(Sources(D), {c})
        /\ it.op = "call" => it.cone \in cones /\ it.cone \in Closure(Sources(D), {c})
        /\ it.op = "refresh" => it.cone = c /\ ~Driven(D, c)}

Assigns(s, z) == \E j \in DOMAIN s : s[j].op = "assign" /\ s[j].asg.tgt = z

(* All the assignments to c and to every net that s assigns are in s. *)
HasDrivers(D, c, s) ==
    \A a \in D.conts : a.tgt = c \/ Assigns(s, a.tgt) =>
        \E j \in DOMAIN s : s[j].op = "assign" /\ s[j].asg = a

BodiesInv(D) ==
    /\ phase \in {"graph", "sort"} => cones = {}
    /\ \A c \in Decls : body[c] \in Seq(ConeItems(D, c))
    /\ \A c \in cones : HasDrivers(D, c, body[c]) /\ (wasLhsContinuous[c] \/ "lhsNonBlocking" \in EntryUses(D, c))

(* The entry i of s needs the net y, which has no cone. *)
Wants(s, i, y) ==
    /\ s[i].op = "assign" /\ y \in s[i].asg.srcs /\ y # s[i].asg.tgt
    /\ wasLhsContinuous[y] /\ y \notin cones

SetsBefore(s, i, y) == \E j \in DOMAIN s : j < i /\ s[j].op = "assign" /\ s[j].asg.tgt = y

Settled(s) == \A i \in DOMAIN s : \A y \in Decls : Wants(s, i, y) => SetsBefore(s, i, y)

(* While the parents of c are merged, what is wanted and not yet set is still   *)
(* to come in the sorted graph, and is a parent of c.                           *)
Ordered(s, m) ==
    \A i \in DOMAIN s : \A y \in Decls : Wants(s, i, y) =>
        SetsBefore(s, i, y) \/ \A n \in DOMAIN sorted : sorted[n] = y => n >= m

ParentsKept(c) == \A i \in DOMAIN body[c] :
    body[c][i].op = "assign" => first[body[c][i].asg.tgt] \subseteq first[c]

OwnOnly(c) == \A i \in DOMAIN body[c] : body[c][i].op = "assign" => body[c][i].asg.tgt = c

MergeInv ==
    /\ phase = "cones" => \A c \in Decls : OwnOnly(c)
    /\ phase = "merge" =>
           /\ \A c \in todo : OwnOnly(c)
           /\ \A c \in cur : ParentsKept(c) /\ Ordered(body[c], k)
           /\ \A c \in Decls : c \notin todo \cup cur => Settled(body[c])
    /\ phase \in {"calls", "sens", "clear", "refine"} => \A c \in Decls : Settled(body[c])

LEMMA SeqFacts ==
    ASSUME NEW S, NEW s \in Seq(S)
    PROVE  /\ Len(s) \in Nat /\ DOMAIN s = 1 .. Len(s)
           /\ \A i \in DOMAIN s : s[i] \in S /\ i \in Nat /\ i >= 1 /\ i <= Len(s)
OBVIOUS

LEMMA SeqGrows ==
    ASSUME NEW S, NEW T, S \subseteq T, NEW s \in Seq(S)
    PROVE  s \in Seq(T)
OBVIOUS

LEMMA ConcatFacts ==
    ASSUME NEW S, NEW u \in Seq(S), NEW v \in Seq(S)
    PROVE  /\ \A i \in DOMAIN u : i \in DOMAIN (u \o v) /\ (u \o v)[i] = u[i]
           /\ \A j \in DOMAIN v : Len(u) + j \in DOMAIN (u \o v) /\ (u \o v)[Len(u) + j] = v[j]
           /\ \A n \in DOMAIN (u \o v) : n \in DOMAIN u \/ \E j \in DOMAIN v : n = Len(u) + j
<1>1. /\ Len(u) \in Nat /\ DOMAIN u = 1 .. Len(u) /\ Len(v) \in Nat /\ DOMAIN v = 1 .. Len(v)
      /\ u \o v \in Seq(S) /\ Len(u \o v) = Len(u) + Len(v)
  OBVIOUS
<1>2. PICK w \in Seq(S) : w = u \o v /\ Len(w) = Len(u) + Len(v)
  BY <1>1
<1>3. DOMAIN w = 1 .. Len(u) + Len(v)
  BY <1>2
<1>4. \A i \in DOMAIN u : i \in DOMAIN w /\ w[i] = u[i]
  BY <1>1, <1>2, <1>3
<1>5. ASSUME NEW j \in DOMAIN v PROVE Len(u) + j \in DOMAIN w /\ w[Len(u) + j] = v[j]
  <2>1. Len(u) + j \in DOMAIN w
    BY <1>1, <1>3
  <2>2. w[Len(u) + j] = v[j]
    BY <1>1, <1>2
  <2>3. QED BY <2>1, <2>2
<1>6. ASSUME NEW n \in DOMAIN w, n \notin DOMAIN u PROVE \E j \in DOMAIN v : n = Len(u) + j
  <2>1. n - Len(u) \in 1 .. Len(v) /\ n = Len(u) + (n - Len(u))
    BY <1>1, <1>3, <1>6
  <2>2. QED BY <1>1, <2>1
<1>7. QED BY <1>2, <1>4, <1>5, <1>6, Zenon

(* The copies of the assignments to z. *)
LEMMA CopiedDrivers ==
    ASSUME TypeOK, ContsInv, NEW z \in Decls, NEW s \in SetToSeqs(lhsContinuous[z])
    PROVE  /\ Copies("assign", s) \in Seq(Items)
           /\ \A i \in DOMAIN Copies("assign", s) :
                  Copies("assign", s)[i].op = "assign" /\ Copies("assign", s)[i].asg \in lhsContinuous[z]
           /\ \A a \in lhsContinuous[z] : \E j \in DOMAIN Copies("assign", s) :
                  Copies("assign", s)[j].op = "assign" /\ Copies("assign", s)[j].asg = a
<1>1. Copies("assign", s) \in Seq(Items)
  BY CopiesAreBodies
<1>2. PICK t : t = Copies("assign", s)
  OBVIOUS
<1>3. DOMAIN t = DOMAIN s /\ \A i \in DOMAIN s : t[i] = [op |-> "assign", asg |-> s[i]]
  BY <1>2 DEF Copies
<1>4. s \in Seq(lhsContinuous[z]) /\ \A a \in lhsContinuous[z] : \E j \in DOMAIN s : s[j] = a
  BY FiniteDrivers, EnumerationIsSeq, EnumerationCovers
<1>5. \A i \in DOMAIN s : s[i] \in lhsContinuous[z]
  BY <1>4, SeqFacts
<1>6. \A i \in DOMAIN t : t[i].op = "assign" /\ t[i].asg \in lhsContinuous[z]
  BY <1>3, <1>5
<1>7. \A a \in lhsContinuous[z] : \E j \in DOMAIN t : t[j].op = "assign" /\ t[j].asg = a
  BY <1>3, <1>4
<1>8. QED BY <1>1, <1>2, <1>6, <1>7

(* What a cone may hold stays when there are more cones. *)
LEMMA ConeItemsGrow ==
    ASSUME NEW D, NEW c, cones \subseteq cones', wasLhsContinuous' = wasLhsContinuous
    PROVE  ConeItems(D, c) \subseteq ConeItems(D, c)'
BY DEF ConeItems

LEMMA SelfReached ==
    ASSUME NEW D \in Designs, NEW c \in Decls
    PROVE  c \in Closure(Sources(D), {c})
<1>1. {c} \in SUBSET Decls
  OBVIOUS
<1>2. QED BY <1>1, SourcesType, ClosureFacts

(* The first loop of generateConeFunctions. *)
LEMMA ConeCreated ==
    ASSUME NEW D \in Designs, NoMixedTargets(D), TypeOK, ContsInv, EntryRefsInv,
           NetsInv(D), BodiesInv(D), MergeInv, generateConeFunction
    PROVE  BodiesInv(D)' /\ MergeInv'
<1>1. PICK d \in Decls : d = sorted[k]
  BY DEF generateConeFunction, TypeOK
<1>2. /\ phase = "cones" /\ phase' = "cones" /\ cones' = cones \cup {d}
      /\ UNCHANGED <<design, sorted, wasLhsContinuous>> /\ lhsContinuous[d] # {}
  BY <1>1 DEF generateConeFunction, NeedsCone, infoVars
<1>3. wasLhsContinuous[d] /\ lhsContinuous[d] = DriversOf(D, d) /\ design = D
  BY <1>2 DEF NetsInv
<1>4. ~IsMixedTarget(d)
  <2>1. PICK c \in D.conts : c.tgt = d
    BY <1>2, <1>3 DEF DriversOf
  <2>2. refs = D.refs /\ coneRefs = {}
    BY <1>2, <1>3 DEF EntryRefsInv
  <2>3. Uses(d) \cap {"lhsBlocking", "lhsNonBlocking"} \subseteq EntryUses(D, d)
    BY <2>2 DEF Uses, EntryUses
  <2>4. QED BY <2>1, <2>3 DEF NoMixedTargets, IsMixedTarget
<1>5. PICK s \in SetToSeqs(lhsContinuous[d]) : body' = [body EXCEPT ![d] = Copies("assign", s)]
  BY <1>1, <1>4 DEF generateConeFunction
<1>6. PICK t : t = Copies("assign", s)
  OBVIOUS
<1>7. /\ t \in Seq(Items)
      /\ \A i \in DOMAIN t : t[i].op = "assign" /\ t[i].asg \in D.conts /\ t[i].asg.tgt = d
      /\ \A a \in D.conts : a.tgt = d => \E j \in DOMAIN t : t[j].op = "assign" /\ t[j].asg = a
  <2>1. /\ t \in Seq(Items)
        /\ \A i \in DOMAIN t : t[i].op = "assign" /\ t[i].asg \in lhsContinuous[d]
        /\ \A a \in lhsContinuous[d] : \E j \in DOMAIN t : t[j].op = "assign" /\ t[j].asg = a
    BY <1>6, CopiedDrivers
  <2>2. QED BY <1>3, <2>1 DEF DriversOf
<1>8. body'[d] = t /\ \A c \in Decls \ {d} : body'[c] = body[c]
  BY <1>5, <1>6 DEF TypeOK
<1>9. t \in Seq(ConeItems(D, d)')
  <2>1. \A i \in DOMAIN t : t[i] \in ConeItems(D, d)'
    BY <1>2, <1>3, <1>7, SeqFacts, SelfReached DEF ConeItems
  <2>2. QED BY <1>7, <2>1
<1>10. ASSUME NEW c \in Decls PROVE body'[c] \in Seq(ConeItems(D, c)')
  <2>1. CASE c = d
    BY <1>8, <1>9, <2>1
  <2>2. CASE c # d
    <3>1. body[c] \in Seq(ConeItems(D, c)) /\ ConeItems(D, c) \subseteq ConeItems(D, c)'
      BY <1>2, ConeItemsGrow DEF BodiesInv
    <3>2. QED BY <1>8, <2>2, <3>1, SeqGrows
  <2>3. QED BY <2>1, <2>2
<1>11. HasDrivers(D, d, t)
  BY <1>7 DEF HasDrivers, Assigns
<1>12. ASSUME NEW c \in cones'
       PROVE  HasDrivers(D, c, body'[c]) /\ (wasLhsContinuous'[c] \/ "lhsNonBlocking" \in EntryUses(D, c))
  <2>1. CASE c = d
    BY <1>2, <1>3, <1>8, <1>11, <2>1
  <2>2. CASE c # d
    <3>1. c \in cones /\ body'[c] = body[c]
      BY <1>2, <1>8, <2>2 DEF TypeOK
    <3>2. QED BY <1>2, <3>1 DEF BodiesInv
  <2>3. QED BY <2>1, <2>2
<1>13. BodiesInv(D)'
  BY <1>2, <1>10, <1>12 DEF BodiesInv, HasDrivers, Assigns
<1>14. MergeInv'
  <2>1. \A c \in Decls : OwnOnly(c)'
    BY <1>2, <1>7, <1>8 DEF MergeInv, OwnOnly
  <2>2. QED BY <1>2, <2>1 DEF MergeInv
<1>15. QED BY <1>13, <1>14
(* Merging a parent p of d: its assignments come before everything that wants   *)
(* p, and all that they want comes later in the sorted graph.                   *)
LEMMA ParentMerged ==
    ASSUME NEW D \in Designs, TypeOK, ContsInv, NetsInv(D), ReachInv(D), OrderInv, LoopInv,
           BodiesInv(D), MergeInv, NEW d \in Decls, MergeParent(d)
    PROVE  BodiesInv(D)' /\ MergeInv'
<1>1. PICK p \in Decls : p = sorted[k]
  BY DEF MergeParent, TypeOK
<1>2. /\ phase = "merge" /\ phase' = "merge" /\ d \in cur /\ k \in DOMAIN sorted /\ k' = k + 1
      /\ p \in first[d] /\ p \notin cones
      /\ UNCHANGED <<design, wasLhsContinuous, sorted, cones, todo, cur>>
  BY <1>1 DEF MergeParent, IsMergeable, infoVars
<1>3. /\ \A c \in cur : c = d
      /\ d \in cones /\ d \notin todo /\ p # d /\ design = D
  BY <1>2 DEF LoopInv, NetsInv
<1>4. PICK s \in SetToSeqs(lhsContinuous[p]) : body' = [body EXCEPT ![d] = Copies("assign", s) \o @]
  BY <1>1 DEF MergeParent
<1>5. PICK t : t = Copies("assign", s)
  OBVIOUS
<1>6. PICK v : v = body[d]
  OBVIOUS
<1>7. PICK w : w = t \o v
  OBVIOUS
<1>8. body'[d] = w /\ \A c \in Decls \ {d} : body'[c] = body[c]
  BY <1>4, <1>5, <1>6, <1>7 DEF TypeOK
<1>9. /\ t \in Seq(Items)
      /\ \A i \in DOMAIN t : /\ t[i].op = "assign" /\ t[i].asg \in D.conts
                             /\ t[i].asg.tgt = p /\ wasLhsContinuous[p]
      /\ wasLhsContinuous[p] =>
             \A a \in D.conts : a.tgt = p => \E j \in DOMAIN t : t[j].op = "assign" /\ t[j].asg = a
  <2>1. /\ t \in Seq(Items)
        /\ \A i \in DOMAIN t : t[i].op = "assign" /\ t[i].asg \in lhsContinuous[p]
        /\ \A a \in lhsContinuous[p] : \E j \in DOMAIN t : t[j].op = "assign" /\ t[j].asg = a
    BY <1>5, CopiedDrivers
  <2>2. lhsContinuous[p] = IF wasLhsContinuous[p] THEN DriversOf(D, p) ELSE {}
    BY <1>2 DEF NetsInv
  <2>3. QED BY <2>1, <2>2 DEF DriversOf
<1>10. p \in Closure(Sources(D), {d})
  BY <1>2 DEF ReachInv
<1>11. t \in Seq(ConeItems(D, d)) /\ v \in Seq(ConeItems(D, d))
  <2>1. \A i \in DOMAIN t : t[i] \in ConeItems(D, d)
    BY <1>3, <1>9, <1>10, SeqFacts DEF ConeItems
  <2>2. QED BY <1>6, <1>9, <2>1 DEF BodiesInv
<1>12. w \in Seq(ConeItems(D, d)')
  <2>1. w \in Seq(ConeItems(D, d))
    BY <1>7, <1>11, ConcatType
  <2>2. ConeItems(D, d)' = ConeItems(D, d)
    BY <1>2 DEF ConeItems
  <2>3. QED BY <2>1, <2>2
<1>13. /\ Len(t) \in Nat
       /\ \A i \in DOMAIN t : i \in DOMAIN w /\ w[i] = t[i] /\ i \in Nat /\ i <= Len(t)
       /\ \A j \in DOMAIN v : Len(t) + j \in DOMAIN w /\ w[Len(t) + j] = v[j] /\ j \in Nat /\ j >= 1
       /\ \A n \in DOMAIN w : n \in DOMAIN t \/ \E j \in DOMAIN v : n = Len(t) + j
  BY <1>7, <1>11, ConcatFacts, SeqFacts
<1>14. HasDrivers(D, d, w)
  <2>1. HasDrivers(D, d, v)
    BY <1>3, <1>6 DEF BodiesInv
  <2>2. ASSUME NEW a \in D.conts, a.tgt = d \/ Assigns(v, a.tgt)
        PROVE  \E j \in DOMAIN w : w[j].op = "assign" /\ w[j].asg = a
    BY <1>13, <2>1, <2>2 DEF HasDrivers
  <2>3. ASSUME NEW a \in D.conts, Assigns(w, a.tgt), ~Assigns(v, a.tgt)
        PROVE  \E j \in DOMAIN w : w[j].op = "assign" /\ w[j].asg = a
    <3>1. PICK n \in DOMAIN w : w[n].op = "assign" /\ w[n].asg.tgt = a.tgt
      BY <2>3 DEF Assigns
    <3>2. n \in DOMAIN t
      BY <1>13, <2>3, <3>1 DEF Assigns
    <3>3. a.tgt = p /\ wasLhsContinuous[p]
      BY <1>9, <1>13, <3>1, <3>2
    <3>4. QED BY <1>9, <1>13, <3>3
  <2>4. QED BY <2>2, <2>3 DEF HasDrivers
<1>15. first'[d] = first[d] \cup first[p] /\ \A e \in Decls \ {d} : first'[e] = first[e]
  BY <1>1 DEF MergeParent, TypeOK
<1>16. ParentsKept(d)'
  <2> SUFFICES ASSUME NEW n \in DOMAIN w, w[n].op = "assign"
               PROVE  first'[w[n].asg.tgt] \subseteq first'[d]
    BY <1>8 DEF ParentsKept
  <2>1. CASE n \in DOMAIN t
    BY <1>3, <1>9, <1>13, <1>15, <2>1
  <2>2. CASE \E j \in DOMAIN v : n = Len(t) + j
    <3>1. PICK j \in DOMAIN v : n = Len(t) + j
      BY <2>2
    <3>2. w[n] = v[j] /\ v[j] \in Items
      BY <1>11, <1>13, <3>1, SeqFacts DEF ConeItems
    <3>3. first[v[j].asg.tgt] \subseteq first[d]
      BY <1>2, <1>6, <3>2 DEF MergeInv, ParentsKept
    <3>4. v[j].asg.tgt \in Decls
      BY <3>2 DEF Items, ContAssigns
    <3>5. QED BY <1>15, <3>2, <3>3, <3>4
  <2>3. QED BY <1>13, <2>1, <2>2
<1>17. \A n \in DOMAIN sorted : n \in Nat /\ sorted[n] \in Decls
  BY DEF TypeOK
<1>18. ASSUME NEW n \in DOMAIN w, NEW y \in Decls, Wants(w, n, y)
       PROVE  SetsBefore(w, n, y) \/ \A m \in DOMAIN sorted : sorted[m] = y => m >= k + 1
  <2>1. CASE n \in DOMAIN t
    <3>1. /\ w[n] = t[n] /\ t[n].asg \in D.conts /\ t[n].asg.tgt = p
          /\ y \in t[n].asg.srcs /\ y # p /\ wasLhsContinuous[y]
      BY <1>9, <1>13, <1>18, <2>1 DEF Wants
    <3>2. y \in first[p]
      <4>1. y \in (UNION {c.srcs : c \in {a \in D.conts : a.tgt = p}}) \ {p}
        BY <3>1, Zenon
      <4>2. y \in Sources(D)[p]
        BY <4>1, SourcesType
      <4>3. QED BY <1>2, <3>1, <4>2 DEF NetsInv
    <3>3. \A m \in DOMAIN sorted : sorted[m] = y => k < m
      BY <1>1, <1>2, <3>2 DEF OrderInv, TargetsFirst
    <3>4. QED BY <1>2, <1>17, <3>3
  <2>2. CASE \E j \in DOMAIN v : n = Len(t) + j
    <3>1. PICK j \in DOMAIN v : n = Len(t) + j
      BY <2>2
    <3>2. w[n] = v[j] /\ Wants(v, j, y)
      BY <1>13, <1>18, <3>1 DEF Wants
    <3>3. Ordered(v, k)
      BY <1>2, <1>6 DEF MergeInv
    <3>4. CASE SetsBefore(v, j, y)
      <4>1. PICK i \in DOMAIN v : i < j /\ v[i].op = "assign" /\ v[i].asg.tgt = y
        BY <3>4 DEF SetsBefore
      <4>2. Len(t) + i \in DOMAIN w /\ w[Len(t) + i] = v[i] /\ Len(t) + i < n
        BY <1>13, <3>1, <4>1
      <4>3. QED BY <4>1, <4>2 DEF SetsBefore
    <3>5. CASE \A m \in DOMAIN sorted : sorted[m] = y => m >= k
      <4>1. CASE y = p
        <5>1. wasLhsContinuous[p]
          BY <3>2, <4>1 DEF Wants
        <5>2. PICK a \in D.conts : a.tgt = p
          BY <5>1 DEF NetsInv, Driven
        <5>3. PICK i \in DOMAIN t : t[i].op = "assign" /\ t[i].asg = a
          BY <1>9, <5>1, <5>2
        <5>4. i \in DOMAIN w /\ w[i] = t[i] /\ i < n
          BY <1>13, <3>1, <5>3
        <5>5. QED BY <4>1, <5>2, <5>3, <5>4 DEF SetsBefore
      <4>2. CASE y # p
        BY <1>1, <1>2, <1>17, <3>5, <4>2
      <4>3. QED BY <4>1, <4>2
    <3>6. QED BY <3>2, <3>3, <3>4, <3>5 DEF Ordered
  <2>3. QED BY <1>13, <2>1, <2>2
<1>19. BodiesInv(D)'
  <2>1. \A c \in Decls : ConeItems(D, c)' = ConeItems(D, c)
    BY <1>2 DEF ConeItems
  <2>2. \A c \in Decls : body'[c] \in Seq(ConeItems(D, c)')
    BY <1>8, <1>12, <2>1 DEF BodiesInv
  <2>3. \A c \in cones' : HasDrivers(D, c, body'[c]) /\ (wasLhsContinuous'[c] \/ "lhsNonBlocking" \in EntryUses(D, c))
    BY <1>2, <1>8, <1>14 DEF BodiesInv, TypeOK
  <2>4. QED BY <1>2, <2>2, <2>3 DEF BodiesInv, HasDrivers, Assigns
<1>20. MergeInv'
  <2>1. Ordered(body[d], k)'
    BY <1>2, <1>8, <1>18 DEF Ordered, Wants, SetsBefore
  <2>2. \A c \in todo : OwnOnly(c)'
    BY <1>2, <1>3, <1>8 DEF MergeInv, OwnOnly, TypeOK
  <2>3. \A c \in Decls : c \notin todo \cup cur => Settled(body[c])'
    BY <1>2, <1>8 DEF MergeInv, Settled, Wants, SetsBefore
  <2>4. QED BY <1>2, <1>3, <1>16, <2>1, <2>2, <2>3 DEF MergeInv
<1>21. QED BY <1>19, <1>20-----------------------------------------------------------------------------
(* Every function but generateConeFunctions only adds to the bodies.            *)
LEMMA BodiesStay ==
    ASSUME NEW D \in Designs, BodiesInv(D), UNCHANGED <<cones, body>>,
           phase' \in {"graph", "sort"} => phase \in {"graph", "sort"},
           phase = "graph" \/ wasLhsContinuous' = wasLhsContinuous
    PROVE  BodiesInv(D)'
<1>1. CASE phase = "graph"
  <2>1. cones = {} /\ cones' = {}
    BY <1>1 DEF BodiesInv
  <2>2. \A c \in Decls : ConeItems(D, c) = {} /\ ConeItems(D, c)' = {}
    BY <2>1 DEF ConeItems
  <2>3. \A c \in Decls : body'[c] \in Seq(ConeItems(D, c)')
    BY <2>2 DEF BodiesInv
  <2>4. QED BY <2>1, <2>3 DEF BodiesInv
<1>2. CASE wasLhsContinuous' = wasLhsContinuous
  <2>1. \A c \in Decls : ConeItems(D, c)' = ConeItems(D, c)
    BY <1>2 DEF ConeItems
  <2>2. \A c \in Decls : body'[c] \in Seq(ConeItems(D, c)')
    BY <2>1 DEF BodiesInv
  <2>3. QED BY <1>2, <2>2 DEF BodiesInv, HasDrivers, Assigns
<1>3. QED BY <1>1, <1>2

(* A declaration without a cone has an empty body. *)
LEMMA EmptyBody ==
    ASSUME NEW D, BodiesInv(D), NEW c \in Decls, c \notin cones
    PROVE  DOMAIN body[c] = {}
<1>1. ConeItems(D, c) = {} /\ body[c] \in Seq(ConeItems(D, c))
  BY DEF ConeItems, BodiesInv
<1>2. \A i \in DOMAIN body[c] : body[c][i] \in {}
  BY <1>1
<1>3. QED BY <1>2

(* What a body wants is a source in the graph of the net it is wanted for. *)
LEMMA WantedSource ==
    ASSUME NEW D \in Designs, NetsInv(D), BodiesInv(D), phase # "graph", NEW c \in Decls,
           NEW i \in DOMAIN body[c], NEW y \in Decls, Wants(body[c], i, y)
    PROVE  y \in first[body[c][i].asg.tgt]
<1>1. body[c][i] \in ConeItems(D, c)
  BY SeqFacts DEF BodiesInv
<1>2. PICK a \in D.conts : a = body[c][i].asg
  BY <1>1 DEF ConeItems, Wants
<1>3. y \in a.srcs /\ y # a.tgt /\ wasLhsContinuous[y]
  BY <1>2 DEF Wants
<1>4. y \in (UNION {e.srcs : e \in {b \in D.conts : b.tgt = a.tgt}}) \ {a.tgt}
  BY <1>3, Zenon
<1>5. a.tgt \in Decls /\ y \in Sources(D)[a.tgt]
  BY <1>4, SourcesType
<1>6. y \in first[a.tgt]
  BY <1>3, <1>5 DEF NetsInv
<1>7. QED BY <1>2, <1>6

(* A net of the graph that the merge leaves out has a cone of its own. *)
LEMMA ParentSkipped ==
    ASSUME NEW D \in Designs, TypeOK, NetsInv(D), LoopInv, BodiesInv(D), MergeInv,
           NEW d \in Decls, SkipParent(d)
    PROVE  MergeInv'
<1>1. /\ phase = "merge" /\ phase' = "merge" /\ d \in cur /\ k \in DOMAIN sorted /\ k' = k + 1
      /\ ~IsMergeable(sorted[k], d)
      /\ UNCHANGED <<wasLhsContinuous, sorted, cones, todo, cur, first, body>>
  BY DEF SkipParent, infoVars, graphVars, coneVars
<1>2. \A c \in cur : c = d
  BY <1>1 DEF LoopInv
<1>3. Ordered(body[d], k) /\ ParentsKept(d)
  BY <1>1 DEF MergeInv
<1>4. \A n \in DOMAIN sorted : n \in Nat
  BY DEF TypeOK
<1>5. ASSUME NEW i \in DOMAIN body[d], NEW y \in Decls, Wants(body[d], i, y)
      PROVE  SetsBefore(body[d], i, y) \/ \A n \in DOMAIN sorted : sorted[n] = y => n >= k + 1
  <2>1. y \in first[body[d][i].asg.tgt]
    BY <1>1, <1>5, WantedSource
  <2>2. y \in first[d] /\ y \notin cones
    BY <1>3, <1>5, <2>1 DEF ParentsKept, Wants
  <2>3. y # sorted[k]
    BY <1>1, <2>2 DEF IsMergeable
  <2>4. SetsBefore(body[d], i, y) \/ \A n \in DOMAIN sorted : sorted[n] = y => n >= k
    BY <1>3, <1>5 DEF Ordered
  <2>5. ASSUME NEW n \in DOMAIN sorted, sorted[n] = y, n >= k PROVE n >= k + 1
    BY <1>1, <1>4, <2>3, <2>5
  <2>6. QED BY <2>4, <2>5
<1>6. Ordered(body[d], k)'
  BY <1>1, <1>5 DEF Ordered, Wants, SetsBefore
<1>7. ParentsKept(d)' /\ \A c \in todo : OwnOnly(c)'
  BY <1>1, <1>3 DEF MergeInv, ParentsKept, OwnOnly
<1>8. \A c \in Decls : c \notin todo \cup cur => Settled(body[c])'
  BY <1>1 DEF MergeInv, Settled, Wants, SetsBefore
<1>9. QED BY <1>1, <1>2, <1>6, <1>7, <1>8 DEF MergeInv

(* At the end of the sorted graph nothing is missing. *)
LEMMA MergeEnded ==
    ASSUME NEW D \in Designs, TypeOK, NetsInv(D), OrderInv, LoopInv, BodiesInv(D), MergeInv,
           NEW d \in Decls, EndMerge(d)
    PROVE  MergeInv'
<1>1. /\ phase = "merge" /\ phase' = "merge" /\ d \in cur /\ cur' = {} /\ k \notin DOMAIN sorted
      /\ UNCHANGED <<wasLhsContinuous, sorted, cones, todo, first, body>>
  BY DEF EndMerge, infoVars, graphVars, coneVars
<1>2. \A c \in cur : c = d
  BY <1>1 DEF LoopInv
<1>3. Ordered(body[d], k) /\ ParentsKept(d)
  BY <1>1 DEF MergeInv
<1>4. \A n \in DOMAIN sorted : ~(n >= k)
  BY <1>1 DEF TypeOK, LoopInv
<1>5. ASSUME NEW i \in DOMAIN body[d], NEW y \in Decls, Wants(body[d], i, y)
      PROVE  SetsBefore(body[d], i, y)
  <2>1. y \in first[body[d][i].asg.tgt]
    BY <1>1, <1>5, WantedSource
  <2>2. y \in first[d]
    BY <1>3, <1>5, <2>1 DEF ParentsKept, Wants
  <2>3. PICK n \in DOMAIN sorted : sorted[n] = y
    BY <1>1, <2>2 DEF OrderInv
  <2>4. QED BY <1>3, <1>4, <1>5, <2>3 DEF Ordered
<1>6. Settled(body[d])
  BY <1>5 DEF Settled
<1>7. \A c \in Decls : c \notin todo => Settled(body[c])
  BY <1>1, <1>2, <1>6 DEF MergeInv
<1>8. \A c \in Decls : c \notin todo => Settled(body[c])'
  BY <1>1, <1>7 DEF Settled, Wants, SetsBefore
<1>9. \A c \in todo : OwnOnly(c)'
  BY <1>1 DEF MergeInv, OwnOnly
<1>10. QED BY <1>1, <1>8, <1>9 DEF MergeInv

(* The merge of a cone starts from its own assignments. *)
LEMMA MergeBegun ==
    ASSUME TypeOK, LoopInv, MergeInv, NEW d \in Decls, BeginMerge(d)
    PROVE  MergeInv'
<1>1. /\ phase = "merge" /\ phase' = "merge" /\ cur = {} /\ d \in todo /\ cur' = {d}
      /\ todo' = todo \ {d} /\ k' = 1
      /\ UNCHANGED <<wasLhsContinuous, sorted, cones, first, body>>
  BY DEF BeginMerge, infoVars, graphVars, coneVars
<1>2. \A n \in DOMAIN sorted : n >= 1
  BY SeqFacts DEF TypeOK
<1>3. ParentsKept(d)' /\ Ordered(body[d], k)'
  BY <1>1, <1>2 DEF MergeInv, OwnOnly, ParentsKept, Ordered
<1>4. \A c \in Decls : c \notin todo' \cup cur' => Settled(body[c])'
  BY <1>1 DEF MergeInv, Settled, Wants, SetsBefore
<1>5. \A c \in todo' : OwnOnly(c)'
  BY <1>1 DEF MergeInv, OwnOnly
<1>6. QED BY <1>1, <1>3, <1>4, <1>5 DEF MergeInv

(* The steps that leave the bodies alone. *)
LEMMA MergeStays ==
    ASSUME NEW D \in Designs, TypeOK, NetsInv(D), OrderInv, LoopInv, BodiesInv(D), MergeInv,
           [Next]_vars, UNCHANGED <<cones, body>>,
           ~generateConeFunction, \A d \in Decls : ~MergeParent(d)
    PROVE  MergeInv'
<1> USE DEF infoVars, graphVars, coneVars, loopVars
<1>1. ASSUME phase' \in {"calls", "sens", "clear", "refine"}, wasLhsContinuous' = wasLhsContinuous,
             \A c \in Decls : Settled(body[c])
      PROVE  MergeInv'
  BY <1>1 DEF MergeInv, Settled, Wants, SetsBefore
<1>2. CASE sortGraph \/ SkipCone
  <2>1. phase' = "cones" /\ (phase = "cones" \/ cones = {})
    BY <1>2 DEF sortGraph, SkipCone, BodiesInv
  <2>2. \A c \in Decls : OwnOnly(c)
    <3>1. CASE phase = "cones"
      BY <3>1 DEF MergeInv
    <3>2. CASE cones = {}
      BY <3>2, EmptyBody DEF OwnOnly
    <3>3. QED BY <2>1, <3>1, <3>2
  <2>3. QED BY <2>1, <2>2 DEF MergeInv, OwnOnly
<1>3. CASE EndCones
  <2>1. /\ phase = "cones" /\ phase' = "merge" /\ todo' = cones /\ cur' = {}
    BY <1>3 DEF EndCones, LoopInv
  <2>2. \A c \in Decls : OwnOnly(c)'
    BY <2>1 DEF MergeInv, OwnOnly
  <2>3. \A c \in Decls : c \notin cones => Settled(body[c])'
    BY EmptyBody DEF Settled
  <2>4. QED BY <2>1, <2>2, <2>3 DEF MergeInv, TypeOK
<1>4. CASE updateInfos
  <2>1. /\ phase = "merge" /\ todo = {} /\ cur = {} /\ phase' = "calls"
        /\ wasLhsContinuous' = wasLhsContinuous
    BY <1>4 DEF updateInfos
  <2>2. QED BY <1>1, <2>1 DEF MergeInv
<1>5. CASE EndLoop
  <2>1. /\ phase \in {"graph", "calls", "sens", "clear"} /\ phase' = Following[phase]
        /\ wasLhsContinuous' = wasLhsContinuous
    BY <1>5 DEF EndLoop, Following
  <2>2. CASE phase = "graph"
    BY <2>1, <2>2 DEF Following, MergeInv
  <2>3. CASE phase # "graph"
    BY <1>1, <2>1, <2>3 DEF Following, MergeInv
  <2>4. QED BY <2>2, <2>3
<1>6. ASSUME NEW d \in Decls, addConesPCalls(d) \/ fixSensitivities(d) \/ clearContinuousAssigns(d)
      PROVE  MergeInv'
  <2>1. /\ phase \in {"calls", "sens", "clear"} /\ phase' = phase
        /\ wasLhsContinuous' = wasLhsContinuous
    BY <1>6 DEF addConesPCalls, fixSensitivities, clearContinuousAssigns
  <2>2. QED BY <1>1, <2>1 DEF MergeInv
<1>7. ASSUME NEW d \in Decls, generateLogicConesGraph(d) PROVE MergeInv'
  BY <1>7 DEF generateLogicConesGraph, MergeInv
<1>8. CASE UNCHANGED vars
  BY <1>8 DEF vars, MergeInv, OwnOnly, ParentsKept, Ordered, Settled, Wants, SetsBefore
<1>9. QED
  BY <1>2, <1>3, <1>4, <1>5, <1>6, <1>7, <1>8, ParentSkipped, MergeEnded, MergeBegun
     DEF Next, fixLogicCones, StepOf, Returned, SpinOnWaitCondition-----------------------------------------------------------------------------
(* Once the bodies are filled, calls and refreshes are put between their        *)
(* entries. coneRefs tells which nets a cone mentions.                          *)
Mentioned(c, s) ==
    \A i \in DOMAIN s : s[i].op = "assign" =>
        \A y \in s[i].asg.srcs : \E r \in coneRefs : r.decl = y /\ r.cone = c

MentionInv(D) ==
    /\ \A r \in coneRefs : r.cone \in cones /\ r.decl \in Closure(Sources(D), {r.cone})
    /\ phase \in {"calls", "sens", "clear", "refine"} => \A c \in Decls : Mentioned(c, body[c])

LEMMA ExtendedBody ==
    ASSUME NEW D, NEW c, NEW S, NEW s \in Seq(S), NEW t \in Seq(S), NEW place, Extends(s, t, place)
    PROVE  /\ HasDrivers(D, c, s) => HasDrivers(D, c, t)
           /\ Settled(s) => Settled(t)
           /\ Mentioned(c, s) => Mentioned(c, t)
<1>1. /\ \A i \in DOMAIN s : i \in Nat /\ place[i] \in DOMAIN t /\ place[i] \in Nat /\ t[place[i]] = s[i]
      /\ \A i, j \in DOMAIN s : i <= j => place[i] <= place[j]
      /\ \A j \in DOMAIN t : t[j].op = "assign" => \E i \in DOMAIN s : place[i] = j
  BY SeqFacts DEF Extends
<1>2. ASSUME HasDrivers(D, c, s) PROVE HasDrivers(D, c, t)
  <2> SUFFICES ASSUME NEW a \in D.conts, a.tgt = c \/ Assigns(t, a.tgt)
               PROVE  \E j \in DOMAIN t : t[j].op = "assign" /\ t[j].asg = a
    BY DEF HasDrivers
  <2>1. a.tgt = c \/ Assigns(s, a.tgt)
    BY <1>1 DEF Assigns
  <2>2. PICK i \in DOMAIN s : s[i].op = "assign" /\ s[i].asg = a
    BY <1>2, <2>1 DEF HasDrivers
  <2>3. QED BY <1>1, <2>2
<1>3. ASSUME Settled(s) PROVE Settled(t)
  <2> SUFFICES ASSUME NEW n \in DOMAIN t, NEW y \in Decls, Wants(t, n, y)
               PROVE  SetsBefore(t, n, y)
    BY DEF Settled
  <2>1. PICK i \in DOMAIN s : place[i] = n
    BY <1>1 DEF Wants
  <2>2. s[i] = t[n] /\ Wants(s, i, y)
    BY <1>1, <2>1 DEF Wants
  <2>3. PICK j \in DOMAIN s : j < i /\ s[j].op = "assign" /\ s[j].asg.tgt = y
    BY <1>3, <2>2 DEF Settled, SetsBefore
  <2>4. place[j] # place[i]
    BY <1>1, <2>1, <2>2, <2>3 DEF Wants
  <2>5. place[j] <= place[i]
    BY <1>1, <2>3
  <2>6. place[j] < n
    BY <1>1, <2>1, <2>4, <2>5
  <2>7. QED BY <1>1, <2>3, <2>6 DEF SetsBefore
<1>4. ASSUME Mentioned(c, s) PROVE Mentioned(c, t)
  <2> SUFFICES ASSUME NEW n \in DOMAIN t, t[n].op = "assign", NEW y \in t[n].asg.srcs
               PROVE  \E r \in coneRefs : r.decl = y /\ r.cone = c
    BY DEF Mentioned
  <2>1. PICK i \in DOMAIN s : place[i] = n
    BY <1>1
  <2>2. QED BY <1>1, <1>4, <2>1 DEF Mentioned
<1>5. QED BY <1>2, <1>3, <1>4

LEMMA BodiesGrow ==
    ASSUME NEW D \in Designs, BodiesInv(D), MergeInv, MentionInv(D),
           phase \in {"calls", "sens", "clear", "refine"}, phase' \in {"calls", "sens", "clear", "refine"},
           UNCHANGED <<coneRefs, wasLhsContinuous>>, cones \subseteq cones',
           \A c \in Decls : body[c] \in Seq(Items) /\ body'[c] \in Seq(Items),
           \A c \in Decls : body'[c] \in Seq(ConeItems(D, c)'),
           \A c \in Decls : \E place : Extends(body[c], body'[c], place),
           cones' \subseteq Decls,
           \A c \in cones' : c \notin cones => ~Driven(D, c) /\ "lhsNonBlocking" \in EntryUses(D, c)
    PROVE  BodiesInv(D)' /\ MergeInv' /\ MentionInv(D)'
<1>1. ASSUME NEW c \in Decls
      PROVE  /\ HasDrivers(D, c, body[c]) => HasDrivers(D, c, body'[c])
             /\ Settled(body[c]) => Settled(body'[c])
             /\ Mentioned(c, body[c]) => Mentioned(c, body'[c])
  <2>1. PICK place : Extends(body[c], body'[c], place)
    OBVIOUS
  <2>2. PICK s \in Seq(Items) : s = body[c]
    OBVIOUS
  <2>3. PICK t \in Seq(Items) : t = body'[c]
    OBVIOUS
  <2>4. /\ HasDrivers(D, c, s) => HasDrivers(D, c, t)
        /\ Settled(s) => Settled(t)
        /\ Mentioned(c, s) => Mentioned(c, t)
    BY <2>1, <2>2, <2>3, ExtendedBody
  <2>5. QED BY <2>2, <2>3, <2>4
<1>2. ASSUME NEW c \in cones', c \notin cones PROVE HasDrivers(D, c, body'[c])
  <2>1. PICK place : Extends(body[c], body'[c], place)
    OBVIOUS
  <2>2. DOMAIN body[c] = {}
    BY <1>2, EmptyBody
  <2>3. \A z : ~Assigns(body'[c], z)
    BY <2>1, <2>2 DEF Extends, Assigns
  <2>4. QED BY <1>2, <2>3 DEF HasDrivers, Driven
<1>3. BodiesInv(D)'
  <2>1. \A c \in cones' : HasDrivers(D, c, body'[c])
    BY <1>1, <1>2 DEF BodiesInv
  <2>2. \A c \in cones' : wasLhsContinuous'[c] \/ "lhsNonBlocking" \in EntryUses(D, c)
    BY DEF BodiesInv
  <2>3. QED BY <2>1, <2>2 DEF BodiesInv, HasDrivers, Assigns
<1>4. MergeInv'
  <2>1. \A c \in Decls : Settled(body'[c])
    BY <1>1 DEF MergeInv
  <2>2. \A c \in Decls : Settled(body[c])'
    BY <2>1 DEF Settled, Wants, SetsBefore
  <2>3. QED BY <2>2 DEF MergeInv
<1>5. MentionInv(D)'
  <2>1. \A c \in Decls : Mentioned(c, body'[c])
    BY <1>1 DEF MentionInv
  <2>2. \A c \in Decls : Mentioned(c, body[c])'
    BY <2>1 DEF Mentioned
  <2>3. QED BY <2>2 DEF MentionInv
<1>6. QED BY <1>3, <1>4, <1>5

(* A call of d may stand in every cone that mentions it. *)
LEMMA CallItem ==
    ASSUME NEW D, TypeOK, MentionInv(D), cones \subseteq cones', wasLhsContinuous' = wasLhsContinuous,
           NEW d \in Decls, d \in cones', NEW c \in Hosts(d)
    PROVE  [op |-> "call", cone |-> d] \in ConeItems(D, c)' /\ c \in Decls
<1>1. PICK x \in Items : x = [op |-> "call", cone |-> d]
  BY DEF Items
<1>2. PICK r \in coneRefs : r.decl = d /\ r.cone = c
  BY DEF Hosts
<1>3. c \in cones /\ d \in Closure(Sources(D), {c}) /\ c \in Decls
  BY <1>2 DEF MentionInv, TypeOK
<1>4. x \in ConeItems(D, c)'
  BY <1>1, <1>3 DEF ConeItems
<1>5. QED BY <1>1, <1>3, <1>4

LEMMA CallsGrow ==
    ASSUME NEW D \in Designs, TypeOK, TypeOK', LoopInv, BodiesInv(D), MergeInv, MentionInv(D),
           NEW d \in Decls, addConesPCalls(d)
    PROVE  BodiesInv(D)' /\ MergeInv' /\ MentionInv(D)'
<1>1. PICK pos \in [Hosts(d) -> UNION {MentionsAt(c, d) : c \in Hosts(d)}] :
          /\ \A c \in Hosts(d) : IsFirstMention(pos[c], c, d)
          /\ body' = [c \in Decls |->
                         IF c \in Hosts(d)
                         THEN InsertAt(body[c], pos[c], [op |-> "call", cone |-> d])
                         ELSE body[c]]
  BY DEF addConesPCalls
<1>2. /\ phase = "calls" /\ phase' = "calls" /\ d \in todo /\ d \in cones
      /\ UNCHANGED <<cones, coneRefs, wasLhsContinuous>>
  BY DEF addConesPCalls, infoVars, LoopInv
<1>3. PICK x \in Items : x = [op |-> "call", cone |-> d]
  BY DEF Items
<1>4. \A c \in Decls : body[c] \in Seq(Items) /\ body'[c] \in Seq(Items)
  BY DEF TypeOK
<1>5. ASSUME NEW c \in Decls
      PROVE  body'[c] \in Seq(ConeItems(D, c)') /\ \E place : Extends(body[c], body'[c], place)
  <2>1. PICK s \in Seq(Items) : s = body[c]
    BY <1>4
  <2>2. s \in Seq(ConeItems(D, c)')
    <3>1. ConeItems(D, c)' = ConeItems(D, c)
      BY <1>2 DEF ConeItems
    <3>2. QED BY <2>1, <3>1 DEF BodiesInv
  <2>3. CASE c \notin Hosts(d)
    <3>1. body'[c] = s
      BY <1>1, <2>1, <2>3
    <3>2. Extends(s, s, [i \in DOMAIN s |-> i])
      BY DEF Extends
    <3>3. QED BY <2>1, <2>2, <3>1, <3>2
  <2>4. CASE c \in Hosts(d)
    <3>1. PICK i : i = pos[c]
      OBVIOUS
    <3>2. i \in Mentions(s, d) /\ \A j \in Mentions(s, d) : i <= j
      BY <1>1, <2>1, <2>4, <3>1, MentionsOfBody DEF IsFirstMention
    <3>3. body'[c] = InsertAt(s, i, x)
      BY <1>1, <1>3, <2>1, <2>4, <3>1
    <3>4. \E place : Extends(s, InsertAt(s, i, x), place)
      BY <1>3, <3>2, InsertedCall
    <3>5. x \in ConeItems(D, c)'
      BY <1>2, <1>3, <2>4, CallItem
    <3>6. i \in DOMAIN s
      BY <3>2 DEF Mentions
    <3>7. InsertAt(s, i, x) \in Seq(ConeItems(D, c)')
      BY <2>2, <3>5, <3>6, InsertAtType
    <3>8. QED BY <2>1, <3>3, <3>4, <3>7
  <2>5. QED BY <2>3, <2>4
<1>6. QED BY <1>2, <1>4, <1>5, BodiesGrow DEF TypeOK

LEMMA RefreshGrows ==
    ASSUME NEW D \in Designs, NoMixedTargets(D), TypeOK, TypeOK', ConesInv(D),
           BodiesInv(D), MergeInv, MentionInv(D), NEW d \in Decls, refineToVariables(d)
    PROVE  BodiesInv(D)' /\ MergeInv' /\ MentionInv(D)'
<1>1. phase = "refine" /\ phase' = "refine" /\ UNCHANGED <<coneRefs, wasLhsContinuous>>
  BY RefineLeaves DEF infoVars
<1>2. \A c \in Decls : body[c] \in Seq(Items) /\ body'[c] \in Seq(Items)
  BY DEF TypeOK
<1>3. CASE UNCHANGED coneVars
  <2>1. cones' = cones /\ body' = body
    BY <1>3 DEF coneVars
  <2>2. \A c \in Decls : body'[c] \in Seq(ConeItems(D, c)')
    <3>1. \A c \in Decls : ConeItems(D, c)' = ConeItems(D, c)
      BY <1>1, <2>1 DEF ConeItems
    <3>2. QED BY <2>1, <3>1 DEF BodiesInv
  <2>3. \A c \in Decls : Extends(body[c], body'[c], [i \in DOMAIN body[c] |-> i])
    BY <2>1 DEF Extends
  <2>4. QED BY <1>1, <1>2, <2>1, <2>2, <2>3, BodiesGrow DEF TypeOK
<1>4. CASE AddRefresh(d) /\ "lhsNonBlocking" \in Uses(d)
  <2>1. cones' = cones \cup {d}
    BY <1>4 DEF AddRefresh
  <2>2. "lhsNonBlocking" \in EntryUses(D, d) /\ ~Driven(D, d)
    <3>1. "lhsNonBlocking" \in UsesOnEntry(d) /\ design = D
      BY <1>4, UseOnEntry DEF ConesInv, EdgesInv
    <3>2. "lhsNonBlocking" \in EntryUses(D, d)
      BY <3>1 DEF UsesOnEntry, EntryUses
    <3>3. QED BY <3>2 DEF NoMixedTargets, Driven
  <2>3. PICK T : T = [c \in Decls |-> ConeItems(D, c)']
    OBVIOUS
  <2>4. body \in [Decls -> Seq(Items)]
    BY DEF TypeOK
  <2>5. ASSUME NEW c \in Decls PROVE body[c] \in Seq(T[c])
    <3>1. ConeItems(D, c) \subseteq T[c]
      BY <1>1, <2>1, <2>3, ConeItemsGrow
    <3>2. body[c] \in Seq(ConeItems(D, c))
      BY DEF BodiesInv
    <3>3. QED BY <3>1, <3>2, SeqGrows
  <2>6. Refresh(d) \in T[d]
    <3>1. PICK x \in Items : x = [op |-> "refresh", cone |-> d]
      BY DEF Items
    <3>2. x \in ConeItems(D, d)'
      BY <2>1, <2>2, <3>1 DEF ConeItems
    <3>3. QED BY <2>3, <3>1, <3>2 DEF Refresh
  <2>7. \A c \in Hosts(d) : [op |-> "call", cone |-> d] \in T[c]
    BY <1>1, <2>1, <2>3, CallItem
  <2>8. \A c \in Decls : body'[c] \in Seq(T[c])
    BY <1>4, <2>4, <2>5, <2>6, <2>7, RefreshedBodies
  <2>9. \A c \in Decls : body'[c] \in Seq(ConeItems(D, c)')
    BY <2>3, <2>8
  <2>10. PICK x \in Items : x = Refresh(d) /\ x.op = "refresh"
    BY RefreshItem
  <2>11. ASSUME NEW c \in Decls PROVE \E place : Extends(body[c], body'[c], place)
    <3>1. CASE c = d /\ d \in cones
      <4>1. body'[c] = <<x>> \o body[c]
        BY <1>4, <2>4, <2>10, <3>1 DEF AddRefresh
      <4>2. QED BY <2>4, <2>10, <4>1, PrefixExtends
    <3>2. CASE c = d /\ d \notin cones
      <4>1. body'[c] = <<x>> /\ DOMAIN body[c] = {}
        BY <1>4, <2>10, <3>2, EmptyBody DEF AddRefresh
      <4>2. \A j \in DOMAIN <<x>> : <<x>>[j].op = "refresh"
        BY <2>10
      <4>3. Extends(body[c], body'[c], <<>>)
        BY <4>1, <4>2 DEF Extends
      <4>4. QED BY <4>3
    <3>3. CASE c # d /\ c \in Hosts(d) /\ d \notin cones
      <4>1. body'[c] = CallAtEachMention(c, d)
        BY <1>4, <3>3 DEF AddRefresh
      <4>2. QED BY <2>4, <4>1, EachMentionCalled
    <3>4. CASE c # d /\ ~(c \in Hosts(d) /\ d \notin cones)
      <4>1. body'[c] = body[c]
        BY <1>4, <2>4, <3>4 DEF AddRefresh
      <4>2. Extends(body[c], body'[c], [i \in DOMAIN body[c] |-> i])
        BY <4>1 DEF Extends
      <4>3. QED BY <4>2
    <3>5. QED BY <3>1, <3>2, <3>3, <3>4
  <2>12. QED BY <1>1, <1>2, <2>1, <2>2, <2>9, <2>11, BodiesGrow DEF TypeOK
<1>5. QED BY <1>3, <1>4, RefineCones-----------------------------------------------------------------------------
(* updateInfos enters the references of the bodies in infoMap. *)
LEMMA SourcesReached ==
    ASSUME NEW D \in Designs, NEW c \in Decls, NEW a \in D.conts,
           a.tgt \in Closure(Sources(D), {c})
    PROVE  a.srcs \subseteq Closure(Sources(D), {c})
<1>1. {c} \in SUBSET Decls /\ Sources(D) \in [Decls -> SUBSET Decls]
  BY SourcesType
<1>2. Sources(D)[a.tgt] \subseteq Closure(Sources(D), {c})
  BY <1>1, ClosureFacts DEF IsClosed
<1>3. ASSUME NEW y \in a.srcs, y # a.tgt PROVE y \in Sources(D)[a.tgt]
  <2>1. y \in (UNION {e.srcs : e \in {b \in D.conts : b.tgt = a.tgt}}) \ {a.tgt}
    BY <1>3, Zenon
  <2>2. QED BY <2>1, SourcesType
<1>4. QED BY <1>2, <1>3

LEMMA MentionsEntered ==
    ASSUME NEW D \in Designs, TypeOK, BodiesInv(D), updateInfos
    PROVE  MentionInv(D)'
<1>1. /\ UNCHANGED <<cones, body>>
      /\ coneRefs' = {r \in ConeRefs :
                       /\ r.cone \in cones
                       /\ \/ r.use = "read" /\ r.decl \in ReadsOf(r.cone)
                          \/ r.use = "lhsBlocking" /\ r.decl \in WritesOf(r.cone)}
  BY DEF updateInfos, coneVars
<1>2. ASSUME NEW c \in Decls, NEW i \in DOMAIN body[c], body[c][i].op \in {"assign", "assignTmp"}
      PROVE  /\ c \in cones /\ body[c][i].op = "assign" /\ body[c][i].asg \in D.conts
             /\ body[c][i].asg.tgt \in Closure(Sources(D), {c})
             /\ body[c][i].asg.srcs \subseteq Closure(Sources(D), {c})
             /\ body[c][i].asg.srcs \subseteq Decls
  <2>1. body[c][i] \in ConeItems(D, c)
    BY SeqFacts DEF BodiesInv
  <2>2. PICK a \in D.conts : a = body[c][i].asg /\ a.tgt \in Closure(Sources(D), {c})
    BY <1>2, <2>1 DEF ConeItems
  <2>3. a.srcs \subseteq Closure(Sources(D), {c}) /\ a.srcs \subseteq Decls
    BY <2>2, SourcesReached, SourcesType
  <2>4. QED BY <1>2, <2>1, <2>2, <2>3 DEF ConeItems
<1>3. ASSUME NEW r \in coneRefs'
      PROVE  r.cone \in cones' /\ r.decl \in Closure(Sources(D), {r.cone})
  <2>1. r.cone \in cones /\ r.cone \in Decls /\ r.decl \in ReadsOf(r.cone) \cup WritesOf(r.cone)
    BY <1>1 DEF TypeOK
  <2>2. PICK i \in Assigned(r.cone) :
            r.decl \in body[r.cone][i].asg.srcs \cup {body[r.cone][i].asg.tgt}
    BY <2>1 DEF ReadsOf, WritesOf
  <2>3. QED BY <1>1, <1>2, <2>1, <2>2 DEF Assigned
<1>4. ASSUME NEW c \in Decls, NEW i \in DOMAIN body[c], body[c][i].op = "assign",
             NEW y \in body[c][i].asg.srcs
      PROVE  \E r \in coneRefs' : r.decl = y /\ r.cone = c
  <2>1. y \in Decls /\ c \in cones
    BY <1>2, <1>4
  <2>2. PICK r \in ConeRefs : r = [decl |-> y, use |-> "read", cone |-> c]
    BY <2>1 DEF ConeRefs
  <2>3. y \in ReadsOf(c)
    BY <1>4 DEF ReadsOf, Assigned
  <2>4. QED BY <1>1, <2>1, <2>2, <2>3
<1>5. \A c \in Decls : Mentioned(c, body[c])'
  BY <1>1, <1>4 DEF Mentioned
<1>6. QED BY <1>3, <1>5 DEF MentionInv

LEMMA MentionsStay ==
    ASSUME NEW D, MentionInv(D), coneRefs' = coneRefs, cones \subseteq cones',
           phase' \in {"calls", "sens", "clear", "refine"} =>
               phase \in {"calls", "sens", "clear", "refine"} /\ body' = body
    PROVE  MentionInv(D)'
BY DEF MentionInv, Mentioned

LEMMA BodiesStep ==
    ASSUME NEW D \in Designs, NoMixedTargets(D), TypeOK, TypeOK', ContsInv, ConesInv(D),
           NetsInv(D), OrderInv, LoopInv, BodiesInv(D), MergeInv, MentionInv(D), [Next]_vars
    PROVE  BodiesInv(D)' /\ MergeInv' /\ MentionInv(D)'
<1> USE DEF infoVars, graphVars, coneVars, loopVars
<1>1. EntryRefsInv /\ ReachInv(D)
  BY DEF ConesInv, WakeInv, DriversInv, EdgesInv
<1>2. CASE generateConeFunction
  <2>1. BodiesInv(D)' /\ MergeInv'
    BY <1>1, <1>2, ConeCreated
  <2>2. coneRefs' = coneRefs /\ cones \subseteq cones' /\ phase' = "cones"
    BY <1>2 DEF generateConeFunction
  <2>3. QED BY <2>1, <2>2, MentionsStay
<1>3. ASSUME NEW d \in Decls, MergeParent(d)
      PROVE  BodiesInv(D)' /\ MergeInv' /\ MentionInv(D)'
  <2>1. BodiesInv(D)' /\ MergeInv'
    BY <1>1, <1>3, ParentMerged
  <2>2. coneRefs' = coneRefs /\ cones \subseteq cones' /\ phase' = "merge"
    BY <1>3 DEF MergeParent
  <2>3. QED BY <2>1, <2>2, MentionsStay
<1>4. ASSUME NEW d \in Decls, addConesPCalls(d)
      PROVE  BodiesInv(D)' /\ MergeInv' /\ MentionInv(D)'
  BY <1>4, CallsGrow
<1>5. ASSUME ~generateConeFunction, \A d \in Decls : ~MergeParent(d), UNCHANGED <<cones, body>>,
             phase' \in {"graph", "sort"} => phase \in {"graph", "sort"},
             phase = "graph" \/ wasLhsContinuous' = wasLhsContinuous,
             updateInfos \/ (coneRefs' = coneRefs /\
                 (phase' \in {"calls", "sens", "clear", "refine"} =>
                     phase \in {"calls", "sens", "clear", "refine"}))
      PROVE  BodiesInv(D)' /\ MergeInv' /\ MentionInv(D)'
  <2>1. BodiesInv(D)'
    BY <1>5, BodiesStay
  <2>2. MergeInv'
    BY <1>5, MergeStays
  <2>3. MentionInv(D)'
    BY <1>5, MentionsEntered, MentionsStay
  <2>4. QED BY <2>1, <2>2, <2>3
<1>6. CASE EndLoop
  <2>1. /\ phase \in {"graph", "calls", "sens", "clear"} /\ phase' = Following[phase]
        /\ UNCHANGED <<cones, body, coneRefs, wasLhsContinuous>>
    BY <1>6 DEF EndLoop, Following
  <2>2. ~generateConeFunction /\ \A d \in Decls : ~MergeParent(d)
    BY <2>1 DEF generateConeFunction, MergeParent
  <2>3. /\ phase' \in {"graph", "sort"} => phase = "graph"
        /\ phase' \in {"calls", "sens", "clear", "refine"} => phase \in {"calls", "sens", "clear"}
    BY <2>1 DEF Following
  <2>4. QED BY <1>5, <2>1, <2>2, <2>3
<1>7. CASE ~generateConeFunction /\ (\A d \in Decls : ~MergeParent(d)) /\ ~EndLoop /\
           (sortGraph \/ SkipCone \/ EndCones \/ updateInfos \/ UNCHANGED vars)
  BY <1>5, <1>7 DEF sortGraph, SkipCone, EndCones, updateInfos, vars
<1>8. ASSUME NEW d \in Decls, ~generateConeFunction, \A e \in Decls : ~MergeParent(e),
             \/ generateLogicConesGraph(d) \/ BeginMerge(d) \/ SkipParent(d) \/ EndMerge(d)
             \/ fixSensitivities(d) \/ clearContinuousAssigns(d)
      PROVE  BodiesInv(D)' /\ MergeInv' /\ MentionInv(D)'
  BY <1>5, <1>8 DEF generateLogicConesGraph, BeginMerge, SkipParent, EndMerge, fixSensitivities,
                    clearContinuousAssigns
<1>9. QED
  BY <1>2, <1>3, <1>4, <1>6, <1>7, <1>8 DEF Next, fixLogicCones, StepOf, Returned, SpinOnWaitCondition

(* All that is known about the cones at the end of step 3. *)
FilledInv(D) ==
    /\ ConesInv(D)
    /\ NetsInv(D)
    /\ OrderInv
    /\ LoopInv
    /\ BodiesInv(D)
    /\ MergeInv
    /\ MentionInv(D)

LEMMA FilledInit ==
    ASSUME NEW D \in Designs, Init, design = D
    PROVE  FilledInv(D)
<1>1. ConesInv(D) /\ NetsInv(D)
  BY ConesInit, NetsInit
<1>2. OrderInv /\ LoopInv /\ MergeInv
  BY DEF Init, OrderInv, LoopInv, MergeInv
<1>3. BodiesInv(D)
  BY DEF Init, BodiesInv
<1>4. MentionInv(D)
  BY DEF Init, MentionInv
<1>5. QED BY <1>1, <1>2, <1>3, <1>4 DEF FilledInv

LEMMA RefineNets ==
    ASSUME NEW D \in Designs, NetsInv(D), NEW d \in Decls, refineToVariables(d)
    PROVE  NetsInv(D)'
<1>1. /\ phase = "refine" /\ phase' = "refine"
      /\ UNCHANGED <<design, conts, lhsContinuous, wasLhsContinuous, first, second>>
  BY RefineLeaves DEF infoVars, graphVars
<1>2. QED BY <1>1 DEF NetsInv

LEMMA FilledStep ==
    ASSUME NEW D \in Designs, NoMixedTargets(D), TypeOK, TypeOK', ContsInv, FilledInv(D),
           [Step3Next]_step3Vars
    PROVE  FilledInv(D)'
<1>1. ConesInv(D)' /\ OrderInv' /\ LoopInv'
  BY StepCones, OrderStep, StepLoops DEF FilledInv
<1>2. ASSUME NEW d \in Decls, refineToVariables(d)
      PROVE  NetsInv(D)' /\ BodiesInv(D)' /\ MergeInv' /\ MentionInv(D)'
  BY <1>2, RefineNets, RefreshGrows DEF FilledInv
<1>3. CASE [Next]_vars
  <2>1. EntryRefsInv
    BY DEF FilledInv, ConesInv, WakeInv, DriversInv
  <2>2. NetsInv(D)'
    BY <1>3, <2>1, NetsStep DEF FilledInv
  <2>3. BodiesInv(D)' /\ MergeInv' /\ MentionInv(D)'
    BY <1>3, BodiesStep DEF FilledInv
  <2>4. QED BY <1>1, <2>2, <2>3 DEF FilledInv
<1>4. QED BY <1>1, <1>2, <1>3 DEF FilledInv, Step3Next, Step3Returned, step3Vars, Next-----------------------------------------------------------------------------
(* What a cone reads and computes when step 3 has ended. *)
LEMMA ItemEffects ==
    ASSUME NEW it
    PROVE  /\ it.op = "assign" => ReadBy(it) = it.asg.srcs \ {it.asg.tgt} /\ SetBy(it) = {it.asg.tgt}
           /\ it.op = "refresh" => ReadBy(it) = {it.cone} /\ SetBy(it) = {it.cone}
           /\ it.op \notin {"assign", "refresh"} => ReadBy(it) = {} /\ SetBy(it) = {}
BY DEF ReadBy, SetBy

LEMMA EntryFacts ==
    ASSUME NEW D \in Designs, TypeOK, FilledInv(D), NEW rank \in Ranks, RankInv(rank),
           NEW c \in Decls, NEW i \in DOMAIN body[c]
    PROVE  /\ c \in cones /\ i \in Nat /\ i >= 1 /\ DOMAIN body[c] = 1 .. Len(body[c]) /\ Len(body[c]) \in Nat
           /\ body[c][i].op \in {"assign", "call", "refresh"}
           /\ body[c][i].op = "assign" =>
                  /\ body[c][i].asg \in D.conts /\ wasLhsContinuous[body[c][i].asg.tgt]
                  /\ body[c][i].asg.tgt \in Closure(Sources(D), {c})
                  /\ body[c][i].asg.tgt = c \/ rank[body[c][i].asg.tgt] < rank[c]
           /\ body[c][i].op = "call" =>
                  /\ body[c][i].cone \in cones /\ body[c][i].cone \in Closure(Sources(D), {c})
                  /\ rank[body[c][i].cone] < rank[c]
           /\ body[c][i].op = "refresh" => body[c][i].cone = c /\ ~Driven(D, c)
<1>1. body[c] \in Seq(ConeItems(D, c)) /\ body[c] \in Seq(GoodItems(rank, c))
  BY DEF FilledInv, BodiesInv, RankInv, BodiesDescend
<1>2. PICK it : it = body[c][i] /\ it \in ConeItems(D, c) /\ it \in GoodItems(rank, c)
  BY <1>1, SeqFacts
<1>3. i \in Nat /\ i >= 1 /\ DOMAIN body[c] = 1 .. Len(body[c]) /\ Len(body[c]) \in Nat
  BY <1>1, SeqFacts
<1>4. it.op \in {"assign", "call", "refresh"}
  BY <1>2 DEF ConeItems, Items
<1>5. QED BY <1>2, <1>3, <1>4 DEF ConeItems, GoodItems

LEMMA ExecutedFacts ==
    ASSUME NEW D \in Designs, TypeOK, FilledInv(D), NEW c \in Decls
    PROVE  /\ CalledBy(c) \subseteq cones /\ CalledBy(c) \subseteq Closure(Sources(D), {c})
           /\ c \in Executed(c) /\ Executed(c) \subseteq Decls
           /\ \A b \in Executed(c) : CalledBy(b) \subseteq Executed(c)
           /\ \A b \in Executed(c) : b = c \/ \E y \in CalledBy(c) : b \in Executed(y)
<1>1. \A b \in Decls : CalledBy(b) \subseteq cones /\ CalledBy(b) \subseteq Closure(Sources(D), {b})
  <2> SUFFICES ASSUME NEW b \in Decls, NEW i \in DOMAIN body[b], body[b][i].op = "call"
               PROVE  body[b][i].cone \in cones /\ body[b][i].cone \in Closure(Sources(D), {b})
    BY DEF CalledBy
  <2>1. body[b][i] \in ConeItems(D, b)
    BY SeqFacts DEF FilledInv, BodiesInv
  <2>2. QED BY <2>1 DEF ConeItems
<1>2. PICK succ \in [Decls -> SUBSET Decls] : succ = [b \in Decls |-> CalledBy(b)]
  BY <1>1 DEF TypeOK
<1>3. \A b \in Decls : Executed(b) = Closure(succ, {b}) /\ succ[b] = CalledBy(b)
  BY <1>2 DEF Executed
<1>4. {c} \in SUBSET Decls
  OBVIOUS
<1>5. c \in Closure(succ, {c}) /\ Closure(succ, {c}) \subseteq Decls /\ IsClosed(succ, Closure(succ, {c}))
  BY <1>4, ClosureFacts
<1>6. \A b \in Closure(succ, {c}) : b = c \/ \E y \in succ[c] : b \in Closure(succ, {y})
  BY ClosureSplit
<1>7. \A y \in succ[c] : y \in Decls
  OBVIOUS
<1>8. Executed(c) = Closure(succ, {c}) /\ succ[c] = CalledBy(c)
  BY <1>3
<1>9. ASSUME NEW b \in Executed(c)
      PROVE  CalledBy(b) \subseteq Executed(c) /\ (b = c \/ \E y \in CalledBy(c) : b \in Executed(y))
  <2>1. b \in Decls /\ b \in Closure(succ, {c}) /\ succ[b] = CalledBy(b)
    BY <1>3, <1>5, <1>8, <1>9
  <2>2. succ[b] \subseteq Closure(succ, {c})
    BY <1>5, <2>1 DEF IsClosed
  <2>3. ASSUME b # c PROVE \E y \in CalledBy(c) : b \in Executed(y)
    <3>1. PICK y \in succ[c] : b \in Closure(succ, {y})
      BY <1>6, <2>1, <2>3
    <3>2. y \in Decls
      BY <1>7
    <3>3. b \in Executed(y)
      BY <1>3, <3>1, <3>2
    <3>4. QED BY <1>8, <3>3
  <2>4. QED BY <1>8, <2>1, <2>2, <2>3
<1>10. QED BY <1>1, <1>5, <1>8, <1>9

(* A cone computes its net if the net is taken out of the tree. *)
LEMMA ComputesItsNet ==
    ASSUME NEW D \in Designs, TypeOK, FilledInv(D), NEW c \in cones, wasLhsContinuous[c]
    PROVE  Assigns(body[c], c) /\ c \in Computes(c) /\ HasDrivers(D, c, body[c])
<1>1. c \in Decls /\ HasDrivers(D, c, body[c]) /\ Driven(D, c)
  BY DEF TypeOK, FilledInv, BodiesInv, NetsInv
<1>2. PICK a \in D.conts : a.tgt = c
  BY <1>1 DEF Driven
<1>3. PICK j \in DOMAIN body[c] : body[c][j].op = "assign" /\ body[c][j].asg = a
  BY <1>1, <1>2 DEF HasDrivers
<1>4. c \in SetBy(body[c][j]) /\ c \in Executed(c)
  BY <1>1, <1>2, <1>3, ItemEffects, ExecutedFacts
<1>5. QED BY <1>1, <1>2, <1>3, <1>4 DEF Assigns, Computes

(* A net that is read and not driven in the tree any more has been set just     *)
(* before, or its cone has been called.                                         *)
LEMMA ComputedInTime ==
    ASSUME NEW D \in Designs, TypeOK, FilledInv(D), HostsInv, phase = "refine",
           NEW rank \in Ranks, RankInv(rank),
           NEW c \in Decls, NEW i \in DOMAIN body[c], body[c][i].op = "assign",
           NEW s \in Decls, wasLhsContinuous[s], s \in body[c][i].asg.srcs, s # body[c][i].asg.tgt
    PROVE  \/ s \notin cones /\ SetsBefore(body[c], i, s)
           \/ s \in cones /\ \E m \in 1 .. i - 1 : m \in DOMAIN body[c] /\ body[c][m] = [op |-> "call", cone |-> s]
<1>1. CASE s \notin cones
  <2>1. Wants(body[c], i, s)
    BY <1>1 DEF Wants
  <2>2. QED BY <1>1, <2>1 DEF FilledInv, MergeInv, Settled
<1>2. CASE s \in cones
  <2>1. PICK r \in coneRefs : r.decl = s /\ r.cone = c
    BY DEF FilledInv, MentionInv, Mentioned
  <2>2. PICK a \in D.conts : a = body[c][i].asg /\ (a.tgt = c \/ rank[a.tgt] < rank[c])
    BY EntryFacts
  <2>3. c # s
    <3>1. SUFFICES ASSUME c = s PROVE FALSE
      OBVIOUS
    <3>2. design = D /\ rank[s] < rank[a.tgt]
      BY <2>2 DEF FilledInv, NetsInv, RankInv, Layered
    <3>3. rank[s] \in Nat /\ rank[a.tgt] \in Nat
      BY <2>2, RankType, SourcesType
    <3>4. QED BY <2>2, <3>1, <3>2, <3>3
  <2>4. CalledIn(body[c], s)
    BY <1>2, <2>1, <2>3 DEF HostsInv, HostsCall, Hosts
  <2>5. i \in Mentions(body[c], s)
    BY DEF Mentions
  <2>6. PICK m \in 1 .. i : body[c][m] = [op |-> "call", cone |-> s]
    BY <2>4, <2>5 DEF CalledIn
  <2>7. m # i
    BY <2>6
  <2>8. m \in 1 .. i - 1 /\ m \in DOMAIN body[c]
    <3>1. i \in Nat /\ DOMAIN body[c] = 1 .. Len(body[c]) /\ Len(body[c]) \in Nat
      BY EntryFacts
    <3>2. QED BY <2>7, <3>1
  <2>9. QED BY <1>2, <2>6, <2>8
<1>3. QED BY <1>1, <1>2

(* No cone reads a net it should have computed. *)
LEMMA NoStaleRead ==
    ASSUME NEW D \in Designs, TypeOK, FilledInv(D), HostsInv, phase = "refine",
           NEW rank \in Ranks, RankInv(rank),
           NEW s \in Decls, wasLhsContinuous[s],
           NEW c \in Decls, NEW i \in DOMAIN body[c], s \in ReadBy(body[c][i])
    PROVE  ComputedBefore(s, c, i)
<1>1. body[c][i].op = "assign"
  <2>1. Driven(D, s)
    BY DEF FilledInv, NetsInv
  <2>2. PICK it : it = body[c][i]
    OBVIOUS
  <2>3. it.op \in {"assign", "call", "refresh"} /\ (it.op = "refresh" => it.cone = c /\ ~Driven(D, c))
    BY <2>2, EntryFacts
  <2>4. s \in ReadBy(it)
    BY <2>2
  <2>5. QED BY <2>1, <2>2, <2>3, <2>4, ItemEffects
<1>2. s \in body[c][i].asg.srcs /\ s # body[c][i].asg.tgt
  BY <1>1, ItemEffects
<1>3. CASE SetsBefore(body[c], i, s)
  <2>1. PICK j \in DOMAIN body[c] : j < i /\ body[c][j].op = "assign" /\ body[c][j].asg.tgt = s
    BY <1>3 DEF SetsBefore
  <2>2. s \in SetBy(body[c][j])
    BY <2>1, ItemEffects
  <2>3. j \in 1 .. i - 1
    <3>1. i \in Nat /\ DOMAIN body[c] = 1 .. Len(body[c]) /\ Len(body[c]) \in Nat
      BY EntryFacts
    <3>2. QED BY <2>1, <3>1
  <2>4. QED BY <2>2, <2>3 DEF ComputedBefore
<1>4. CASE s \in cones /\ \E m \in 1 .. i - 1 : m \in DOMAIN body[c] /\ body[c][m] = [op |-> "call", cone |-> s]
  <2>1. s \in Computes(s)
    BY <1>4, ComputesItsNet
  <2>2. QED BY <1>4, <2>1 DEF ComputedBefore
<1>5. QED BY <1>1, <1>2, <1>3, <1>4, ComputedInTime

(* What a cone reads without having computed it is a source of its net, and     *)
(* nothing that has been taken out of the tree.                                 *)
LEMMA EntersType ==
    ASSUME NEW D \in Designs, TypeOK, FilledInv(D), NEW s
    PROVE  /\ EntersWithout(s) \in [Decls -> SUBSET Decls]
           /\ \A c \in Decls : EntersWithout(s)[c] \subseteq CalledBy(c)
<1>1. \A c \in Decls : CalledBy(c) \subseteq Decls
  BY ExecutedFacts DEF TypeOK
<1>2. \A c \in Decls : EntersWithout(s)[c] \subseteq CalledBy(c)
  BY DEF EntersWithout, CalledBy
<1>3. QED BY <1>1, <1>2 DEF EntersWithout

LEMMA ExposedReached ==
    ASSUME NEW D \in Designs, TypeOK, FilledInv(D), HostsInv, phase = "refine",
           NEW rank \in Ranks, RankInv(rank), NEW d \in Decls, NEW s \in Exposes(d)
    PROVE  s \in Closure(Sources(D), {d}) /\ ~wasLhsContinuous[s]
<1>1. PICK c \in Closure(EntersWithout(s), {d}) :
          \E i \in DOMAIN body[c] : s \in ReadBy(body[c][i]) /\ ~ComputedBefore(s, c, i)
  BY DEF Exposes
<1>2. s \in Decls /\ {d} \in SUBSET Decls
  BY DEF Exposes
<1>3. PICK T \in SUBSET Decls : T = Closure(Sources(D), {d})
  BY <1>2, SourcesType, ClosureFacts
<1>4. d \in T /\ \A b \in T : Closure(Sources(D), {b}) \subseteq T
  <2>1. \A b \in T : {b} \in SUBSET Decls /\ {b} \subseteq Closure(Sources(D), {d})
    BY <1>3
  <2>2. \A b \in T : Closure(Sources(D), {b}) \subseteq T
    BY <1>2, <1>3, <2>1, SourcesType, ClosureMono
  <2>3. QED BY <1>3, <2>2, SelfReached
<1>5. IsClosed(EntersWithout(s), T)
  <2>1. \A b \in T : EntersWithout(s)[b] \subseteq CalledBy(b) /\ CalledBy(b) \subseteq Closure(Sources(D), {b})
    BY EntersType, ExecutedFacts
  <2>2. QED BY <1>4, <2>1 DEF IsClosed
<1>6. c \in T
  BY <1>1, <1>2, <1>4, <1>5, EntersType, ClosureFacts
<1>7. PICK i \in DOMAIN body[c] : s \in ReadBy(body[c][i]) /\ ~ComputedBefore(s, c, i)
  BY <1>1
<1>8. ~wasLhsContinuous[s]
  BY <1>2, <1>6, <1>7, NoStaleRead
<1>9. s \in Closure(Sources(D), {c})
  <2>1. PICK it : it = body[c][i]
    OBVIOUS
  <2>2. /\ it.op \in {"assign", "call", "refresh"}
        /\ it.op = "assign" => it.asg \in D.conts /\ it.asg.tgt \in Closure(Sources(D), {c})
        /\ it.op = "refresh" => it.cone = c
    BY <1>6, <2>1, EntryFacts
  <2>3. it.op = "assign" => it.asg.srcs \subseteq Closure(Sources(D), {c})
    BY <1>6, <2>2, SourcesReached
  <2>4. c \in Closure(Sources(D), {c})
    BY <1>6, SelfReached
  <2>5. s \in ReadBy(it)
    BY <1>7, <2>1
  <2>6. CASE it.op = "assign"
    <3>1. s \in it.asg.srcs
      BY <2>5, <2>6, ItemEffects
    <3>2. QED BY <2>3, <2>6, <3>1
  <2>7. CASE it.op = "refresh"
    <3>1. s = it.cone
      BY <2>5, <2>7, ItemEffects
    <3>2. QED BY <2>2, <2>4, <2>7, <3>1
  <2>8. it.op \in {"assign", "refresh"}
    BY <2>5, ItemEffects
  <2>9. QED BY <2>6, <2>7, <2>8
<1>10. QED BY <1>3, <1>4, <1>6, <1>8, <1>9

(* Everything that the continuous assignments compute the net of a cone from,   *)
(* and that is taken out of the tree, is computed when the cone is executed.    *)
LEMMA EntryOfSource ==
    ASSUME NEW D \in Designs, NEW z \in Decls, NEW y \in Sources(D)[z]
    PROVE  y \in Decls /\ \E a \in D.conts : a.tgt = z /\ y \in a.srcs /\ y # z
<1>1. y \in (UNION {c.srcs : c \in {a \in D.conts : a.tgt = z}}) \ {z} /\ y \in Decls
  BY SourcesType
<1>2. y # z /\ \E a \in {c \in D.conts : c.tgt = z} : y \in a.srcs
  BY <1>1, Zenon
<1>3. QED BY <1>1, <1>2

LEMMA DriversExecuted ==
    ASSUME NEW D \in Designs, TypeOK, FilledInv(D), HostsInv, phase = "refine",
           NEW rank \in Ranks, RankInv(rank), NEW d \in cones, wasLhsContinuous[d],
           NEW z \in Closure(Sources(D), {d}), wasLhsContinuous[z]
    PROVE  \E b \in Executed(d) : \E j \in DOMAIN body[b] :
               body[b][j].op = "assign" /\ body[b][j].asg.tgt = z /\ HasDrivers(D, b, body[b])
<1> DEFINE Set(b, y) == HasDrivers(D, b, body[b]) /\ Assigns(body[b], y)
           T == {y \in Decls : wasLhsContinuous[y] => \E b \in Executed(d) : Set(b, y)}
<1>1. d \in Decls /\ {d} \in SUBSET Decls /\ T \in SUBSET Decls
  BY DEF TypeOK
<1>2. d \in T
  <2>1. d \in Executed(d)
    BY <1>1, ExecutedFacts
  <2>2. QED BY <1>1, <2>1, ComputesItsNet
<1>3. IsClosed(Sources(D), T)
  <2> SUFFICES ASSUME NEW x \in T, NEW y \in Sources(D)[x], wasLhsContinuous[y]
               PROVE  \E b \in Executed(d) : Set(b, y)
    BY SourcesType DEF IsClosed
  <2>1. y \in Decls /\ x \in Decls /\ wasLhsContinuous[x]
    BY EntryOfSource DEF FilledInv, NetsInv
  <2>2. PICK a \in D.conts : a.tgt = x /\ y \in a.srcs /\ y # x
    BY <2>1, EntryOfSource
  <2>3. PICK b \in Executed(d) : Set(b, x)
    BY <2>1
  <2>4. b \in Decls /\ CalledBy(b) \subseteq Executed(d)
    BY <1>1, ExecutedFacts
  <2>5. PICK j \in DOMAIN body[b] : body[b][j].op = "assign" /\ body[b][j].asg = a
    BY <2>2, <2>3 DEF HasDrivers
  <2>6. \/ SetsBefore(body[b], j, y)
        \/ y \in cones /\ \E m \in 1 .. j - 1 : m \in DOMAIN body[b] /\ body[b][m] = [op |-> "call", cone |-> y]
    BY <2>1, <2>2, <2>4, <2>5, ComputedInTime
  <2>7. CASE SetsBefore(body[b], j, y)
    BY <2>3, <2>7 DEF SetsBefore, Assigns
  <2>8. CASE y \in cones /\ \E m \in 1 .. j - 1 : m \in DOMAIN body[b] /\ body[b][m] = [op |-> "call", cone |-> y]
    <3>1. y \in CalledBy(b)
      BY <2>8 DEF CalledBy
    <3>2. Set(y, y)
      BY <2>8, ComputesItsNet
    <3>3. QED BY <2>4, <3>1, <3>2
  <2>9. QED BY <2>6, <2>7, <2>8
<1>4. z \in T
  <2> HIDE DEF T
  <2>1. QED BY <1>1, <1>2, <1>3, SourcesType, ClosureFacts
<1>5. QED BY <1>4 DEF Assigns

(* What the cone reads anywhere and nothing computes, it reads before anything  *)
(* sets it: at the first entry that reads it, itself or through a call.         *)
LEMMA LeastNat ==
    ASSUME NEW S, S \subseteq Nat, S # {}
    PROVE  \E n \in S : \A m \in S : n <= m
<1>1. PICK n \in S : \A m \in S : <<m, n>> \notin OpToRel(<, Nat)
  BY NatLessThanWellFounded, WFMin
<1>2. ASSUME NEW m \in S PROVE n <= m
  <2>1. m \in Nat /\ n \in Nat
    OBVIOUS
  <2>2. ~(m < n)
    BY <1>1, <2>1 DEF OpToRel
  <2>3. QED BY <2>1, <2>2
<1>3. QED BY <1>2

Reads(s, c) == \E b \in Executed(c) : \E j \in DOMAIN body[b] : s \in ReadBy(body[b][j])

LEMMA SetIsRead ==
    ASSUME NEW D \in Designs, TypeOK, FilledInv(D), NEW rank \in Ranks, RankInv(rank),
           NEW s, ~wasLhsContinuous[s], NEW c \in Decls, NEW i \in DOMAIN body[c], s \in SetBy(body[c][i])
    PROVE  s \in ReadBy(body[c][i])
<1>1. PICK it : it = body[c][i]
  OBVIOUS
<1>2. it.op \in {"assign", "call", "refresh"} /\ (it.op = "assign" => wasLhsContinuous[it.asg.tgt])
  BY <1>1, EntryFacts
<1>3. s \in SetBy(it)
  BY <1>1
<1>4. s \in ReadBy(it)
  BY <1>2, <1>3, ItemEffects
<1>5. QED BY <1>1, <1>4

LEMMA FirstRead ==
    ASSUME NEW D \in Designs, TypeOK, FilledInv(D), NEW rank \in Ranks, RankInv(rank),
           NEW s \in Decls, ~wasLhsContinuous[s], NEW c \in Decls, Reads(s, c)
    PROVE  \E i \in DOMAIN body[c] :
               /\ ~ComputedBefore(s, c, i)
               /\ \/ s \in ReadBy(body[c][i])
                  \/ body[c][i].op = "call" /\ Reads(s, body[c][i].cone)
<1> DEFINE Hits == {i \in DOMAIN body[c] : \/ s \in ReadBy(body[c][i])
                                           \/ body[c][i].op = "call" /\ Reads(s, body[c][i].cone)}
<1>1. Hits # {}
  <2>1. PICK b \in Executed(c) : \E j \in DOMAIN body[b] : s \in ReadBy(body[b][j])
    BY DEF Reads
  <2>2. CASE b = c
    BY <2>1, <2>2
  <2>3. CASE \E y \in CalledBy(c) : b \in Executed(y)
    <3>1. PICK y \in CalledBy(c) : b \in Executed(y)
      BY <2>3
    <3>2. PICK i \in DOMAIN body[c] : body[c][i].op = "call" /\ body[c][i].cone = y
      BY <3>1 DEF CalledBy
    <3>3. Reads(s, y)
      BY <2>1, <3>1 DEF Reads
    <3>4. QED BY <3>2, <3>3
  <2>4. QED BY <2>2, <2>3, ExecutedFacts
<1>2. \A i \in DOMAIN body[c] : i \in Nat
  BY EntryFacts
<1>3. PICK n \in Hits : \A m \in Hits : n <= m
  BY <1>1, <1>2, LeastNat
<1>4. ASSUME ComputedBefore(s, c, n) PROVE FALSE
  <2>1. PICK j \in 1 .. n - 1 :
            \/ s \in SetBy(body[c][j])
            \/ body[c][j].op = "call" /\ s \in Computes(body[c][j].cone)
    BY <1>4 DEF ComputedBefore
  <2>2. j \in DOMAIN body[c] /\ j < n
    <3>1. n \in Nat /\ n \in DOMAIN body[c] /\ DOMAIN body[c] = 1 .. Len(body[c]) /\ Len(body[c]) \in Nat
      BY EntryFacts
    <3>2. QED BY <3>1
  <2>3. j \notin Hits
    BY <1>2, <1>3, <2>2
  <2>4. s \notin SetBy(body[c][j])
    BY <2>2, <2>3, SetIsRead
  <2>5. PICK y : y = body[c][j].cone /\ body[c][j].op = "call" /\ s \in Computes(y)
    BY <2>1, <2>4
  <2>6. y \in Decls
    BY <2>2, <2>5, EntryFacts DEF TypeOK
  <2>7. PICK b \in Executed(y) : \E i \in DOMAIN body[b] : s \in SetBy(body[b][i])
    BY <2>5 DEF Computes
  <2>8. b \in Decls
    BY <2>6, ExecutedFacts
  <2>9. Reads(s, y)
    BY <2>7, <2>8, SetIsRead DEF Reads
  <2>10. QED BY <2>2, <2>3, <2>5, <2>9
<1>5. QED BY <1>3, <1>4

LEMMA ReadIsExposed ==
    ASSUME NEW D \in Designs, TypeOK, FilledInv(D), NEW rank \in Ranks, RankInv(rank),
           NEW s \in Decls, ~wasLhsContinuous[s], NEW d \in Decls, Reads(s, d)
    PROVE  s \in Exposes(d)
<1> DEFINE Shows(c) == \E e \in Closure(EntersWithout(s), {c}) : \E i \in DOMAIN body[e] :
                           s \in ReadBy(body[e][i]) /\ ~ComputedBefore(s, e, i)
           Bad == {c \in Decls : Reads(s, c) /\ ~Shows(c)}
<1>1. Bad = {}
  <2>1. SUFFICES ASSUME Bad # {} PROVE FALSE
    OBVIOUS
  <2>2. \A c \in Decls : rank[c] \in Nat
    BY RankType
  <2>3. PICK S : S = {rank[c] : c \in Bad}
    OBVIOUS
  <2>4. S \subseteq Nat /\ S # {}
    BY <2>1, <2>2, <2>3
  <2>5. PICK n \in S : \A m \in S : n <= m
    BY <2>4, LeastNat
  <2>6. PICK c \in Bad : rank[c] = n
    BY <2>3, <2>5
  <2>7. PICK i \in DOMAIN body[c] :
            /\ ~ComputedBefore(s, c, i)
            /\ \/ s \in ReadBy(body[c][i])
               \/ body[c][i].op = "call" /\ Reads(s, body[c][i].cone)
    BY <2>6, FirstRead
  <2>8. c \in Decls /\ ~Shows(c) /\ {c} \in SUBSET Decls
    BY <2>6
  <2>9. c \in Closure(EntersWithout(s), {c}) /\ IsClosed(EntersWithout(s), Closure(EntersWithout(s), {c}))
    BY <2>8, EntersType, ClosureFacts
  <2>10. s \notin ReadBy(body[c][i])
    BY <2>7, <2>8, <2>9
  <2>11. PICK y : y = body[c][i].cone /\ body[c][i].op = "call" /\ Reads(s, y)
    BY <2>7, <2>10
  <2>12. y \in Decls /\ rank[y] < rank[c]
    BY <2>8, <2>11, EntryFacts DEF TypeOK
  <2>13. y \in EntersWithout(s)[c]
    BY <2>7, <2>8, <2>11 DEF EntersWithout
  <2>14. {y} \in SUBSET Decls /\ {y} \subseteq Closure(EntersWithout(s), {c})
    BY <2>9, <2>12, <2>13 DEF IsClosed
  <2>15. Closure(EntersWithout(s), {y}) \subseteq Closure(EntersWithout(s), {c})
    BY <2>8, <2>14, EntersType, ClosureMono
  <2>16. ~Shows(y)
    BY <2>8, <2>15
  <2>17. y \in Bad
    BY <2>11, <2>12, <2>16
  <2>18. rank[c] <= rank[y]
    BY <2>3, <2>5, <2>6, <2>17
  <2>19. QED BY <2>2, <2>8, <2>12, <2>18
<1>2. Shows(d)
  BY <1>1
<1>3. QED BY <1>2 DEF Exposes
(* The continuous assignments that are left have the targets that were not      *)
(* taken out, and only these.                                                   *)
LEMMA TreeOnExit ==
    ASSUME NEW D \in Designs, ContsInv, NetsInv(D), phase = "refine"
    PROVE  /\ SourcesIn(conts) \in [Decls -> SUBSET Decls]
           /\ \A z \in Decls : SourcesIn(conts)[z] = IF wasLhsContinuous[z] THEN {} ELSE Sources(D)[z]
           /\ \A s \in Decls : (\E c \in conts : c.tgt = s) <=> Driven(D, s) /\ ~wasLhsContinuous[s]
<1>1. \A c : c \in conts <=> c \in D.conts /\ ~wasLhsContinuous[c.tgt]
  BY DEF ContsInv, NetsInv
<1>2. \A s \in Decls : (\E c \in conts : c.tgt = s) <=> Driven(D, s) /\ ~wasLhsContinuous[s]
  BY <1>1 DEF Driven
<1>3. \A z \in Decls : SourcesIn(conts)[z] = (UNION {c.srcs : c \in {a \in conts : a.tgt = z}}) \ {z}
  BY DEF SourcesIn
<1>4. ASSUME NEW z \in Decls, wasLhsContinuous[z] PROVE SourcesIn(conts)[z] = {}
  <2>1. {a \in conts : a.tgt = z} = {}
    BY <1>1, <1>4
  <2>2. QED BY <1>3, <2>1
<1>5. ASSUME NEW z \in Decls, ~wasLhsContinuous[z] PROVE SourcesIn(conts)[z] = Sources(D)[z]
  <2>1. {a \in conts : a.tgt = z} = {a \in D.conts : a.tgt = z}
    BY <1>1, <1>5
  <2>2. Sources(D)[z] = (UNION {c.srcs : c \in {a \in D.conts : a.tgt = z}}) \ {z}
    BY SourcesType
  <2>3. QED BY <1>3, <2>1, <2>2
<1>6. \A z \in Decls : SourcesIn(conts)[z] \in SUBSET Decls
  BY <1>4, <1>5, SourcesType
<1>7. SourcesIn(conts) \in [Decls -> SUBSET Decls]
  BY <1>6 DEF SourcesIn
<1>8. QED BY <1>2, <1>4, <1>5, <1>7

(* A cone adds no root to its net ... *)
LEMMA NoStaleRoot ==
    ASSUME NEW D \in Designs, TypeOK, ContsInv, FilledInv(D), HostsInv, phase = "refine",
           NEW rank \in Ranks, RankInv(rank), NEW d \in Decls
    PROVE  RootsIn(conts, Exposes(d)) \subseteq RootsIn(D.conts, {d})
<1>1. NetsInv(D) /\ {d} \in SUBSET Decls /\ Exposes(d) \in SUBSET Decls
  BY DEF FilledInv, Exposes
<1>2. PICK succ \in [Decls -> SUBSET Decls] : succ = SourcesIn(conts)
  BY <1>1, TreeOnExit
<1>3. \A z \in Decls : succ[z] = IF wasLhsContinuous[z] THEN {} ELSE Sources(D)[z]
  BY <1>1, <1>2, TreeOnExit
<1>4. PICK T \in SUBSET Decls : T = Closure(Sources(D), {d})
  BY <1>1, SourcesType, ClosureFacts
<1>5. PICK L \in SUBSET Decls : L = {z \in T : ~wasLhsContinuous[z]}
  OBVIOUS
<1>6. IsClosed(Sources(D), T)
  BY <1>1, <1>4, SourcesType, ClosureFacts
<1>7. Exposes(d) \subseteq L
  BY <1>4, <1>5, ExposedReached
<1>8. IsClosed(succ, L)
  <2> SUFFICES ASSUME NEW z \in L, NEW y \in succ[z] PROVE y \in L
    BY DEF IsClosed
  <2>1. z \in Decls /\ z \in T /\ ~wasLhsContinuous[z]
    BY <1>5
  <2>2. y \in Sources(D)[z]
    BY <1>3, <2>1
  <2>3. y \in T
    BY <1>6, <2>1, <2>2 DEF IsClosed
  <2>4. ~wasLhsContinuous[y]
    BY <1>1, <2>1, <2>2 DEF NetsInv
  <2>5. QED BY <1>5, <2>3, <2>4
<1>9. Closure(succ, Exposes(d)) \subseteq L
  BY <1>1, <1>7, <1>8, ClosureFacts
<1>10. ASSUME NEW x \in RootsIn(conts, Exposes(d)) PROVE x \in RootsIn(D.conts, {d})
  <2>1. x \in L /\ \A c \in conts : c.tgt # x
    BY <1>2, <1>9 DEF RootsIn
  <2>2. ~Driven(D, x)
    BY <1>1, <1>5, <2>1, TreeOnExit
  <2>3. QED BY <1>4, <1>5, <2>1, <2>2 DEF RootsIn, Driven, Sources
<1>11. QED BY <1>10

(* ... and loses none. *)
LEMMA NoLostRoot ==
    ASSUME NEW D \in Designs, TypeOK, ContsInv, FilledInv(D), HostsInv, phase = "refine",
           NEW rank \in Ranks, RankInv(rank), NEW d \in cones, wasLhsContinuous[d]
    PROVE  RootsIn(D.conts, {d}) \subseteq RootsIn(conts, Exposes(d))
<1>1. /\ NetsInv(D) /\ d \in Decls /\ {d} \in SUBSET Decls /\ Exposes(d) \in SUBSET Decls
      /\ d \in Closure(Sources(D), {d})
  BY SelfReached DEF FilledInv, Exposes, TypeOK
<1>2. PICK succ \in [Decls -> SUBSET Decls] : succ = SourcesIn(conts)
  BY <1>1, TreeOnExit
<1>3. \A z \in Decls : succ[z] = IF wasLhsContinuous[z] THEN {} ELSE Sources(D)[z]
  BY <1>1, <1>2, TreeOnExit
<1>4. PICK X \in SUBSET Decls : X = Closure(succ, Exposes(d))
  BY <1>1, ClosureFacts
<1>5. Exposes(d) \subseteq X /\ IsClosed(succ, X)
  BY <1>1, <1>4, ClosureFacts
<1>6. PICK T \in SUBSET Decls : T = Closure(Sources(D), {d})
  BY <1>1, SourcesType, ClosureFacts
<1>7. IsClosed(Sources(D), T)
  BY <1>1, <1>6, SourcesType, ClosureFacts
<1>8. PICK U \in SUBSET Decls : U = {z \in T : wasLhsContinuous[z]} \cup {z \in X : ~wasLhsContinuous[z]}
  OBVIOUS
<1>9. ASSUME NEW z \in T, wasLhsContinuous[z], NEW y \in Sources(D)[z], ~wasLhsContinuous[y]
      PROVE  y \in X
  <2>1. z \in Decls /\ y \in Decls
    BY EntryOfSource
  <2>2. PICK a \in D.conts : a.tgt = z /\ y \in a.srcs /\ y # z
    BY <2>1, EntryOfSource
  <2>3. PICK b \in Executed(d) : HasDrivers(D, b, body[b]) /\ Assigns(body[b], z)
    BY <1>6, <1>9, DriversExecuted DEF Assigns
  <2>4. PICK j \in DOMAIN body[b] : body[b][j].op = "assign" /\ body[b][j].asg = a
    BY <2>2, <2>3 DEF HasDrivers
  <2>5. y \in ReadBy(body[b][j])
    BY <2>2, <2>4, ItemEffects
  <2>6. Reads(y, d)
    BY <2>3, <2>5 DEF Reads
  <2>7. QED BY <1>1, <1>5, <1>9, <2>1, <2>6, ReadIsExposed
<1>10. IsClosed(Sources(D), U)
  <2> SUFFICES ASSUME NEW z \in U, NEW y \in Sources(D)[z] PROVE y \in U
    BY DEF IsClosed
  <2>1. z \in Decls /\ y \in Decls
    BY EntryOfSource
  <2>2. CASE z \in T /\ wasLhsContinuous[z]
    <3>1. y \in T
      BY <1>7, <2>2 DEF IsClosed
    <3>2. QED BY <1>8, <1>9, <2>2, <3>1
  <2>3. CASE z \in X /\ ~wasLhsContinuous[z]
    <3>1. y \in X
      BY <1>3, <1>5, <2>1, <2>3 DEF IsClosed
    <3>2. ~wasLhsContinuous[y]
      BY <1>1, <2>1, <2>3 DEF NetsInv
    <3>3. QED BY <1>8, <3>1, <3>2
  <2>4. QED BY <1>8, <2>2, <2>3
<1>11. d \in U
  BY <1>1, <1>6, <1>8
<1>12. T \subseteq U
  BY <1>1, <1>6, <1>10, <1>11, SourcesType, ClosureFacts
<1>13. ASSUME NEW x \in RootsIn(D.conts, {d}) PROVE x \in RootsIn(conts, Exposes(d))
  <2>1. x \in T /\ ~Driven(D, x)
    BY <1>6 DEF RootsIn, Driven, Sources
  <2>2. ~wasLhsContinuous[x]
    BY <1>1, <2>1 DEF NetsInv
  <2>3. x \in X
    BY <1>8, <1>12, <2>1, <2>2
  <2>4. \A c \in conts : c.tgt # x
    BY <1>1, <2>1, TreeOnExit
  <2>5. QED BY <1>2, <1>4, <2>3, <2>4 DEF RootsIn
<1>14. QED BY <1>13

(* A cone gives its net the value that the continuous assignments gave it. It   *)
(* holds every assignment of every net it sets, and whatever these read has     *)
(* been recomputed before, by an earlier entry or by the cone that is called;   *)
(* what is read without that is still driven in the tree, or is a root. Where a *)
(* process assigns a net that continuous assignments drive as well, the cone is *)
(* not filled in this way, and the theorem leaves these designs to section 5    *)
(* of the README.                                                               *)
THEOREM ConesRecompute ==
    ASSUME \A D \in Designs : NoMixedTargets(D)
    PROVE  Step3Spec => []ConesComputeTheirTarget
<1> DEFINE Kept == \E D \in Designs : FilledInv(D)
<1>1. Step3Init => Kept /\ HostsInv /\ CallsInv
  BY FilledInit, InitRank DEF Step3Init, Init, HostsInv
<1>2. RefineTypeOK /\ ContsInv /\ HostsInv /\ CallsInv /\ Kept /\ [Step3Next]_step3Vars
          => Kept' /\ HostsInv' /\ CallsInv'
  <2> SUFFICES ASSUME RefineTypeOK, ContsInv, HostsInv, [Step3Next]_step3Vars,
                      NEW rank \in Ranks, RankInv(rank), NEW D \in Designs, FilledInv(D)
               PROVE  FilledInv(D)' /\ HostsInv' /\ RankInv(rank)'
    BY DEF CallsInv
  <2>1. TypeOK /\ TypeOK'
    BY Step3Type DEF RefineTypeOK
  <2>2. QED BY <2>1, FilledStep, StepHosts, StepRankToEnd
<1>3. RefineTypeOK /\ ContsInv /\ HostsInv /\ CallsInv /\ Kept => ConesComputeTheirTarget
  <2> SUFFICES ASSUME TypeOK, ContsInv, HostsInv, NEW rank \in Ranks, RankInv(rank),
                      NEW D \in Designs, FilledInv(D), phase = "refine",
                      NEW d \in cones, ~AssignedByProcess(d)
               PROVE  d \in Computes(d) /\ RootsIn(conts, Exposes(d)) = RootsIn(design.conts, {d})
    BY DEF ConesComputeTheirTarget, OnExit, RefineTypeOK, CallsInv
  <2>1. design = D /\ d \in Decls
    BY DEF FilledInv, NetsInv, TypeOK
  <2>2. wasLhsContinuous[d]
    BY <2>1 DEF FilledInv, BodiesInv, AssignedByProcess, UsesOnEntry, EntryUses
  <2>3. d \in Computes(d)
    BY <2>2, ComputesItsNet
  <2>4. QED BY <2>1, <2>2, <2>3, NoStaleRoot, NoLostRoot
<1>4. RefineTypeOK /\ ContsInv /\ [Step3Next]_step3Vars => RefineTypeOK' /\ ContsInv'
  BY Step3Type
<1>5. QED BY InitStep3, <1>1, <1>2, <1>3, <1>4, PTL DEF Step3Spec
=============================================================================
