------------------------- MODULE PrerefineFixes_proofs -------------------------
(****************************************************************************)
(* Proofs about PrerefineFixes: types, the ports fixLogicCones is given, and   *)
(* the sensitivities of the processes made from global actions, for every      *)
(* design and every order of the reference map.                               *)
(****************************************************************************)
EXTENDS PrerefineFixes, TLAPS

(* What references name. *)
LEMMA NamesTyped == \A d \in Decls : Own(d) \in Names /\ OutSig(d) \in Names
BY DEF Own, OutSig, Names

THEOREM TypeCorrect == Spec => []TypeOK
<1>1. Init => TypeOK
  <2> SUFFICES ASSUME Init PROVE TypeOK
    OBVIOUS
  <2>1. WellFormed(design)
    BY DesignsAssumption DEF Init
  <2>2. /\ target \in [Assigns -> Names] /\ reads \in [Assigns -> SUBSET Names]
        /\ watched \in [Watchers -> SUBSET Names] /\ sens \in [Assigns -> SUBSET Names]
    BY <2>1, NamesTyped DEF Init, WellFormed
  <2>3. QED BY <2>1, <2>2 DEF Init, TypeOK, WellFormed, Phases
<1>2. TypeOK /\ [Next]_vars => TypeOK'
  <2> SUFFICES ASSUME TypeOK, [Next]_vars PROVE TypeOK'
    OBVIOUS
  <2> USE DEF TypeOK, WellFormed
  <2>1. ASSUME NEW d \in Decls, fixUnreferenced(d) PROVE TypeOK'
    BY <2>1 DEF fixUnreferenced, Visits, Phases, DeclKinds
  <2>2. ASSUME NEW p \in Decls, SkipPort(p) PROVE TypeOK'
    BY <2>2 DEF SkipPort, Visits
  <2>3. ASSUME NEW p \in Decls, AssignByProcess(p) PROVE TypeOK'
    BY <2>3 DEF AssignByProcess, Visits, AssignKinds
  <2>4. ASSUME NEW p \in Decls, ReplaceByOutSig(p) PROVE TypeOK'
    <3>1. ASSUME NEW S, S \subseteq Names PROVE Renamed(p, S) \subseteq Names
      BY <3>1, NamesTyped DEF Renamed
    <3>2. reads' \in [Assigns -> SUBSET Names] /\ sens' \in [Assigns -> SUBSET Names]
      BY <2>4, <3>1 DEF ReplaceByOutSig, RenamedLists
    <3>3. watched' \in [Watchers -> SUBSET Names]
      BY <2>4, <3>1 DEF ReplaceByOutSig
    <3>4. target' \in [Assigns -> Names]
      BY <2>4, NamesTyped DEF ReplaceByOutSig
    <3>5. QED BY <2>4, <3>2, <3>3, <3>4 DEF ReplaceByOutSig, Visits, IsOutputPort
  <2>5. ASSUME NEW d \in Decls, performChecks(d) PROVE TypeOK'
    BY <2>5 DEF performChecks, Visits, AssignKinds
  <2>6. CASE EndLoop
    BY <2>6 DEF EndLoop, Following, Phases
  <2>7. CASE UNCHANGED vars
    BY <2>7 DEF vars
  <2>8. QED BY <2>1, <2>2, <2>3, <2>4, <2>5, <2>6, <2>7
         DEF Next, prerefineFixes, fixOutputPorts, Returned
<1>3. QED BY <1>1, <1>2, PTL DEF Spec

(* A global action that became a process is sensitive to what it reads.        *)
WakeInv ==
    \A a \in Assigns : IF how[a] = "continuous" THEN sens[a] = {}
                       ELSE design.how[a] = "continuous" => sens[a] = reads[a]

THEOREM MadeProcessesAreSensitive == Spec => []MadeProcessesWakeOnReads
<1>1. Init => WakeInv
  BY DEF Init, WakeInv
<1>2. TypeOK /\ WakeInv /\ [Next]_vars => WakeInv'
  <2> SUFFICES ASSUME TypeOK, WakeInv, [Next]_vars PROVE WakeInv'
    OBVIOUS
  <2> USE DEF TypeOK
  <2>1. ASSUME NEW p \in Decls, AssignByProcess(p) PROVE WakeInv'
    BY <2>1 DEF AssignByProcess, ToNonBlocking, ToGlobal, continuousTargets, WakeInv
  <2>2. ASSUME NEW p \in Decls, ReplaceByOutSig(p) PROVE WakeInv'
    <3>1. \A a \in Assigns : reads'[a] = Renamed(p, reads[a]) /\ sens'[a] = Renamed(p, sens[a])
      BY <2>2 DEF ReplaceByOutSig, RenamedLists
    <3>2. Renamed(p, {}) = {}
      BY DEF Renamed
    <3>3. QED BY <2>2, <3>1, <3>2 DEF ReplaceByOutSig, WakeInv
  <2>3. ASSUME NEW d \in Decls, performChecks(d) PROVE WakeInv'
    BY <2>3 DEF performChecks, WakeInv
  <2>4. CASE \/ \E d \in Decls : fixUnreferenced(d) \/ SkipPort(d)
             \/ EndLoop \/ UNCHANGED vars
    BY <2>4 DEF fixUnreferenced, SkipPort, EndLoop, vars, WakeInv
  <2>5. QED BY <2>1, <2>2, <2>3, <2>4 DEF Next, prerefineFixes, fixOutputPorts, Returned
<1>3. TypeOK /\ WakeInv => MadeProcessesWakeOnReads
  BY DEF TypeOK, WakeInv, MadeProcessesWakeOnReads
<1>4. QED BY <1>1, <1>2, <1>3, TypeCorrect, PTL DEF Spec

(* What is established for a port once fixOutputPorts has visited it. No later  *)
(* step undoes it: no visit makes an assignment of a port blocking, and no      *)
(* reference returns from a signal to its port.                                *)
Settled(p) ==
    /\ continuousTargets(p) = {}
    /\ p \in updated => \A a \in Assigns : target[a] # Own(p)

PortsInv ==
    /\ phase \in {"unreferenced", "ports"} => \A p \in updated : phase = "ports" /\ p \notin todo
    /\ \A p \in Decls :
          kind[p] = "port" /\ (phase \in {"checks", "done"} \/ (phase = "ports" /\ p \notin todo))
              => Settled(p)

(* The names of the tree and of the new signals differ. *)
LEMMA NamesDiffer == \A d, e \in Decls : Own(d) # OutSig(e) /\ (Own(d) = Own(e) => d = e)
<1>1. \A d, e \in Decls : Own(d).out_sig # OutSig(e).out_sig
  BY DEF Own, OutSig
<1>2. \A d, e \in Decls : Own(d).decl = d /\ Own(e).decl = e
  BY DEF Own
<1>3. QED BY <1>1, <1>2

(* A visit of another port leaves a settled port settled. *)
LEMMA OtherVisits ==
    ASSUME TypeOK, NEW p \in Decls, NEW q \in Decls, p # q, fixOutputPorts(q)
    PROVE  /\ continuousTargets(p) = {} => continuousTargets(p)' = {}
           /\ \A a \in Assigns : target'[a] = Own(p) <=> target[a] = Own(p)
           /\ p \in updated' <=> p \in updated
<1> USE DEF TypeOK
<1>1. CASE SkipPort(q)
  BY <1>1 DEF SkipPort, continuousTargets
<1>2. CASE AssignByProcess(q)
  BY <1>2 DEF AssignByProcess, continuousTargets
<1>3. CASE ReplaceByOutSig(q)
  BY <1>3, NamesDiffer DEF ReplaceByOutSig, continuousTargets
<1>4. QED BY <1>1, <1>2, <1>3 DEF fixOutputPorts

(* The visit of a port settles it, if no earlier step replaced it.             *)
LEMMA OwnVisit ==
    ASSUME TypeOK, NEW p \in Decls, fixOutputPorts(p), kind[p] = "port", p \notin updated
    PROVE  Settled(p)'
<1> USE DEF TypeOK
<1>1. CASE SkipPort(p)
  BY <1>1 DEF SkipPort, IsOutputPort, continuousTargets, Settled
<1>2. CASE AssignByProcess(p)
  BY <1>2 DEF AssignByProcess, ToNonBlocking, continuousTargets, Settled
<1>3. CASE ReplaceByOutSig(p)
  BY <1>3, NamesDiffer DEF ReplaceByOutSig, continuousTargets, Settled
<1>4. QED BY <1>1, <1>2, <1>3 DEF fixOutputPorts

THEOREM NoPortIsAssignedContinuously == Spec => []PortsAreAssignedByProcesses
<1>1. Init => PortsInv
  BY DEF Init, PortsInv
<1>2. TypeOK /\ PortsInv /\ [Next]_vars => PortsInv'
  <2> SUFFICES ASSUME TypeOK, PortsInv, [Next]_vars PROVE PortsInv'
    OBVIOUS
  <2> USE DEF TypeOK
  <2>1. ASSUME NEW q \in Decls, fixOutputPorts(q) PROVE PortsInv'
    <3>1. /\ phase = "ports" /\ phase' = "ports" /\ q \in todo /\ todo' = todo \ {q}
          /\ kind' = kind /\ updated' \subseteq updated \cup {q}
      BY <2>1 DEF fixOutputPorts, SkipPort, AssignByProcess, ReplaceByOutSig, Visits
    <3>2. q \notin updated
      BY <3>1 DEF PortsInv
    <3>3. ASSUME NEW p \in Decls, kind[p] = "port", p \notin todo' PROVE Settled(p)'
      <4>1. CASE p = q
        BY <2>1, <3>2, <3>3, <4>1, OwnVisit
      <4>2. CASE p # q
        <5>1. Settled(p)
          BY <3>1, <3>3, <4>2 DEF PortsInv
        <5>2. QED BY <2>1, <4>2, <5>1, OtherVisits DEF Settled
      <4>3. QED BY <4>1, <4>2
    <3>4. QED BY <3>1, <3>3 DEF PortsInv
  <2>2. ASSUME NEW d \in Decls, fixUnreferenced(d) PROVE PortsInv'
    BY <2>2 DEF fixUnreferenced, Visits, PortsInv
  <2>3. ASSUME NEW d \in Decls, performChecks(d) PROVE PortsInv'
    <3>1. phase = "checks" /\ phase' = "checks" /\ kind' = kind /\ target' = target /\ updated' = updated
      BY <2>3 DEF performChecks, Visits
    <3>2. \A a \in Assigns : how'[a] # how[a] => target[a] = Own(d) /\ kind[d] # "port"
      BY <2>3 DEF performChecks, MustBlock
    <3>3. ASSUME NEW p \in Decls, kind[p] = "port", Settled(p) PROVE Settled(p)'
      <4>1. \A a \in Assigns : target[a] = Own(p) => how'[a] = how[a]
        BY <3>2, <3>3 DEF Own
      <4>2. QED BY <3>1, <3>3, <4>1 DEF Settled, continuousTargets
    <3>4. QED BY <3>1, <3>3 DEF PortsInv
  <2>4. CASE EndLoop
    BY <2>4 DEF EndLoop, Following, PortsInv, Settled, continuousTargets
  <2>5. CASE UNCHANGED vars
    BY <2>5 DEF vars, PortsInv, Settled, continuousTargets
  <2>6. QED BY <2>1, <2>2, <2>3, <2>4, <2>5 DEF Next, prerefineFixes, Returned
<1>3. PortsInv => PortsAreAssignedByProcesses
  BY DEF PortsInv, PortsAreAssignedByProcesses, Settled, Done
<1>4. QED BY <1>1, <1>2, <1>3, TypeCorrect, PTL DEF Spec

-----------------------------------------------------------------------------
(* What the tree on entry says of the tree at any later moment.                *)

(* The name a reference to a declaration has now.                              *)
Now(d) == IF d \in updated THEN OutSig(d) ELSE Own(d)

Visited(d) == phase \in {"checks", "done"} \/ (phase = "ports" /\ d \notin todo)

Checked(d) == phase = "done" \/ (phase = "checks" /\ d \notin todo)

Replaced(p) ==
    /\ design.kind[p] = "port" /\ ReadOnEntry(p)
    /\ \E a \in Assigns : design.target[a] = p /\ design.how[a] # "nonblocking"

RenamedInv ==
    /\ \A a \in Assigns : /\ target[a] = Now(design.target[a])
                          /\ reads[a] = {Now(d) : d \in design.reads[a]}
                          /\ sens[a] \subseteq reads[a]
    /\ \A w \in Watchers : watched[w] = {Now(d) : d \in design.watched[w]}

KindInv == \A d \in Decls : kind[d] = "port" <=> design.kind[d] = "port"

ReplacedInv == \A d \in Decls : d \in updated <=> Visited(d) /\ Replaced(d)

(* An assignment changes its kind only in the visit of its target.             *)
HowInv ==
    \A a \in Assigns :
      /\ how[a] # design.how[a] =>
           \/ /\ Visited(design.target[a]) /\ design.kind[design.target[a]] = "port"
              /\ ~ ReadOnEntry(design.target[a])
           \/ phase \in {"checks", "done"} /\ MustBlock(design.target[a])
      /\ MustBlock(design.target[a]) /\ Checked(design.target[a]) => how[a] # "nonblocking"

EntryInv == RenamedInv /\ KindInv /\ ReplacedInv /\ HowInv

LEMMA EntryTyped ==
    ASSUME TypeOK
    PROVE  /\ \A a \in Assigns : design.target[a] \in Decls /\ design.reads[a] \subseteq Decls
           /\ \A w \in Watchers : design.watched[w] \subseteq Decls
  BY DEF TypeOK, WellFormed

(* A port that is not replaced yet is read if it was read on entry.            *)
LEMMA ReadAsOnEntry ==
    ASSUME TypeOK, RenamedInv, NEW p \in Decls, p \notin updated
    PROVE  IsRead(Own(p)) <=> ReadOnEntry(p)
<1>1. \A d \in Decls : Now(d) = Own(p) <=> d = p
  BY NamesDiffer DEF Now
<1>2. \A a \in Assigns : Own(p) \in reads[a] <=> p \in design.reads[a]
  BY <1>1, EntryTyped DEF RenamedInv
<1>3. \A w \in Watchers : Own(p) \in watched[w] <=> p \in design.watched[w]
  BY <1>1, EntryTyped DEF RenamedInv
<1>4. \A a \in Assigns : Own(p) \in sens[a] => Own(p) \in reads[a]
  BY DEF RenamedInv
<1> QED
  BY <1>2, <1>3, <1>4 DEF IsRead, ReadOnEntry

(* So it is replaced if the tree on entry says so.                             *)
LEMMA DecidedOnEntry ==
    ASSUME TypeOK, EntryInv, NEW p \in Decls, phase = "ports", p \in todo
    PROVE  /\ p \notin updated
           /\ IsOutputPort(p) /\ continuousTargets(p) # {} /\ IsRead(Own(p)) <=> Replaced(p)
<1>1. ~ Visited(p)
  BY DEF Visited
<1>2. p \notin updated
  BY <1>1 DEF EntryInv, ReplacedInv
<1>3. \A a \in Assigns : target[a] = Own(p) <=> design.target[a] = p
  BY <1>2, NamesDiffer, EntryTyped DEF EntryInv, RenamedInv, Now
<1>4. \A a \in Assigns : design.target[a] = p => how[a] = design.how[a]
  BY <1>1 DEF EntryInv, HowInv
<1>5. \A a \in Assigns : design.how[a] \in AssignKinds
  BY DEF TypeOK, WellFormed
<1>6. continuousTargets(p) # {} <=>
        \E a \in Assigns : design.target[a] = p /\ design.how[a] # "nonblocking"
  BY <1>3, <1>4, <1>5 DEF continuousTargets, AssignKinds
<1> QED
  BY <1>2, <1>6, ReadAsOnEntry DEF EntryInv, KindInv, IsOutputPort, Replaced

LEMMA RenamedKept ==
    ASSUME RenamedInv, UNCHANGED <<design, target, reads, sens, watched, updated>>
    PROVE  RenamedInv'
  BY DEF RenamedInv, Now

LEMMA EntryInit ==
    ASSUME Init PROVE EntryInv
<1>1. updated = {} /\ phase = "unreferenced"
  BY DEF Init
<1>2. RenamedInv
  <2>1. \A d : Now(d) = Own(d)
    BY <1>1 DEF Now
  <2> QED
    BY <2>1 DEF Init, RenamedInv
<1>3. KindInv /\ ReplacedInv
  BY <1>1 DEF Init, KindInv, ReplacedInv, Visited
<1>4. HowInv
  BY <1>1 DEF Init, HowInv, Checked
<1> QED
  BY <1>2, <1>3, <1>4 DEF EntryInv

LEMMA EntryPorts ==
    ASSUME TypeOK, EntryInv, NEW p \in Decls, fixOutputPorts(p) PROVE EntryInv'
<1>1. /\ phase = "ports" /\ phase' = "ports" /\ p \in todo /\ todo' = todo \ {p}
      /\ design' = design /\ kind' = kind
  BY DEF fixOutputPorts, SkipPort, AssignByProcess, ReplaceByOutSig, Visits
<1>2. /\ p \notin updated
      /\ IsOutputPort(p) /\ continuousTargets(p) # {} /\ IsRead(Own(p)) <=> Replaced(p)
  BY <1>1, DecidedOnEntry
<1>3. /\ \A d \in Decls : Visited(d)' <=> Visited(d) \/ d = p
      /\ \A d \in Decls : Replaced(d)' = Replaced(d)
      /\ \A d \in Decls : ReadOnEntry(d)' = ReadOnEntry(d)
      /\ \A d \in Decls : MustBlock(d)' = MustBlock(d)
  BY <1>1 DEF Visited, Replaced, ReadOnEntry, MustBlock
<1>4. KindInv'
  BY <1>1 DEF EntryInv, KindInv
<1>5. updated' = updated \cup (IF Replaced(p) THEN {p} ELSE {})
  BY <1>2 DEF fixOutputPorts, SkipPort, AssignByProcess, ReplaceByOutSig
<1>6. ReplacedInv'
  <2>1. \A d \in Decls : d \in updated' <=> d \in updated \/ (d = p /\ Replaced(p))
    BY <1>5
  <2> QED
    BY <1>2, <1>3, <2>1 DEF EntryInv, ReplacedInv
<1>7. HowInv'
  <2>1. ASSUME NEW a \in Assigns, how'[a] # design.how[a]
        PROVE  \/ /\ Visited(design.target[a])' /\ design.kind[design.target[a]] = "port"
                  /\ ~ ReadOnEntry(design.target[a])
               \/ phase' \in {"checks", "done"} /\ MustBlock(design.target[a])
    <3>1. CASE how'[a] = how[a]
      BY <1>1, <1>3, <2>1, <3>1, EntryTyped DEF EntryInv, HowInv
    <3>2. CASE how'[a] # how[a]
      <4>1. AssignByProcess(p)
        BY <3>2 DEF fixOutputPorts, SkipPort, ReplaceByOutSig
      <4>2. a \in continuousTargets(p) /\ kind[p] = "port" /\ ~ IsRead(Own(p))
        BY <3>2, <4>1 DEF AssignByProcess, ToNonBlocking, IsOutputPort, TypeOK
      <4>3. design.target[a] = p
        BY <1>2, <4>2, NamesDiffer, EntryTyped DEF continuousTargets, EntryInv, RenamedInv, Now
      <4>4. ~ ReadOnEntry(p)
        BY <1>2, <4>2, ReadAsOnEntry DEF EntryInv
      <4>5. design.kind[p] = "port"
        BY <4>2 DEF EntryInv, KindInv
      <4> QED
        BY <1>1, <1>3, <4>3, <4>4, <4>5, EntryTyped
    <3> QED
      BY <3>1, <3>2
  <2> QED
    BY <1>1, <1>3, <2>1, EntryTyped DEF HowInv, Checked
<1>8. RenamedInv'
  <2>1. CASE SkipPort(p)
    BY <2>1, RenamedKept DEF SkipPort, EntryInv
  <2>2. CASE AssignByProcess(p)
    <3>1. \A a \in Assigns : sens'[a] = reads[a] \/ sens'[a] = sens[a]
      BY <2>2 DEF AssignByProcess
    <3> QED
      BY <2>2, <3>1 DEF AssignByProcess, EntryInv, RenamedInv, Now
  <2>3. CASE ReplaceByOutSig(p)
    <3>1. updated' = updated \cup {p}
      BY <2>3 DEF ReplaceByOutSig
    <3>2. \A d \in Decls : Now(d)' = IF Now(d) = Own(p) THEN OutSig(p) ELSE Now(d)
      <4>1. \A d \in Decls : Now(d) = Own(p) <=> d = p
        BY <1>2, NamesDiffer DEF Now
      <4> QED
        BY <3>1, <4>1 DEF Now
    <3>3. ASSUME NEW S \in SUBSET Decls
          PROVE  Renamed(p, {Now(d) : d \in S}) = {Now(d)' : d \in S}
      BY <3>2 DEF Renamed
    <3>4. \A a \in Assigns : /\ target'[a] = Now(design.target[a])'
                             /\ reads'[a] = {Now(d)' : d \in design.reads[a]}
      <4>1. \A a \in Assigns :
               /\ target'[a] = IF target[a] = Own(p) THEN OutSig(p) ELSE target[a]
               /\ reads'[a] = Renamed(p, reads[a])
        BY <2>3 DEF ReplaceByOutSig
      <4> QED
        BY <1>1, <3>2, <3>3, <4>1, EntryTyped DEF EntryInv, RenamedInv
    <3>5. \A a \in Assigns : sens'[a] \subseteq reads'[a]
      BY <2>3 DEF ReplaceByOutSig, RenamedLists, Renamed, EntryInv, RenamedInv
    <3>6. \A w \in Watchers : watched'[w] = {Now(d)' : d \in design.watched[w]}
      <4>1. \A w \in Watchers : watched'[w] = Renamed(p, watched[w])
        BY <2>3 DEF ReplaceByOutSig
      <4> QED
        BY <1>1, <3>3, <4>1, EntryTyped DEF EntryInv, RenamedInv
    <3> QED
      BY <1>1, <3>4, <3>5, <3>6 DEF RenamedInv
  <2> QED
    BY <2>1, <2>2, <2>3 DEF fixOutputPorts
<1> QED
  BY <1>4, <1>6, <1>7, <1>8 DEF EntryInv

LEMMA EntryUnreferenced ==
    ASSUME TypeOK, EntryInv, NEW d \in Decls, fixUnreferenced(d) PROVE EntryInv'
<1>1. /\ phase = "unreferenced" /\ phase' = "unreferenced"
      /\ UNCHANGED <<design, target, how, reads, watched, sens, updated>>
  BY DEF fixUnreferenced, Visits
<1>2. RenamedInv'
  BY <1>1, RenamedKept DEF EntryInv
<1>3. KindInv'
  BY DEF fixUnreferenced, EntryInv, KindInv, TypeOK
<1>4. ReplacedInv'
  BY <1>1 DEF EntryInv, ReplacedInv, Visited
<1>5. HowInv'
  BY <1>1 DEF EntryInv, HowInv, Visited, Checked
<1> QED
  BY <1>2, <1>3, <1>4, <1>5 DEF EntryInv

LEMMA EntryChecks ==
    ASSUME TypeOK, EntryInv, NEW d \in Decls, performChecks(d) PROVE EntryInv'
<1>1. /\ phase = "checks" /\ phase' = "checks" /\ todo' = todo \ {d}
      /\ UNCHANGED <<design, kind, target, reads, watched, sens, updated>>
  BY DEF performChecks, Visits
<1>2. /\ \A e \in Decls : Visited(e) /\ Visited(e)' /\ Replaced(e)' = Replaced(e)
      /\ \A e \in Decls : ReadOnEntry(e)' = ReadOnEntry(e) /\ MustBlock(e)' = MustBlock(e)
  BY <1>1 DEF Visited, Replaced, ReadOnEntry, MustBlock
<1>3. RenamedInv' /\ KindInv' /\ ReplacedInv'
  <2>1. RenamedInv'
    BY <1>1, RenamedKept DEF EntryInv
  <2>2. KindInv' /\ ReplacedInv'
    BY <1>1, <1>2 DEF EntryInv, KindInv, ReplacedInv
  <2> QED
    BY <2>1, <2>2
<1>4. HowInv'
  <2>1. \A a \in Assigns :
           how'[a] = IF MustBlock(d) /\ target[a] = Own(d) /\ how[a] = "nonblocking"
                     THEN "blocking" ELSE how[a]
    BY DEF performChecks
  <2>2. \A a \in Assigns : MustBlock(d) => (target[a] = Own(d) <=> design.target[a] = d)
    <3>1. MustBlock(d) => d \notin updated
      BY DEF MustBlock, TypeOK
    <3> QED
      BY <3>1, NamesDiffer, EntryTyped DEF EntryInv, RenamedInv, Now
  <2>3. \A a \in Assigns : how'[a] # design.how[a] =>
           \/ /\ design.kind[design.target[a]] = "port" /\ ~ ReadOnEntry(design.target[a])
           \/ MustBlock(design.target[a])
    BY <2>1, <2>2 DEF EntryInv, HowInv
  <2>4. \A a \in Assigns : MustBlock(design.target[a]) /\ design.target[a] \notin todo' =>
           how'[a] # "nonblocking"
    BY <1>1, <2>1, <2>2, EntryTyped DEF EntryInv, HowInv, Checked
  <2> QED
    BY <1>1, <1>2, <2>3, <2>4, EntryTyped DEF HowInv, Checked
<1> QED
  BY <1>3, <1>4 DEF EntryInv

LEMMA EntryEndLoop ==
    ASSUME TypeOK, EntryInv, EndLoop PROVE EntryInv'
<1>1. /\ todo = {} /\ phase \in {"unreferenced", "ports", "checks"} /\ phase' = Following[phase]
      /\ todo' = (IF phase' = "done" THEN {} ELSE Decls)
      /\ UNCHANGED <<design, kind, target, how, reads, watched, sens, updated>>
  BY DEF EndLoop, Following
<1>2. \/ phase = "unreferenced" /\ phase' = "ports"
      \/ phase = "ports" /\ phase' = "checks"
      \/ phase = "checks" /\ phase' = "done"
  BY <1>1 DEF Following
<1>3. /\ \A e \in Decls : (Visited(e)' <=> Visited(e)) /\ Replaced(e)' = Replaced(e)
      /\ \A e \in Decls : ReadOnEntry(e)' = ReadOnEntry(e) /\ MustBlock(e)' = MustBlock(e)
  BY <1>1, <1>2 DEF Visited, Replaced, ReadOnEntry, MustBlock
<1>4. RenamedInv' /\ KindInv' /\ ReplacedInv'
  <2>1. RenamedInv'
    BY <1>1, RenamedKept DEF EntryInv
  <2>2. KindInv' /\ ReplacedInv'
    BY <1>1, <1>3 DEF EntryInv, KindInv, ReplacedInv
  <2> QED
    BY <2>1, <2>2
<1>5. HowInv'
  BY <1>1, <1>2, <1>3, EntryTyped DEF EntryInv, HowInv, Checked
<1> QED
  BY <1>4, <1>5 DEF EntryInv

LEMMA EntryStep ==
    ASSUME TypeOK, EntryInv, [Next]_vars PROVE EntryInv'
<1>1. CASE UNCHANGED vars
  <2>1. RenamedInv' /\ KindInv'
    BY <1>1, RenamedKept DEF vars, EntryInv, KindInv
  <2>2. ReplacedInv' /\ HowInv'
    BY <1>1 DEF vars, EntryInv, ReplacedInv, HowInv, Visited, Checked, Replaced, ReadOnEntry, MustBlock
  <2> QED
    BY <2>1, <2>2 DEF EntryInv
<1> QED
  BY <1>1, EntryUnreferenced, EntryPorts, EntryChecks, EntryEndLoop
  DEF Next, prerefineFixes, Returned

(* What each visit decides is what the tree on entry decides: the references    *)
(* are renamed by now, and only as far as the ports visited so far ask for.     *)
THEOREM EntryInvariant == Spec => []EntryInv
<1>1. Init => EntryInv
  BY EntryInit
<1>2. TypeOK /\ EntryInv /\ [Next]_vars => EntryInv'
  BY EntryStep
<1> QED
  BY <1>1, <1>2, TypeCorrect, PTL DEF Spec

(* The ports that fixOutputPorts replaces by a signal are those the tree on     *)
(* entry reads and assigns immediately, whatever the order of the visits.      *)
THEOREM ReplacementIsFixed == Spec => []ReplacedPortsAreFixed
<1>1. EntryInv /\ TypeOK => ReplacedPortsAreFixed
  BY DEF EntryInv, ReplacedInv, Visited, Replaced, ReplacedPortsAreFixed, Done, TypeOK
<1> QED
  BY <1>1, EntryInvariant, TypeCorrect, PTL

(* performChecks leaves no temporary with a non-blocking assignment, and only   *)
(* the assignments of ports that nobody reads change otherwise.                *)
THEOREM TemporariesAreNeverDelayed == Spec => []TemporariesAreBlocking
<1>1. EntryInv /\ TypeOK => TemporariesAreBlocking
  <2> SUFFICES ASSUME EntryInv, TypeOK, Done, NEW a \in Assigns
               PROVE  IF kind[target[a].decl] \in {"parameter", "variable"} THEN how[a] # "nonblocking"
                      ELSE how[a] # design.how[a] =>
                             /\ design.kind[target[a].decl] = "port"
                             /\ ~ReadOnEntry(target[a].decl)
    BY DEF TemporariesAreBlocking
  <2>1. target[a].decl = design.target[a]
    <3>1. \A d : Now(d).decl = d
      BY DEF Now, Own, OutSig
    <3> QED
      BY <3>1 DEF EntryInv, RenamedInv
  <2> QED
    BY <2>1 DEF EntryInv, HowInv, MustBlock, Done, Checked
<1> QED
  BY <1>1, EntryInvariant, TypeCorrect, PTL
=============================================================================
