------------------------ MODULE InitialProcesses_proofs ------------------------
(****************************************************************************)
(* Proofs about InitialProcesses, for every module: the HIF of step 2 takes   *)
(* no step that the processes of the source may not take, and triggers no     *)
(* event before its processes have started.                                   *)
(****************************************************************************)
EXTENDS InitialProcesses, SequenceTheorems, WellFoundedInduction, TLAPS

AllActions == [from : Nat, nth : Nat]
HifProcesses == [flavour : Flavours, actions : Seq(AllActions), dontInitialize : {FALSE}]

InitialBlock(p) == p \in DOMAIN design /\ design[p].flavour = "pf_initial"
Parsed(p) == ParsedProcess(p).actions
First(p) == Kept(Parsed(p))
Rest(p) == afterWrongStatementActions(Parsed(p))

(* The statements of p that are in initial processes are the first Stays(p).  *)
IsSplit(p) == Splitted(p) \in DOMAIN stateTables
Stays(p) == IF IsSplit(p) THEN First(p) ELSE Len(design[p].body)
Clean(p) == \A k \in 1..Stays(p) : ~_checkWrongStatement(Action(p, k))

IsDistinct(s) == \A m, n \in DOMAIN s : s[m] = s[n] => m = n
In(x, s) == \E n \in DOMAIN s : s[n] = x

IsHdl(st) ==
    /\ st \in DOMAIN design /\ design[st].flavour = "pf_hdl"
    /\ stateTables[st] = ParsedProcess(st)
IsRest(st) ==
    \E p \in DOMAIN design :
        /\ InitialBlock(p) /\ st = Splitted(p)
        /\ stateTables[st] = HifProcess("pf_hdl", Rest(p), FALSE)
IsFirst(st) == InitialBlock(st) /\ stateTables[st].flavour = "pf_initial"

ShapeInv ==
    /\ design \in Designs /\ phase \in Phases
    /\ stateTables \in [DOMAIN stateTables -> HifProcesses]
    /\ \A st \in DOMAIN stateTables : IsFirst(st) \/ IsHdl(st) \/ IsRest(st)

Firsts == {st \in DOMAIN stateTables : InitialBlock(st)}

(* Nothing is lost, added, reordered or scattered.                            *)
Present ==
    \A p \in DOMAIN design : \A k \in 1..Stays(p) :
        InitialBlock(p) => \E st \in Firsts : In(Action(p, k), stateTables[st].actions)
Known ==
    \A st \in Firsts : \A n \in DOMAIN stateTables[st].actions :
        \E p \in DOMAIN design : InitialBlock(p) /\ \E k \in 1..Stays(p) :
            stateTables[st].actions[n] = Action(p, k)
Ordered ==
    \A st \in Firsts : \A m, n \in DOMAIN stateTables[st].actions :
        m < n /\ stateTables[st].actions[m].from = stateTables[st].actions[n].from
        => stateTables[st].actions[m].nth < stateTables[st].actions[n].nth
Gathered ==
    \A st, su \in Firsts :
        \A m \in DOMAIN stateTables[st].actions, n \in DOMAIN stateTables[su].actions :
            stateTables[st].actions[m].from = stateTables[su].actions[n].from => st = su
PartsInv == Present /\ Known /\ Ordered /\ Gathered

CollectInv ==
    phase = "collect" =>
        /\ DOMAIN stateTables = DOMAIN design
        /\ \A p \in DOMAIN design : stateTables[p] = ParsedProcess(p)
        /\ \A n \in DOMAIN initialProcesses : ~In(initialProcesses[n], todo)
        /\ \A p \in DOMAIN design : InitialBlock(p) => In(p, todo) \/ In(p, initialProcesses)
SplitInv ==
    phase = "split" =>
        /\ \A n \in DOMAIN initialProcesses : initialProcesses[n] \in DOMAIN stateTables
        /\ \A n \in DOMAIN todo :
              /\ InitialBlock(todo[n]) /\ todo[n] \in DOMAIN stateTables
              /\ stateTables[todo[n]] = ParsedProcess(todo[n])
              /\ ~IsSplit(todo[n])
        /\ \A p \in DOMAIN design : InitialBlock(p) => In(p, todo) \/ Clean(p)
MergeInv ==
    phase = "merge" => \A n \in DOMAIN todo :
        /\ initialProcesses # <<>>
        /\ Head(initialProcesses) \in DOMAIN stateTables
        /\ Head(initialProcesses) # todo[n]
        /\ InitialBlock(todo[n]) /\ todo[n] \in DOMAIN stateTables
CleanInv ==
    phase \in {"merge", "initial", "run"} =>
        \A p \in DOMAIN design : InitialBlock(p) => Clean(p)
LoopInv ==
    /\ todo \in Seq(DOMAIN design) /\ IsDistinct(todo)
    /\ initialProcesses \in Seq(DOMAIN design) /\ IsDistinct(initialProcesses)
    /\ \A n \in DOMAIN initialProcesses : InitialBlock(initialProcesses[n])
    /\ CollectInv /\ SplitInv /\ MergeInv /\ CleanInv

(* Where the processes are.                                                   *)
BeforeInv ==
    phase \in {"collect", "split", "merge"} =>
        /\ \A st \in DOMAIN stateTables : pc[st] = 1
        /\ \A p \in DOMAIN design : last[p] = 0
InitialInv ==
    phase # "run" =>
        /\ \A st \in (DOMAIN stateTables) \ Firsts : pc[st] = 1
        /\ \A p \in DOMAIN design :
              IF InitialBlock(p) THEN last[p] <= Stays(p) ELSE last[p] = 0
        /\ \A st \in Firsts : \A n \in DOMAIN stateTables[st].actions :
              n < pc[st] <=>
                stateTables[st].actions[n].nth <= last[stateTables[st].actions[n].from]
RunProcessInv ==
    phase = "run" => \A p \in DOMAIN design :
        /\ InitialBlock(p) /\ IsSplit(p) =>
              /\ pc[Splitted(p)] <= Len(Rest(p))
              /\ last[p] + 1 = First(p) + pc[Splitted(p)]
        /\ ~InitialBlock(p) /\ p \in DOMAIN stateTables =>
              pc[p] <= Len(design[p].body) /\ pc[p] = FollowingStatement(p)
ExecInv ==
    /\ pc \in [DOMAIN stateTables -> Nat \ {0}]
    /\ last \in [DOMAIN design -> Nat]
    /\ \A p \in DOMAIN design : last[p] <= Len(design[p].body)
    /\ \A st \in DOMAIN stateTables : pc[st] <= Len(stateTables[st].actions) + 1
    /\ BeforeInv /\ InitialInv /\ RunProcessInv

IInv == ShapeInv /\ PartsInv /\ LoopInv /\ ExecInv

-----------------------------------------------------------------------------
(* The two parts of an initial block.                                         *)
LEMMA MinOfNaturals ==
    ASSUME NEW S \in SUBSET Nat, S # {}
    PROVE  Min(S) \in S /\ \A n \in S : Min(S) <= n
<1>1. PICK m \in S : \A n \in S : ~(<<n, m>> \in OpToRel(<, Nat))
  BY WFMin, NatLessThanWellFounded, Zenon
<1>2. \A n \in S : ~(n < m)
  <2>1. m \in Nat /\ \A n \in S : <<n, m>> \in Nat \X Nat /\ <<n, m>>[1] = n /\ <<n, m>>[2] = m
    OBVIOUS
  <2>2. QED BY <1>1, <2>1, Zenon DEF OpToRel
<1>3. \A n \in S : m <= n
  BY <1>2
<1>4. QED BY <1>3 DEF Min

LEMMA ParsedFacts ==
    ASSUME design \in Designs, NEW p \in DOMAIN design
    PROVE  /\ design \in Seq(SourceProcesses)
           /\ design[p].body \in Seq(Statements) /\ Len(design[p].body) \in Nat
           /\ design[p].flavour \in Flavours
           /\ Parsed(p) \in Seq(AllActions)
           /\ Len(Parsed(p)) = Len(design[p].body)
           /\ \A n \in 1..Len(design[p].body) : Parsed(p)[n] = Action(p, n)
<1>1. design \in Seq(SourceProcesses) /\ design[p] \in SourceProcesses
  BY DesignsAssumption DEF WellFormed
<1>2. DOMAIN design[p].body = 1..Len(design[p].body) /\ Len(design[p].body) \in Nat
  BY <1>1 DEF SourceProcesses
<1>3. p \in Nat
  BY <1>1
<1>4. Parsed(p) = [n \in 1..Len(design[p].body) |-> Action(p, n)]
  BY <1>2 DEF Parsed, ParsedProcess, HifProcess
<1>5. \A n \in 1..Len(design[p].body) : Action(p, n) \in AllActions
  BY <1>2, <1>3 DEF Action, AllActions
<1>6. Parsed(p) \in Seq(AllActions) /\ Len(Parsed(p)) = Len(design[p].body)
  BY <1>2, <1>4, <1>5
<1>7. QED BY <1>1, <1>2, <1>4, <1>6 DEF SourceProcesses

LEMMA FirstFacts ==
    ASSUME design \in Designs, NEW p \in DOMAIN design
    PROVE  /\ First(p) \in 0..Len(design[p].body)
           /\ \A k \in 1..First(p) : ~_checkWrongStatement(Action(p, k))
           /\ Wrong(Parsed(p)) = {} => First(p) = Len(design[p].body)
<1> DEFINE W == Wrong(Parsed(p))
           L == Len(design[p].body)
<1>1. L \in Nat /\ Len(Parsed(p)) = L /\ DOMAIN Parsed(p) = 1..L
      /\ \A n \in 1..L : Parsed(p)[n] = Action(p, n)
  BY ParsedFacts
<1>2. W \subseteq 1..L /\ \A n \in 1..L : n \in W <=> _checkWrongStatement(Action(p, n))
  BY <1>1 DEF Wrong
<1>3. CASE W = {}
  BY <1>1, <1>2, <1>3 DEF First, Kept
<1>4. CASE W # {}
  <2>1. Min(W) \in W /\ \A n \in W : Min(W) <= n
    BY <1>1, <1>2, <1>4, MinOfNaturals
  <2>2. First(p) = Min(W) - 1
    BY <1>4 DEF First, Kept
  <2>3. QED BY <1>1, <1>2, <1>4, <2>1, <2>2
<1>5. QED BY <1>3, <1>4

LEMMA StayingFacts ==
    ASSUME design \in Designs, NEW p \in DOMAIN design
    PROVE  /\ StayingActions(Parsed(p)) \in Seq(AllActions)
           /\ Len(StayingActions(Parsed(p))) = First(p)
           /\ \A n \in 1..First(p) : StayingActions(Parsed(p))[n] = Action(p, n)
<1>1. StayingActions(Parsed(p)) = SubSeq(Parsed(p), 1, First(p))
  BY DEF StayingActions, First
<1>2. /\ Parsed(p) \in Seq(AllActions) /\ Len(Parsed(p)) \in Nat
      /\ Len(Parsed(p)) = Len(design[p].body)
      /\ \A n \in 1..Len(design[p].body) : Parsed(p)[n] = Action(p, n)
  BY ParsedFacts
<1>3. First(p) \in 0..Len(Parsed(p))
  BY <1>2, FirstFacts
<1>4. \A n \in 1..First(p) : Parsed(p)[n] = Action(p, n) /\ Parsed(p)[n] \in AllActions
  BY <1>2, <1>3
<1>5. QED BY <1>1, <1>3, <1>4, SubSeqProperties

LEMMA RestFacts ==
    ASSUME design \in Designs, NEW p \in DOMAIN design
    PROVE  /\ Rest(p) \in Seq(AllActions)
           /\ Len(Rest(p)) = Len(design[p].body) - First(p) + 1
           /\ \A n \in 1..(Len(design[p].body) - First(p)) : Rest(p)[n] = Action(p, First(p) + n)
           /\ Rest(p)[Len(design[p].body) - First(p) + 1] = TailWait
<1> DEFINE L == Len(design[p].body)
           s == SubSeq(Parsed(p), First(p) + 1, L)
<1>1. L \in Nat /\ First(p) \in 0..L /\ Parsed(p) \in Seq(AllActions) /\ Len(Parsed(p)) = L
      /\ \A n \in 1..L : Parsed(p)[n] = Action(p, n)
  BY ParsedFacts, FirstFacts
<1>2. Rest(p) = s \o <<TailWait>>
  BY <1>1 DEF Rest, afterWrongStatementActions, First
<1>3. s \in Seq(AllActions) /\ Len(s) = L - First(p)
      /\ \A n \in 1..(L - First(p)) : s[n] = Action(p, First(p) + n)
  BY <1>1, SubSeqProperties
<1>4. TailWait \in AllActions
  BY DEF TailWait, Action, AllActions
<1> HIDE DEF L, s
<1>5. /\ s \o <<TailWait>> \in Seq(AllActions) /\ Len(s \o <<TailWait>>) = L - First(p) + 1
      /\ \A n \in 1..(L - First(p)) : (s \o <<TailWait>>)[n] = s[n]
      /\ (s \o <<TailWait>>)[L - First(p) + 1] = TailWait
  BY <1>1, <1>3, <1>4
<1>6. QED BY <1>1, <1>2, <1>3, <1>5 DEF L

LEMMA SameDesign ==
    ASSUME design' = design
    PROVE  \A p : /\ Parsed(p)' = Parsed(p) /\ ParsedProcess(p)' = ParsedProcess(p)
                  /\ First(p)' = First(p) /\ Rest(p)' = Rest(p)
                  /\ Splitted(p)' = Splitted(p) /\ InitialBlock(p)' = InitialBlock(p)
                  /\ \A k : _checkWrongStatement(Action(p, k))' = _checkWrongStatement(Action(p, k))
<1> TAKE p
<1>1. Parsed(p)' = Parsed(p) /\ ParsedProcess(p)' = ParsedProcess(p)
      /\ Splitted(p)' = Splitted(p) /\ InitialBlock(p)' = InitialBlock(p)
  BY DEF Parsed, ParsedProcess, HifProcess, Splitted, InitialBlock, Action
<1>2. Wrong(Parsed(p))' = Wrong(Parsed(p))
  BY <1>1 DEF Wrong, _checkWrongStatement, Statement
<1>3. First(p)' = First(p)
  BY <1>1, <1>2 DEF First, Kept
<1>4. Rest(p)' = Rest(p)
  BY <1>1, <1>3 DEF Rest, afterWrongStatementActions, First, TailWait, Action
<1>5. QED BY <1>1, <1>3, <1>4 DEF _checkWrongStatement, Statement

-----------------------------------------------------------------------------
(* The invariant: initial states.                                             *)
LEMMA InitShape ==
    ASSUME HifInit
    PROVE  ShapeInv
<1>1. design \in Designs /\ stateTables = [p \in DOMAIN design |-> ParsedProcess(p)]
      /\ phase \in Phases
  BY DEF HifInit, Init, Phases
<1>2. ASSUME NEW p \in DOMAIN design
      PROVE  ParsedProcess(p) \in HifProcesses /\ (IsFirst(p) \/ IsHdl(p))
  <2>1. stateTables[p] = ParsedProcess(p) /\ design[p].flavour \in Flavours
        /\ Parsed(p) \in Seq(AllActions)
    BY <1>1, ParsedFacts
  <2>2. ParsedProcess(p) = [flavour |-> design[p].flavour, actions |-> Parsed(p),
                            dontInitialize |-> FALSE]
    BY DEF Parsed, ParsedProcess, HifProcess
  <2>3. QED BY <2>1, <2>2 DEF HifProcesses, IsFirst, IsHdl, InitialBlock, Flavours
<1>3. QED BY <1>1, <1>2 DEF ShapeInv

LEMMA InitParts ==
    ASSUME HifInit
    PROVE  /\ PartsInv
           /\ \A p \in DOMAIN design : ~IsSplit(p)
<1>1. design \in Designs /\ stateTables = [p \in DOMAIN design |-> ParsedProcess(p)]
      /\ design \in Seq(SourceProcesses)
  BY ParsedFacts, DesignsAssumption DEF HifInit, Init, WellFormed
<1>2. \A p \in DOMAIN design : ~IsSplit(p)
  BY <1>1 DEF IsSplit, Splitted
<1>3. \A p \in DOMAIN design : Stays(p) = Len(design[p].body)
  BY <1>2 DEF Stays
<1>4. ASSUME NEW p \in Firsts
      PROVE  /\ InitialBlock(p) /\ p \in DOMAIN design
             /\ stateTables[p].actions = Parsed(p)
             /\ DOMAIN Parsed(p) = 1..Len(design[p].body)
             /\ Len(design[p].body) \in Nat
             /\ \A n \in 1..Len(design[p].body) :
                   Parsed(p)[n].from = p /\ Parsed(p)[n].nth = n
  <2>1. InitialBlock(p) /\ p \in DOMAIN design /\ stateTables[p].actions = Parsed(p)
    BY <1>1 DEF Firsts, Parsed
  <2>2. /\ Parsed(p) \in Seq(AllActions) /\ Len(design[p].body) \in Nat
        /\ Len(Parsed(p)) = Len(design[p].body)
        /\ \A n \in 1..Len(design[p].body) : Parsed(p)[n] = Action(p, n)
    BY <1>1, <2>1, ParsedFacts
  <2>3. DOMAIN Parsed(p) = 1..Len(design[p].body)
    BY <2>2
  <2>4. \A n : Action(p, n).from = p /\ Action(p, n).nth = n
    BY DEF Action
  <2>5. QED BY <2>1, <2>2, <2>3, <2>4
<1>5. Present
  <2> SUFFICES ASSUME NEW p \in DOMAIN design, NEW k \in 1..Stays(p), InitialBlock(p)
               PROVE  \E st \in Firsts : In(Action(p, k), stateTables[st].actions)
    BY DEF Present
  <2>1. p \in Firsts /\ k \in 1..Len(design[p].body)
    BY <1>1, <1>3 DEF Firsts
  <2>2. Parsed(p)[k] = Action(p, k)
    BY <1>1, <2>1, ParsedFacts
  <2>3. QED BY <1>4, <2>1, <2>2 DEF In
<1>6. Known
  <2> SUFFICES ASSUME NEW p \in Firsts, NEW n \in DOMAIN stateTables[p].actions
               PROVE  InitialBlock(p) /\ p \in DOMAIN design
                      /\ n \in 1..Stays(p) /\ stateTables[p].actions[n] = Action(p, n)
    BY DEF Known
  <2>1. QED BY <1>1, <1>3, <1>4, ParsedFacts
<1>7. Ordered
  BY <1>4 DEF Ordered
<1>8. Gathered
  BY <1>4 DEF Gathered
<1>9. QED BY <1>2, <1>5, <1>6, <1>7, <1>8 DEF PartsInv

LEMMA InitLoop ==
    ASSUME HifInit
    PROVE  LoopInv
<1>1. design \in Seq(SourceProcesses) /\ phase = "collect" /\ initialProcesses = <<>>
      /\ stateTables = [p \in DOMAIN design |-> ParsedProcess(p)]
      /\ todo = [p \in DOMAIN design |-> p]
  BY DesignsAssumption DEF HifInit, Init, WellFormed
<1>2. todo \in Seq(DOMAIN design) /\ IsDistinct(todo) /\ \A p \in DOMAIN design : In(p, todo)
  BY <1>1 DEF IsDistinct, In
<1>3. initialProcesses \in Seq(DOMAIN design) /\ DOMAIN initialProcesses = {}
  BY <1>1
<1>4. QED
  BY <1>1, <1>2, <1>3 DEF LoopInv, IsDistinct, CollectInv, SplitInv, MergeInv, CleanInv

LEMMA KnownActions ==
    ASSUME PartsInv, ShapeInv, NEW st \in Firsts, NEW n \in DOMAIN stateTables[st].actions
    PROVE  /\ stateTables[st].actions[n].from \in DOMAIN design
           /\ stateTables[st].actions[n].nth \in Nat /\ stateTables[st].actions[n].nth >= 1
           /\ stateTables[st].actions[n].nth <= Len(design[stateTables[st].actions[n].from].body)
           /\ n \in Nat /\ n >= 1 /\ n <= Len(stateTables[st].actions)
<1>0. PICK p \in DOMAIN design : \E k \in 1..Stays(p) : stateTables[st].actions[n] = Action(p, k)
  BY DEF PartsInv, Known
<1>1. PICK k \in 1..Stays(p) : stateTables[st].actions[n] = Action(p, k)
  BY <1>0
<1>2. Stays(p) \in 0..Len(design[p].body) /\ Len(design[p].body) \in Nat
  BY FirstFacts, ParsedFacts DEF Stays, ShapeInv
<1>3. stateTables[st].actions \in Seq(AllActions)
  BY DEF ShapeInv, HifProcesses, Firsts
<1>4. Action(p, k).from = p /\ Action(p, k).nth = k
  BY DEF Action
<1>5. QED BY <1>1, <1>2, <1>3, <1>4

LEMMA InitExec ==
    ASSUME HifInit, ShapeInv, PartsInv
    PROVE  ExecInv
<1>1. phase = "collect" /\ last = [p \in DOMAIN design |-> 0] /\ pc = [p \in DOMAIN design |-> 1]
      /\ DOMAIN stateTables = DOMAIN design
  BY DEF HifInit, Init
<1>2. \A p \in DOMAIN design : Len(design[p].body) \in Nat /\ Stays(p) \in Nat
  BY ParsedFacts, FirstFacts DEF ShapeInv, Stays
<1>3. \A st \in DOMAIN stateTables : Len(stateTables[st].actions) \in Nat
  BY DEF ShapeInv, HifProcesses
<1>4. InitialInv
  BY <1>1, <1>2, KnownActions DEF InitialInv, Firsts
<1>5. QED BY <1>1, <1>2, <1>3, <1>4 DEF ExecInv, BeforeInv, RunProcessInv

LEMMA InitInv == HifInit => IInv
BY InitShape, InitParts, InitLoop, InitExec DEF IInv

-----------------------------------------------------------------------------
(* Steps that leave the processes alone.                                      *)
LEMMA SameTables ==
    ASSUME ShapeInv, PartsInv, phase' \in Phases, UNCHANGED <<design, stateTables>>
    PROVE  /\ ShapeInv' /\ PartsInv' /\ Firsts' = Firsts
           /\ \A p : /\ Stays(p)' = Stays(p) /\ IsSplit(p)' = IsSplit(p)
                    /\ Clean(p)' = Clean(p)
<1>1. \A p : IsFirst(p)' = IsFirst(p) /\ IsHdl(p)' = IsHdl(p) /\ IsRest(p)' = IsRest(p)
  BY SameDesign DEF IsFirst, IsHdl, IsRest
<1>2. ShapeInv'
  BY <1>1 DEF ShapeInv
<1>3. \A p : Stays(p)' = Stays(p) /\ IsSplit(p)' = IsSplit(p)
  BY SameDesign DEF Stays, IsSplit
<1>4. \A p : Clean(p)' = Clean(p)
  BY <1>3, SameDesign DEF Clean
<1>5. Firsts' = Firsts
  BY SameDesign DEF Firsts
<1>6. Present' /\ Known' /\ Ordered' /\ Gathered'
  <2>1. Present'
    BY <1>3, <1>5, SameDesign DEF PartsInv, Present, Action
  <2>2. Known'
    BY <1>3, <1>5, SameDesign DEF PartsInv, Known
  <2>3. Ordered' /\ Gathered'
    BY <1>5 DEF PartsInv, Ordered, Gathered
  <2>4. QED BY <2>1, <2>2, <2>3
<1>7. QED BY <1>2, <1>3, <1>4, <1>5, <1>6 DEF PartsInv

(* No process has started.                                                    *)
LEMMA NotStarted ==
    ASSUME ShapeInv', PartsInv', design' = design, phase' # "run",
           DOMAIN last' = DOMAIN design, \A p \in DOMAIN design : last'[p] = 0,
           \A st \in DOMAIN stateTables' : pc'[st] = 1,
           pc' = [st \in DOMAIN stateTables' |-> pc'[st]],
           last' = [p \in DOMAIN design |-> last'[p]]
    PROVE  ExecInv'
<1>1. \A p \in DOMAIN design : Len(design[p].body) \in Nat /\ Stays(p)' \in Nat
  <2>1. design' \in Designs
    BY DEF ShapeInv
  <2>2. \A p \in DOMAIN design : Len(design[p].body) \in Nat /\ First(p) \in Nat
    BY <2>1, ParsedFacts, FirstFacts
  <2>3. QED BY <2>2, SameDesign DEF Stays
<1>2. \A st \in DOMAIN stateTables' : Len(stateTables'[st].actions) \in Nat
  BY DEF ShapeInv, HifProcesses
<1>3. ASSUME NEW st \in Firsts', NEW n \in DOMAIN stateTables'[st].actions
      PROVE  /\ n \in Nat /\ n >= 1
             /\ stateTables'[st].actions[n].from \in DOMAIN design
             /\ stateTables'[st].actions[n].nth \in Nat
             /\ stateTables'[st].actions[n].nth >= 1
  <2>1. stateTables'[st].actions \in Seq(AllActions)
    BY DEF ShapeInv, HifProcesses, Firsts
  <2>0. PICK p \in DOMAIN design : \E k \in 1..Stays(p)' : stateTables'[st].actions[n] = Action(p, k)
    BY DEF PartsInv, Known, Action
  <2>2. PICK k \in 1..Stays(p)' : stateTables'[st].actions[n] = Action(p, k)
    BY <2>0
  <2>3. Action(p, k).from = p /\ Action(p, k).nth = k
    BY DEF Action
  <2>4. QED BY <1>1, <2>1, <2>2, <2>3
<1>4. InitialInv'
  <2>1. \A st \in DOMAIN stateTables' \ Firsts' : pc'[st] = 1
    OBVIOUS
  <2>2. \A p \in DOMAIN design : IF InitialBlock(p) THEN last'[p] <= Stays(p)' ELSE last'[p] = 0
    BY <1>1
  <2>3. ASSUME NEW st \in Firsts', NEW n \in DOMAIN stateTables'[st].actions
        PROVE  ~(n < pc'[st]) /\ ~(stateTables'[st].actions[n].nth
                                    <= last'[stateTables'[st].actions[n].from])
    <3>1. pc'[st] = 1
      BY DEF Firsts
    <3>2. QED BY <1>3, <3>1
  <2>4. QED BY <2>1, <2>2, <2>3, SameDesign DEF InitialInv
<1>5. QED
  BY <1>1, <1>2, <1>4 DEF ExecInv, BeforeInv, RunProcessInv

(* A loop goes on to the next process.                                        *)
LEMMA TailFacts ==
    ASSUME NEW S, NEW s \in Seq(S), s # <<>>, IsDistinct(s)
    PROVE  /\ Head(s) \in S /\ Head(s) = s[1] /\ 1 \in DOMAIN s
           /\ Tail(s) \in Seq(S) /\ IsDistinct(Tail(s))
           /\ \A x : In(x, s) <=> x = Head(s) \/ In(x, Tail(s))
           /\ ~In(Head(s), Tail(s))
           /\ \A n \in DOMAIN Tail(s) : n + 1 \in DOMAIN s /\ Tail(s)[n] = s[n + 1]
<1>1. /\ Head(s) \in S /\ Head(s) = s[1] /\ 1 \in DOMAIN s
      /\ Tail(s) \in Seq(S) /\ Len(Tail(s)) = Len(s) - 1 /\ Len(s) \in Nat
      /\ DOMAIN s = 1..Len(s) /\ DOMAIN Tail(s) = 1..(Len(s) - 1)
      /\ \A n \in 1..(Len(s) - 1) : Tail(s)[n] = s[n + 1]
  BY HeadTailProperties
<1>2. IsDistinct(Tail(s))
  BY <1>1 DEF IsDistinct
<1>3. ASSUME NEW x, In(x, s) PROVE x = Head(s) \/ In(x, Tail(s))
  <2>1. PICK n \in DOMAIN s : s[n] = x
    BY <1>3 DEF In
  <2>2. CASE n = 1
    BY <1>1, <2>1, <2>2
  <2>3. CASE n # 1
    <3>1. n - 1 \in 1..(Len(s) - 1) /\ Tail(s)[n - 1] = x
      BY <1>1, <2>1, <2>3
    <3>2. QED BY <1>1, <3>1 DEF In
  <2>4. QED BY <2>2, <2>3
<1>4. ASSUME NEW x, x = Head(s) \/ In(x, Tail(s)) PROVE In(x, s)
  BY <1>1, <1>4 DEF In
<1>5. ~In(Head(s), Tail(s))
  BY <1>1 DEF In, IsDistinct
<1>6. QED BY <1>1, <1>2, <1>3, <1>4, <1>5

LEMMA CollectPreserves ==
    ASSUME IInv, _collectInitialProcess
    PROVE  IInv'
<1>1. ShapeInv' /\ PartsInv'
  BY SameTables DEF IInv, _collectInitialProcess, vars, Phases
<1>2. phase = "collect" /\ phase' = "collect" /\ UNCHANGED <<design, last, stateTables, pc>>
      /\ todo \in Seq(DOMAIN design) /\ todo # <<>> /\ IsDistinct(todo) /\ todo' = Tail(todo)
      /\ initialProcesses \in Seq(DOMAIN design) /\ IsDistinct(initialProcesses)
  BY DEF IInv, LoopInv, _collectInitialProcess, vars
<1>3. ExecInv'
  BY <1>1, <1>2, NotStarted DEF IInv, ExecInv, BeforeInv
<1> DEFINE h == Head(todo)
<1>4. /\ h \in DOMAIN design /\ todo' \in Seq(DOMAIN design) /\ IsDistinct(todo')
      /\ \A x : In(x, todo) <=> x = h \/ In(x, todo')
      /\ ~In(h, todo')
  BY <1>2, TailFacts
<1>5. \A p \in DOMAIN design : stateTables[p] = ParsedProcess(p) /\ ParsedProcess(p)' = ParsedProcess(p)
  BY <1>2, SameDesign DEF IInv, LoopInv, CollectInv
<1>6. _isInitial(h) <=> InitialBlock(h)
  <2>1. ParsedProcess(h).flavour = design[h].flavour
    BY DEF ParsedProcess, HifProcess
  <2>2. QED BY <1>4, <1>5, <2>1 DEF _isInitial, InitialBlock
<1>7. CASE ~_isInitial(h)
  <2>1. initialProcesses' = initialProcesses
    BY <1>7 DEF _collectInitialProcess
  <2>2. QED BY <1>1, <1>2, <1>3, <1>4, <1>5, <1>6, <1>7, <2>1, SameDesign
            DEF IInv, LoopInv, CollectInv, SplitInv, MergeInv, CleanInv
<1>8. CASE _isInitial(h)
  <2>1. initialProcesses' = Append(initialProcesses, h)
    BY <1>8 DEF _collectInitialProcess
  <2>2. /\ initialProcesses' \in Seq(DOMAIN design) /\ Len(initialProcesses) \in Nat
        /\ DOMAIN initialProcesses = 1..Len(initialProcesses)
        /\ DOMAIN initialProcesses' = 1..(Len(initialProcesses) + 1)
        /\ \A n \in 1..Len(initialProcesses) : initialProcesses'[n] = initialProcesses[n]
        /\ initialProcesses'[Len(initialProcesses) + 1] = h
    BY <1>2, <1>4, <2>1
  <2>3. \A n \in DOMAIN initialProcesses : ~In(initialProcesses[n], todo)
    BY <1>2 DEF IInv, LoopInv, CollectInv
  <2>4. IsDistinct(initialProcesses')
    BY <1>2, <1>4, <2>2, <2>3 DEF IsDistinct
  <2>5. \A n \in DOMAIN initialProcesses' : InitialBlock(initialProcesses'[n])
    BY <1>6, <1>8, <2>2 DEF IInv, LoopInv
  <2>6. \A n \in DOMAIN initialProcesses' : ~In(initialProcesses'[n], todo')
    BY <1>4, <2>2, <2>3
  <2>7. \A x : In(x, initialProcesses) \/ x = h => In(x, initialProcesses')
    BY <2>2 DEF In
  <2>8. \A p \in DOMAIN design : InitialBlock(p) => In(p, todo') \/ In(p, initialProcesses')
    BY <1>2, <1>4, <2>7 DEF IInv, LoopInv, CollectInv
  <2>9. DOMAIN stateTables' = DOMAIN design'
    BY <1>2 DEF IInv, LoopInv, CollectInv
  <2>10. CollectInv'
    BY <1>2, <1>5, <2>6, <2>8, <2>9, SameDesign DEF CollectInv
  <2>11. \A n \in DOMAIN initialProcesses' : InitialBlock(initialProcesses[n])'
    BY <1>2, <2>5 DEF InitialBlock
  <2>12. QED BY <1>1, <1>2, <1>3, <1>4, <2>2, <2>4, <2>10, <2>11
             DEF IInv, LoopInv, SplitInv, MergeInv, CleanInv
<1>9. QED BY <1>7, <1>8

LEMMA EndCollectPreserves ==
    ASSUME IInv, EndCollect
    PROVE  IInv'
<1>1. /\ ShapeInv' /\ PartsInv'
      /\ \A p : IsSplit(p)' = IsSplit(p)
  BY SameTables DEF IInv, EndCollect, vars, Phases
<1>2. phase = "collect" /\ phase' = "split" /\ UNCHANGED <<design, last, stateTables, pc>>
      /\ todo = <<>> /\ todo' = initialProcesses /\ initialProcesses' = initialProcesses
      /\ initialProcesses \in Seq(DOMAIN design) /\ IsDistinct(initialProcesses)
  BY DEF IInv, LoopInv, EndCollect, vars
<1>3. ExecInv'
  BY <1>1, <1>2, NotStarted DEF IInv, ExecInv, BeforeInv
<1>4. /\ DOMAIN stateTables = DOMAIN design /\ design \in Seq(SourceProcesses)
      /\ \A p \in DOMAIN design : stateTables[p] = ParsedProcess(p)
      /\ \A p \in DOMAIN design : InitialBlock(p) => In(p, initialProcesses)
  BY <1>2, DesignsAssumption DEF IInv, ShapeInv, WellFormed, LoopInv, CollectInv, In
<1>5. \A p \in DOMAIN design : ~IsSplit(p)
  BY <1>4 DEF IsSplit, Splitted
<1>6. \A n \in DOMAIN todo' :
         /\ InitialBlock(todo'[n]) /\ todo'[n] \in DOMAIN stateTables
         /\ stateTables[todo'[n]] = ParsedProcess(todo'[n])
         /\ ~IsSplit(todo'[n])
  BY <1>2, <1>4, <1>5 DEF IInv, LoopInv
<1>7. SplitInv'
  <2>1. \A n \in DOMAIN initialProcesses : initialProcesses[n] \in DOMAIN stateTables
    BY <1>2, <1>4
  <2>2. \A n \in DOMAIN todo' : InitialBlock(todo[n])' /\ stateTables'[todo'[n]] = ParsedProcess(todo[n])'
    BY <1>2, <1>6 DEF InitialBlock, ParsedProcess, HifProcess, Action
  <2>3. \A n \in DOMAIN todo' : ~IsSplit(todo[n])'
    BY <1>2, <1>6 DEF IsSplit, Splitted
  <2>4. QED BY <1>2, <1>4, <1>6, <2>1, <2>2, <2>3, SameDesign DEF SplitInv
<1>8. \A n \in DOMAIN initialProcesses' : InitialBlock(initialProcesses[n])'
  BY <1>2 DEF IInv, LoopInv, InitialBlock
<1>9. QED BY <1>1, <1>2, <1>3, <1>7, <1>8 DEF IInv, LoopInv, CollectInv, MergeInv, CleanInv

-----------------------------------------------------------------------------
(* Splitting a process.                                                       *)
LEMMA SplitShape ==
    ASSUME IInv, _splitInitialProcess, NEW p, p = Head(todo), Wrong(stateTables[p].actions) # {}
    PROVE  /\ InitialBlock(p) /\ p \in Firsts /\ ~IsSplit(p)
           /\ stateTables[p] = ParsedProcess(p) /\ stateTables[p].actions = Parsed(p)
           /\ DOMAIN stateTables' = DOMAIN stateTables \cup {Splitted(p)}
           /\ stateTables'[p] = [stateTables[p] EXCEPT !.actions = StayingActions(Parsed(p))]
           /\ stateTables'[Splitted(p)] = HifProcess("pf_hdl", Rest(p), FALSE)
           /\ \A st \in (DOMAIN stateTables) \ {p} : stateTables'[st] = stateTables[st]
           /\ stateTables' = [st \in DOMAIN stateTables' |-> stateTables'[st]]
           /\ pc' = [st \in DOMAIN stateTables' |-> pc'[st]]
           /\ \A st \in DOMAIN stateTables' : pc'[st] = 1
<1>1. phase = "split" /\ todo # <<>> /\ todo \in Seq(DOMAIN design) /\ IsDistinct(todo)
  BY DEF IInv, LoopInv, _splitInitialProcess
<1>2. p = todo[1] /\ 1 \in DOMAIN todo
  BY <1>1, TailFacts
<1>3. /\ InitialBlock(p) /\ p \in DOMAIN stateTables /\ ~IsSplit(p)
      /\ stateTables[p] = ParsedProcess(p)
  BY <1>1, <1>2 DEF IInv, LoopInv, SplitInv
<1>4. stateTables[p].actions = Parsed(p) /\ p \in Firsts /\ Splitted(p) \notin DOMAIN stateTables
  BY <1>3 DEF Parsed, Firsts, IsSplit
<1>5. /\ stateTables' = [[s \in DOMAIN stateTables \cup {Splitted(p)} |->
                            IF s = Splitted(p) THEN HifProcess("pf_hdl", Rest(p), FALSE)
                            ELSE stateTables[s]]
                         EXCEPT ![p].actions = StayingActions(Parsed(p))]
      /\ pc' = [s \in DOMAIN pc \cup {Splitted(p)} |-> IF s = Splitted(p) THEN 1 ELSE pc[s]]
  BY <1>4 DEF _splitInitialProcess, Rest
<1>6. p # Splitted(p)
  BY <1>3, <1>4
<1>7. DOMAIN pc = DOMAIN stateTables /\ \A st \in DOMAIN stateTables : pc[st] = 1
  BY <1>1 DEF IInv, ExecInv, BeforeInv
<1>8. DOMAIN stateTables' = DOMAIN stateTables \cup {Splitted(p)}
  BY <1>5
<1>9. /\ stateTables'[p] = [stateTables[p] EXCEPT !.actions = StayingActions(Parsed(p))]
      /\ stateTables'[Splitted(p)] = HifProcess("pf_hdl", Rest(p), FALSE)
      /\ \A st \in (DOMAIN stateTables) \ {p} : stateTables'[st] = stateTables[st]
  BY <1>3, <1>4, <1>5, <1>6
<1>10. stateTables' = [st \in DOMAIN stateTables' |-> stateTables'[st]]
       /\ pc' = [st \in DOMAIN stateTables' |-> pc'[st]]
  BY <1>5, <1>7, <1>8
<1>11. \A st \in DOMAIN stateTables' : pc'[st] = 1
  BY <1>5, <1>7, <1>8
<1>12. QED BY <1>3, <1>4, <1>8, <1>9, <1>10, <1>11

LEMMA SplitTables ==
    ASSUME IInv, _splitInitialProcess, NEW p, p = Head(todo), Wrong(stateTables[p].actions) # {}
    PROVE  /\ ShapeInv'
           /\ Firsts' = Firsts
           /\ \A q \in DOMAIN design : q # p => IsSplit(q)' = IsSplit(q) /\ Stays(q)' = Stays(q)
           /\ Stays(p) = Len(design[p].body) /\ Stays(p)' = First(p)
<1>1. /\ design' = design /\ phase' \in Phases /\ design \in Designs
      /\ design \in Seq(SourceProcesses) /\ p \in DOMAIN design
  BY SplitShape, DesignsAssumption
  DEF _splitInitialProcess, vars, Phases, IInv, ShapeInv, WellFormed, InitialBlock
<1>0. /\ DOMAIN stateTables' = DOMAIN stateTables \cup {Splitted(p)}
      /\ \A st \in (DOMAIN stateTables) \ {p} : stateTables'[st] = stateTables[st]
  <2>1. DOMAIN stateTables' = DOMAIN stateTables \cup {Splitted(p)}
    BY SplitShape
  <2>2. \A st \in (DOMAIN stateTables) \ {p} : stateTables'[st] = stateTables[st]
    BY SplitShape
  <2>3. QED BY <2>1, <2>2
<1>2. \A q \in DOMAIN design : Splitted(q) \notin DOMAIN design /\ (Splitted(q) = Splitted(p) => q = p)
  BY <1>1 DEF Splitted
<1>3. Firsts' = Firsts
  BY <1>1, <1>2, SplitShape, SameDesign DEF Firsts, InitialBlock
<1>4. \A q \in DOMAIN design : q # p => IsSplit(q)' = IsSplit(q)
  <2> SUFFICES ASSUME NEW q \in DOMAIN design, q # p PROVE IsSplit(q)' = IsSplit(q)
    OBVIOUS
  <2>1. Splitted(q)' = Splitted(q) /\ Splitted(q) # Splitted(p)
    BY <1>1, <1>2, SameDesign
  <2>2. QED BY <1>0, <2>1 DEF IsSplit
<1>5. IsSplit(p)'
  BY <1>1, SplitShape, SameDesign DEF IsSplit
<1>6. /\ \A q \in DOMAIN design : q # p => Stays(q)' = Stays(q)
      /\ Stays(p) = Len(design[p].body) /\ Stays(p)' = First(p)
  BY <1>1, <1>4, <1>5, SplitShape, SameDesign DEF Stays
<1>7. ASSUME NEW st \in DOMAIN stateTables'
      PROVE  /\ stateTables'[st] \in HifProcesses
             /\ IsFirst(st)' \/ IsHdl(st)' \/ IsRest(st)'
  <2>1. CASE st = p
    <3>1. stateTables[p] \in HifProcesses /\ IsFirst(p)
      <4>1. p \in DOMAIN stateTables /\ (IsFirst(p) \/ IsHdl(p) \/ IsRest(p))
        BY SplitShape DEF IInv, ShapeInv, Firsts
      <4>2. ~IsHdl(p) /\ ~IsRest(p)
        BY <1>1, <1>2, SplitShape DEF IsHdl, IsRest, InitialBlock
      <4>3. QED BY <4>1, <4>2 DEF IInv, ShapeInv
    <3>2. StayingActions(Parsed(p)) \in Seq(AllActions)
      BY <1>1, StayingFacts
    <3>3. stateTables'[p] \in HifProcesses /\ stateTables'[p].flavour = stateTables[p].flavour
      BY <3>1, <3>2, SplitShape DEF HifProcesses
    <3>4. IsFirst(p)'
      BY <1>1, <3>1, <3>3, SameDesign DEF IsFirst
    <3>5. QED BY <2>1, <3>3, <3>4
  <2>2. CASE st = Splitted(p)
    <3>1. Rest(p) \in Seq(AllActions)
      BY <1>1, RestFacts
    <3>2. stateTables'[st] = HifProcess("pf_hdl", Rest(p), FALSE)
      BY <2>2, SplitShape
    <3>3. stateTables'[st] \in HifProcesses
      BY <3>1, <3>2 DEF HifProcess, HifProcesses, Flavours
    <3>4. IsRest(st)'
      BY <1>1, <2>2, <3>2, SplitShape, SameDesign DEF IsRest
    <3>5. QED BY <3>3, <3>4
  <2>3. CASE st # p /\ st # Splitted(p)
    <3>1. st \in DOMAIN stateTables /\ stateTables'[st] = stateTables[st]
      BY <1>0, <2>3
    <3>2. stateTables'[st] \in HifProcesses /\ (IsFirst(st) \/ IsHdl(st) \/ IsRest(st))
      BY <3>1 DEF IInv, ShapeInv
    <3>3. IsFirst(st)' = IsFirst(st) /\ IsHdl(st)' = IsHdl(st) /\ IsRest(st)' = IsRest(st)
      BY <1>1, <3>1, SameDesign DEF IsFirst, IsHdl, IsRest
    <3>4. QED BY <3>2, <3>3
  <2>4. QED BY <2>1, <2>2, <2>3
<1>8. ShapeInv'
  BY <1>1, <1>7, SplitShape DEF ShapeInv
<1>9. QED BY <1>3, <1>4, <1>6, <1>8

LEMMA SplitParts ==
    ASSUME IInv, _splitInitialProcess, NEW p, p = Head(todo), Wrong(stateTables[p].actions) # {}
    PROVE  PartsInv'
<1> DEFINE Acts(st) == stateTables[st].actions
           New(st) == stateTables'[st].actions
<1>1. /\ design' = design /\ design \in Designs /\ p \in DOMAIN design
      /\ InitialBlock(p) /\ p \in Firsts /\ Acts(p) = Parsed(p)
  BY SplitShape DEF _splitInitialProcess, vars, IInv, ShapeInv, InitialBlock
<1>2. /\ Parsed(p) \in Seq(AllActions) /\ Len(Parsed(p)) = Len(design[p].body)
      /\ Len(design[p].body) \in Nat /\ DOMAIN Parsed(p) = 1..Len(design[p].body)
      /\ First(p) \in 0..Len(design[p].body)
      /\ \A n \in 1..Len(design[p].body) : Acts(p)[n] = Action(p, n)
  <2>1. /\ Parsed(p) \in Seq(AllActions) /\ Len(Parsed(p)) = Len(design[p].body)
        /\ Len(design[p].body) \in Nat
        /\ \A n \in 1..Len(design[p].body) : Parsed(p)[n] = Action(p, n)
    BY <1>1, ParsedFacts
  <2>2. First(p) \in 0..Len(design[p].body)
    BY <1>1, FirstFacts
  <2>3. QED BY <1>1, <2>1, <2>2
<1>3. \A q, k : Action(q, k).from = q /\ Action(q, k).nth = k
  BY DEF Action
<1>4. /\ New(p) = StayingActions(Parsed(p))
      /\ DOMAIN New(p) = 1..First(p)
      /\ \A n \in 1..First(p) : New(p)[n] = Action(p, n)
  <2>1. stateTables'[p] = [stateTables[p] EXCEPT !.actions = StayingActions(Parsed(p))]
        /\ stateTables[p] \in HifProcesses
    BY <1>1, SplitShape DEF IInv, ShapeInv, Firsts
  <2>2. New(p) = StayingActions(Parsed(p))
    BY <2>1 DEF HifProcesses
  <2>3. /\ StayingActions(Parsed(p)) \in Seq(AllActions) /\ Len(StayingActions(Parsed(p))) = First(p)
        /\ \A n \in 1..First(p) : StayingActions(Parsed(p))[n] = Action(p, n)
    BY <1>1, StayingFacts
  <2>4. QED BY <2>2, <2>3
<1>5. \A st \in Firsts \ {p} : New(st) = Acts(st)
  BY SplitShape DEF Firsts
<1>6. 1 \in DOMAIN Acts(p)
  BY <1>1, <1>2, SplitShape DEF Wrong
<1>7. ASSUME NEW st \in Firsts, NEW n \in DOMAIN Acts(st)
      PROVE  Acts(st)[n].from = p <=> st = p
  <2>1. Acts(p)[1].from = p
    BY <1>2, <1>3, <1>6, <1>1
  <2>2. st = p => Acts(st)[n].from = p
    BY <1>1, <1>2, <1>3
  <2>3. Acts(st)[n].from = p => st = p
    BY <1>1, <1>6, <2>1 DEF IInv, PartsInv, Gathered
  <2>4. QED BY <2>2, <2>3
<1>8. ASSUME NEW st \in Firsts, NEW n \in DOMAIN New(st)
      PROVE  n \in DOMAIN Acts(st) /\ New(st)[n] = Acts(st)[n]
  <2>1. CASE st = p
    BY <1>1, <1>2, <1>4, <2>1
  <2>2. CASE st # p
    BY <1>5, <2>2
  <2>3. QED BY <2>1, <2>2
<1>9. /\ Firsts' = Firsts
      /\ \A q \in DOMAIN design : q # p => Stays(q)' = Stays(q)
      /\ Stays(p) = Len(design[p].body) /\ Stays(p)' = First(p)
  BY SplitTables
<1>10. ASSUME NEW q \in DOMAIN design, NEW k \in 1..Stays(q)', InitialBlock(q)
       PROVE  \E st \in Firsts : In(Action(q, k), New(st))
  <2>1. CASE q = p
    <3>1. k \in 1..First(p) /\ New(p)[k] = Action(q, k)
      BY <1>4, <1>9, <2>1
    <3>2. QED BY <1>1, <1>4, <3>1 DEF In
  <2>2. CASE q # p
    <3>1. PICK st \in Firsts : In(Action(q, k), Acts(st))
      BY <1>9, <1>10, <2>2 DEF IInv, PartsInv, Present
    <3>2. st # p
      BY <1>3, <1>7, <2>2, <3>1 DEF In
    <3>3. QED BY <1>5, <3>1, <3>2
  <2>3. QED BY <2>1, <2>2
<1>11. ASSUME NEW st \in Firsts, NEW n \in DOMAIN New(st)
       PROVE  \E q \in DOMAIN design : InitialBlock(q) /\ \E k \in 1..Stays(q)' :
                 New(st)[n] = Action(q, k)
  <2>1. CASE st = p
    BY <1>1, <1>4, <1>9, <2>1
  <2>2. CASE st # p
    <3>1. n \in DOMAIN Acts(st) /\ New(st)[n] = Acts(st)[n]
      BY <1>8
    <3>2. PICK q \in DOMAIN design : InitialBlock(q) /\ \E k \in 1..Stays(q) :
             Acts(st)[n] = Action(q, k)
      BY <3>1 DEF IInv, PartsInv, Known
    <3>3. q # p
      BY <1>3, <1>7, <2>2, <3>1, <3>2
    <3>4. QED BY <1>9, <3>1, <3>2, <3>3
  <2>3. QED BY <2>1, <2>2
<1>12. Present'
  BY <1>1, <1>9, <1>10, SameDesign DEF Present, Action
<1>13. Known'
  BY <1>1, <1>9, <1>11, SameDesign DEF Known, Action
<1>14. Ordered'
  <2> SUFFICES ASSUME NEW st \in Firsts, NEW m \in DOMAIN New(st), NEW n \in DOMAIN New(st),
                      m < n, New(st)[m].from = New(st)[n].from
               PROVE  New(st)[m].nth < New(st)[n].nth
    BY <1>9 DEF Ordered
  <2>1. QED BY <1>8 DEF IInv, PartsInv, Ordered
<1>15. Gathered'
  <2> SUFFICES ASSUME NEW st \in Firsts, NEW su \in Firsts,
                      NEW m \in DOMAIN New(st), NEW n \in DOMAIN New(su),
                      New(st)[m].from = New(su)[n].from
               PROVE  st = su
    BY <1>9 DEF Gathered
  <2>1. QED BY <1>8 DEF IInv, PartsInv, Gathered
<1>16. QED BY <1>12, <1>13, <1>14, <1>15 DEF PartsInv

LEMMA SplitPreserves ==
    ASSUME IInv, _splitInitialProcess
    PROVE  IInv'
<1>0. PICK p : p = Head(todo)
  OBVIOUS
<1>1. /\ phase = "split" /\ phase' = "split" /\ UNCHANGED <<design, last, initialProcesses>>
      /\ todo \in Seq(DOMAIN design) /\ todo # <<>> /\ IsDistinct(todo) /\ todo' = Tail(todo)
      /\ design \in Designs
  BY DEF IInv, ShapeInv, LoopInv, _splitInitialProcess, vars
<1>2. /\ p \in DOMAIN design /\ p = todo[1] /\ 1 \in DOMAIN todo
      /\ todo' \in Seq(DOMAIN design) /\ IsDistinct(todo')
      /\ \A x : In(x, todo) <=> x = p \/ In(x, todo')
      /\ ~In(p, todo')
      /\ \A n \in DOMAIN todo' : n + 1 \in DOMAIN todo /\ todo'[n] = todo[n + 1]
  BY <1>0, <1>1, TailFacts
<1>3. stateTables[p] = ParsedProcess(p) /\ stateTables[p].actions = Parsed(p) /\ ~IsSplit(p)
  BY <1>1, <1>2 DEF IInv, LoopInv, SplitInv, Parsed
<1>4. /\ ShapeInv' /\ PartsInv' /\ Clean(p)'
      /\ DOMAIN stateTables \subseteq DOMAIN stateTables'
      /\ \A q \in DOMAIN design : q # p =>
            /\ IsSplit(q)' = IsSplit(q) /\ Stays(q)' = Stays(q)
            /\ q \in DOMAIN stateTables => stateTables'[q] = stateTables[q]
      /\ pc' = [st \in DOMAIN stateTables' |-> pc'[st]]
      /\ \A st \in DOMAIN stateTables' : pc'[st] = 1
  <2>1. CASE Wrong(stateTables[p].actions) = {}
    <3>1. UNCHANGED <<stateTables, pc>>
      BY <1>0, <2>1 DEF _splitInitialProcess
    <3>2. /\ ShapeInv' /\ PartsInv'
          /\ \A q : Stays(q)' = Stays(q) /\ IsSplit(q)' = IsSplit(q) /\ Clean(q)' = Clean(q)
      BY <1>1, <3>1, SameTables DEF IInv, Phases
    <3>3. Stays(p) = Len(design[p].body) /\ First(p) = Len(design[p].body)
      BY <1>1, <1>2, <1>3, <2>1, FirstFacts DEF Stays
    <3>4. Clean(p)
      BY <1>1, <1>2, <3>3, FirstFacts DEF Clean
    <3>5. pc = [st \in DOMAIN stateTables |-> pc[st]] /\ \A st \in DOMAIN stateTables : pc[st] = 1
      BY <1>1 DEF IInv, ExecInv, BeforeInv
    <3>6. QED BY <3>1, <3>2, <3>4, <3>5
  <2>2. CASE Wrong(stateTables[p].actions) # {}
    <3>2. ShapeInv' /\ Stays(p)' = First(p)
          /\ \A q \in DOMAIN design : q # p => IsSplit(q)' = IsSplit(q) /\ Stays(q)' = Stays(q)
      BY <1>0, <2>2, SplitTables
    <3>3. PartsInv'
      BY <1>0, <2>2, SplitParts
    <3>4. Clean(p)'
      BY <1>1, <1>2, <3>2, FirstFacts, SameDesign DEF Clean
    <3>5. DOMAIN stateTables' = DOMAIN stateTables \cup {Splitted(p)}
      BY <1>0, <2>2, SplitShape
    <3>6. \A st \in (DOMAIN stateTables) \ {p} : stateTables'[st] = stateTables[st]
      BY <1>0, <2>2, SplitShape
    <3>7. pc' = [st \in DOMAIN stateTables' |-> pc'[st]]
          /\ \A st \in DOMAIN stateTables' : pc'[st] = 1
      BY <1>0, <2>2, SplitShape
    <3>8. QED BY <3>2, <3>3, <3>4, <3>5, <3>6, <3>7
  <2>3. QED BY <2>1, <2>2
<1>5. ExecInv'
  <2>1. last' = [q \in DOMAIN design |-> last'[q]] /\ \A q \in DOMAIN design : last'[q] = 0
    BY <1>1 DEF IInv, ExecInv, BeforeInv
  <2>2. QED BY <1>1, <1>4, <2>1, NotStarted
<1>6. SplitInv'
  <2>1. \A n \in DOMAIN initialProcesses' : initialProcesses'[n] \in DOMAIN stateTables'
    BY <1>1, <1>4 DEF IInv, LoopInv, SplitInv
  <2>2. ASSUME NEW n \in DOMAIN todo', NEW q \in DOMAIN design, q = todo'[n]
        PROVE  /\ InitialBlock(q) /\ q \in DOMAIN stateTables'
               /\ stateTables'[q] = ParsedProcess(q)
               /\ ~IsSplit(q)'
    <3>1. InitialBlock(q) /\ q \in DOMAIN stateTables /\ stateTables[q] = ParsedProcess(q) /\ ~IsSplit(q)
      BY <1>1, <1>2, <2>2 DEF IInv, LoopInv, SplitInv
    <3>2. q # p
      BY <1>2, <2>2 DEF In
    <3>3. QED BY <1>4, <3>1, <3>2
  <2>3. ASSUME NEW n \in DOMAIN todo'
        PROVE  /\ InitialBlock(todo[n])' /\ todo'[n] \in DOMAIN stateTables'
               /\ stateTables'[todo'[n]] = ParsedProcess(todo[n])'
               /\ ~IsSplit(todo[n])'
    <3>1. PICK q \in DOMAIN design : q = todo'[n]
      BY <1>2
    <3>2. InitialBlock(q) /\ q \in DOMAIN stateTables' /\ stateTables'[q] = ParsedProcess(q)
          /\ ~IsSplit(q)'
      BY <2>2, <3>1
    <3>3. InitialBlock(todo[n])' /\ ParsedProcess(todo[n])' = ParsedProcess(q)
      BY <1>1, <3>1, <3>2 DEF InitialBlock, ParsedProcess, HifProcess, Action
    <3>4. ~IsSplit(todo[n])'
      BY <1>1, <3>1, <3>2 DEF IsSplit, Splitted
    <3>5. QED BY <3>1, <3>2, <3>3, <3>4
  <2>4. ASSUME NEW q \in DOMAIN design, InitialBlock(q)
        PROVE  In(q, todo') \/ Clean(q)'
    <3>1. CASE q = p
      BY <1>4, <3>1
    <3>2. CASE q # p
      <4>1. In(q, todo') \/ Clean(q)
        BY <1>1, <1>2, <2>4, <3>2 DEF IInv, LoopInv, SplitInv
      <4>2. Clean(q) => Clean(q)'
        BY <1>1, <1>4, <3>2, SameDesign DEF Clean
      <4>3. QED BY <4>1, <4>2
    <3>3. QED BY <3>1, <3>2
  <2>5. QED BY <1>1, <2>1, <2>3, <2>4, SameDesign DEF SplitInv, In
<1>7. \A n \in DOMAIN initialProcesses' : InitialBlock(initialProcesses[n])'
  BY <1>1 DEF IInv, LoopInv, InitialBlock
<1>8. QED BY <1>1, <1>2, <1>4, <1>5, <1>6, <1>7
          DEF IInv, LoopInv, CollectInv, MergeInv, CleanInv

LEMMA EndSplitPreserves ==
    ASSUME IInv, EndSplit
    PROVE  IInv'
<1>1. /\ ShapeInv' /\ PartsInv'
      /\ \A q : Clean(q)' = Clean(q)
  BY SameTables DEF IInv, EndSplit, vars, Phases
<1>2. /\ phase = "split" /\ phase' = "merge"
      /\ UNCHANGED <<design, last, stateTables, pc, initialProcesses>> /\ todo = <<>>
      /\ todo' = IF initialProcesses = <<>> THEN <<>> ELSE Tail(initialProcesses)
      /\ initialProcesses \in Seq(DOMAIN design) /\ IsDistinct(initialProcesses)
  BY DEF IInv, LoopInv, EndSplit, vars
<1>3. ExecInv'
  BY <1>1, <1>2, NotStarted DEF IInv, ExecInv, BeforeInv
<1>4. CleanInv'
  <2>1. \A q \in DOMAIN design : InitialBlock(q) => Clean(q)
    BY <1>2 DEF IInv, LoopInv, SplitInv, In
  <2>2. QED BY <1>1, <1>2, <2>1, SameDesign DEF CleanInv
<1>5. \A n \in DOMAIN initialProcesses' : InitialBlock(initialProcesses[n])'
  BY <1>2 DEF IInv, LoopInv, InitialBlock
<1>6. todo' \in Seq(DOMAIN design) /\ IsDistinct(todo') /\ MergeInv'
  <2>1. CASE initialProcesses = <<>>
    BY <1>2, <2>1 DEF IsDistinct, MergeInv
  <2>2. CASE initialProcesses # <<>>
    <3>1. /\ Head(initialProcesses) = initialProcesses[1] /\ 1 \in DOMAIN initialProcesses
          /\ todo' \in Seq(DOMAIN design) /\ IsDistinct(todo')
          /\ ~In(Head(initialProcesses), todo')
          /\ \A n \in DOMAIN todo' : n + 1 \in DOMAIN initialProcesses
                                    /\ todo'[n] = initialProcesses[n + 1]
      BY <1>2, <2>2, TailFacts
    <3>2. \A n \in DOMAIN initialProcesses :
             InitialBlock(initialProcesses[n]) /\ initialProcesses[n] \in DOMAIN stateTables
      BY <1>2 DEF IInv, LoopInv, SplitInv
    <3>3. \A n \in DOMAIN todo' : /\ Head(initialProcesses) # todo'[n]
                                 /\ todo'[n] \in DOMAIN stateTables
                                 /\ InitialBlock(todo'[n])
      BY <3>1, <3>2 DEF In
    <3>4. \A n \in DOMAIN todo' : InitialBlock(todo[n])'
      BY <1>2, <3>3 DEF InitialBlock
    <3>5. QED BY <1>2, <2>2, <3>1, <3>2, <3>3, <3>4 DEF MergeInv
  <2>3. QED BY <2>1, <2>2
<1>7. QED BY <1>1, <1>2, <1>3, <1>4, <1>5, <1>6 DEF IInv, LoopInv, CollectInv, SplitInv

-----------------------------------------------------------------------------
(* Merging a process.                                                         *)
LEMMA MergeShape ==
    ASSUME IInv, _mergeInitialProcess, NEW h, h = Head(initialProcesses), NEW p, p = Head(todo)
    PROVE  /\ h # p /\ h \in Firsts /\ p \in Firsts
           /\ DOMAIN stateTables' = (DOMAIN stateTables) \ {p}
           /\ stateTables'[h] = [stateTables[h] EXCEPT !.actions = @ \o stateTables[p].actions]
           /\ \A st \in (DOMAIN stateTables) \ {h, p} : stateTables'[st] = stateTables[st]
           /\ stateTables' = [st \in DOMAIN stateTables' |-> stateTables'[st]]
           /\ pc' = [st \in DOMAIN stateTables' |-> pc'[st]]
           /\ \A st \in DOMAIN stateTables' : pc'[st] = 1
<1>1. phase = "merge" /\ todo # <<>> /\ todo \in Seq(DOMAIN design) /\ IsDistinct(todo)
      /\ initialProcesses \in Seq(DOMAIN design)
  BY DEF IInv, LoopInv, _mergeInitialProcess
<1>2. p = todo[1] /\ 1 \in DOMAIN todo
  BY <1>1, TailFacts
<1>3. /\ initialProcesses # <<>> /\ h \in DOMAIN stateTables /\ h # p
      /\ InitialBlock(p) /\ p \in DOMAIN stateTables
  BY <1>1, <1>2 DEF IInv, LoopInv, MergeInv
<1>4. InitialBlock(h)
  BY <1>1, <1>3 DEF IInv, LoopInv
<1>5. /\ stateTables' = [[s \in (DOMAIN stateTables) \ {p} |-> stateTables[s]]
                         EXCEPT ![h].actions = @ \o stateTables[p].actions]
      /\ pc' = [s \in (DOMAIN stateTables) \ {p} |-> pc[s]]
  BY DEF _mergeInitialProcess
<1>6. \A st \in DOMAIN stateTables : pc[st] = 1
  BY <1>1 DEF IInv, ExecInv, BeforeInv
<1>7. DOMAIN stateTables' = (DOMAIN stateTables) \ {p}
  BY <1>5
<1>8. /\ stateTables'[h] = [stateTables[h] EXCEPT !.actions = @ \o stateTables[p].actions]
      /\ \A st \in (DOMAIN stateTables) \ {h, p} : stateTables'[st] = stateTables[st]
  BY <1>3, <1>5
<1>9. stateTables' = [st \in DOMAIN stateTables' |-> stateTables'[st]]
      /\ pc' = [st \in DOMAIN stateTables' |-> pc'[st]]
  BY <1>5, <1>7
<1>10. \A st \in DOMAIN stateTables' : pc'[st] = 1
  BY <1>5, <1>6, <1>7
<1>11. QED BY <1>3, <1>4, <1>7, <1>8, <1>9, <1>10 DEF Firsts

LEMMA MergeTables ==
    ASSUME IInv, _mergeInitialProcess, NEW h, h = Head(initialProcesses), NEW p, p = Head(todo)
    PROVE  /\ ShapeInv' /\ Firsts' = Firsts \ {p}
           /\ \A q \in DOMAIN design : IsSplit(q)' = IsSplit(q) /\ Stays(q)' = Stays(q)
<1>1. /\ design' = design /\ phase' \in Phases /\ design \in Designs
      /\ design \in Seq(SourceProcesses)
  BY DesignsAssumption DEF _mergeInitialProcess, vars, Phases, IInv, ShapeInv, WellFormed
<1>2. /\ h # p /\ h \in Firsts /\ p \in Firsts
      /\ DOMAIN stateTables' = (DOMAIN stateTables) \ {p}
      /\ stateTables'[h] = [stateTables[h] EXCEPT !.actions = @ \o stateTables[p].actions]
      /\ \A st \in (DOMAIN stateTables) \ {h, p} : stateTables'[st] = stateTables[st]
  BY MergeShape
<1>3. p \in DOMAIN design /\ h \in DOMAIN design /\ \A q \in DOMAIN design : Splitted(q) \notin DOMAIN design
  BY <1>1, <1>2 DEF Splitted, Firsts, InitialBlock
<1>4. Firsts' = Firsts \ {p}
  BY <1>1, <1>2, SameDesign DEF Firsts
<1>5. \A q \in DOMAIN design : IsSplit(q)' = IsSplit(q)
  BY <1>1, <1>2, <1>3, SameDesign DEF IsSplit
<1>6. \A q \in DOMAIN design : Stays(q)' = Stays(q)
  BY <1>1, <1>5, SameDesign DEF Stays
<1>7. ASSUME NEW st \in DOMAIN stateTables'
      PROVE  /\ stateTables'[st] \in HifProcesses
             /\ IsFirst(st)' \/ IsHdl(st)' \/ IsRest(st)'
  <2>1. CASE st = h
    <3>1. stateTables[h] \in HifProcesses /\ stateTables[p] \in HifProcesses /\ IsFirst(h)
      <4>1. h \in DOMAIN stateTables /\ p \in DOMAIN stateTables
            /\ (IsFirst(h) \/ IsHdl(h) \/ IsRest(h)) /\ InitialBlock(h)
        BY <1>2 DEF IInv, ShapeInv, Firsts
      <4>2. ~IsHdl(h) /\ ~IsRest(h)
        BY <1>3, <4>1 DEF IsHdl, IsRest, InitialBlock
      <4>3. QED BY <4>1, <4>2 DEF IInv, ShapeInv
    <3>2. stateTables[h].actions \o stateTables[p].actions \in Seq(AllActions)
      <4>1. stateTables[h].actions \in Seq(AllActions) /\ stateTables[p].actions \in Seq(AllActions)
        BY <3>1 DEF HifProcesses
      <4>2. QED BY <4>1, ConcatProperties
    <3>3. stateTables'[h] \in HifProcesses /\ stateTables'[h].flavour = stateTables[h].flavour
      BY <1>2, <3>1, <3>2 DEF HifProcesses
    <3>4. IsFirst(h)'
      BY <1>1, <3>1, <3>3, SameDesign DEF IsFirst
    <3>5. QED BY <2>1, <3>3, <3>4
  <2>2. CASE st # h
    <3>1. st \in DOMAIN stateTables /\ stateTables'[st] = stateTables[st]
      BY <1>2, <2>2
    <3>2. stateTables'[st] \in HifProcesses /\ (IsFirst(st) \/ IsHdl(st) \/ IsRest(st))
      BY <3>1 DEF IInv, ShapeInv
    <3>3. IsFirst(st)' = IsFirst(st) /\ IsHdl(st)' = IsHdl(st) /\ IsRest(st)' = IsRest(st)
      BY <1>1, <3>1, SameDesign DEF IsFirst, IsHdl, IsRest
    <3>4. QED BY <3>2, <3>3
  <2>3. QED BY <2>1, <2>2
<1>8. stateTables' = [st \in DOMAIN stateTables' |-> stateTables'[st]]
  BY MergeShape
<1>9. ShapeInv'
  BY <1>1, <1>7, <1>8 DEF ShapeInv
<1>10. QED BY <1>4, <1>5, <1>6, <1>9

LEMMA ConcatFacts ==
    ASSUME NEW S, NEW s \in Seq(S), NEW t \in Seq(S), NEW c, c = s \o t, NEW l, l = Len(s)
    PROVE  /\ l \in Nat
           /\ \A n \in DOMAIN c :
                /\ n \in Nat
                /\ n <= l => n \in DOMAIN s /\ c[n] = s[n]
                /\ n > l => n - l \in DOMAIN t /\ c[n] = t[n - l]
           /\ \A n \in DOMAIN s : n \in DOMAIN c /\ c[n] = s[n]
           /\ \A n \in DOMAIN t : n + l \in DOMAIN c /\ c[n + l] = t[n]
<1>1. /\ l \in Nat /\ Len(t) \in Nat /\ DOMAIN s = 1..l /\ DOMAIN t = 1..Len(t)
      /\ c \in Seq(S) /\ Len(c) = l + Len(t) /\ DOMAIN c = 1..(l + Len(t))
      /\ \A n \in 1..(l + Len(t)) : c[n] = IF n <= l THEN s[n] ELSE t[n - l]
  BY ConcatProperties
<1>2. ASSUME NEW n \in DOMAIN c
      PROVE  /\ n \in Nat
             /\ n <= l => n \in DOMAIN s /\ c[n] = s[n]
             /\ n > l => n - l \in DOMAIN t /\ c[n] = t[n - l]
  BY <1>1
<1>3. ASSUME NEW n \in DOMAIN s PROVE n \in DOMAIN c /\ c[n] = s[n]
  BY <1>1
<1>4. ASSUME NEW n \in DOMAIN t PROVE n + l \in DOMAIN c /\ c[n + l] = t[n]
  BY <1>1
<1>5. QED BY <1>1, <1>2, <1>3, <1>4

LEMMA MergeParts ==
    ASSUME IInv, _mergeInitialProcess, NEW h, h = Head(initialProcesses), NEW p, p = Head(todo)
    PROVE  PartsInv'
<1> DEFINE Acts(st) == stateTables[st].actions
           New(st) == stateTables'[st].actions
           L == Len(Acts(h))
<1>1. design' = design
  BY DEF _mergeInitialProcess, vars
<1>2. /\ h # p /\ h \in Firsts /\ p \in Firsts
      /\ stateTables'[h] = [stateTables[h] EXCEPT !.actions = @ \o stateTables[p].actions]
      /\ \A st \in (DOMAIN stateTables) \ {h, p} : stateTables'[st] = stateTables[st]
  BY MergeShape
<1>3. /\ Firsts' = Firsts \ {p}
      /\ \A q \in DOMAIN design : Stays(q)' = Stays(q)
  BY MergeTables
<1>4. \A st \in Firsts : stateTables[st] \in HifProcesses /\ Acts(st) \in Seq(AllActions)
  BY DEF IInv, ShapeInv, Firsts, HifProcesses
<1>5. New(h) = Acts(h) \o Acts(p)
  BY <1>2, <1>4 DEF HifProcesses
<1>6. \A st \in Firsts \ {h, p} : New(st) = Acts(st)
  BY <1>2 DEF Firsts
<1>7. /\ L \in Nat
      /\ \A n \in DOMAIN New(h) :
           /\ n \in Nat
           /\ n <= L => n \in DOMAIN Acts(h) /\ New(h)[n] = Acts(h)[n]
           /\ n > L => n - L \in DOMAIN Acts(p) /\ New(h)[n] = Acts(p)[n - L]
      /\ \A n \in DOMAIN Acts(h) : n \in DOMAIN New(h) /\ New(h)[n] = Acts(h)[n]
      /\ \A n \in DOMAIN Acts(p) : n + L \in DOMAIN New(h) /\ New(h)[n + L] = Acts(p)[n]
  <2>1. Acts(h) \in Seq(AllActions) /\ Acts(p) \in Seq(AllActions)
    BY <1>2, <1>4
  <2> HIDE DEF Acts, New
  <2>2. PICK s \in Seq(AllActions) : s = Acts(h)
    BY <2>1
  <2>3. PICK t \in Seq(AllActions) : t = Acts(p)
    BY <2>1
  <2>4. PICK c : c = New(h)
    OBVIOUS
  <2>5. PICK l : l = L
    OBVIOUS
  <2>6. c = s \o t /\ l = Len(s)
    BY <1>5, <2>2, <2>3, <2>4, <2>5
  <2> HIDE DEF L
  <2>7. /\ l \in Nat
        /\ \A n \in DOMAIN c :
             /\ n \in Nat
             /\ n <= l => n \in DOMAIN s /\ c[n] = s[n]
             /\ n > l => n - l \in DOMAIN t /\ c[n] = t[n - l]
        /\ \A n \in DOMAIN s : n \in DOMAIN c /\ c[n] = s[n]
        /\ \A n \in DOMAIN t : n + l \in DOMAIN c /\ c[n + l] = t[n]
    BY <2>6, ConcatFacts
  <2>8. QED BY <2>2, <2>3, <2>4, <2>5, <2>7
(* What holds before the step.                                                *)
<1>8. \A q \in DOMAIN design : \A k \in 1..Stays(q) :
         InitialBlock(q) => \E st \in Firsts : In(Action(q, k), Acts(st))
  BY DEF IInv, PartsInv, Present
<1>9. \A st \in Firsts : \A n \in DOMAIN Acts(st) :
         \E q \in DOMAIN design : InitialBlock(q) /\ \E k \in 1..Stays(q) : Acts(st)[n] = Action(q, k)
  BY DEF IInv, PartsInv, Known
<1>10. \A st \in Firsts : \A m, n \in DOMAIN Acts(st) :
          m < n /\ Acts(st)[m].from = Acts(st)[n].from => Acts(st)[m].nth < Acts(st)[n].nth
  BY DEF IInv, PartsInv, Ordered
<1>11. \A st, su \in Firsts : \A m \in DOMAIN Acts(st), n \in DOMAIN Acts(su) :
          Acts(st)[m].from = Acts(su)[n].from => st = su
  BY DEF IInv, PartsInv, Gathered
<1> HIDE DEF Acts, New, L
(* And after it.                                                              *)
<1>12. ASSUME NEW st \in Firsts \ {p}, NEW n \in DOMAIN New(st)
       PROVE  \E su \in Firsts : /\ su = st \/ (st = h /\ su = p)
                                 /\ \E m \in DOMAIN Acts(su) : New(st)[n] = Acts(su)[m]
  <2>1. CASE st = h
    <3>1. CASE n <= L
      BY <1>2, <1>7, <2>1, <3>1
    <3>2. CASE n > L
      BY <1>2, <1>7, <2>1, <3>2
    <3>3. QED BY <1>7, <2>1, <3>1, <3>2
  <2>2. CASE st # h
    BY <1>6, <2>2
  <2>3. QED BY <2>1, <2>2
<1>13. ASSUME NEW q \in DOMAIN design, NEW k \in 1..Stays(q), InitialBlock(q)
       PROVE  \E st \in Firsts \ {p} : In(Action(q, k), New(st))
  <2>1. PICK st \in Firsts : In(Action(q, k), Acts(st))
    BY <1>8, <1>13
  <2>2. PICK n \in DOMAIN Acts(st) : Acts(st)[n] = Action(q, k)
    BY <2>1 DEF In
  <2>3. CASE st = h
    BY <1>2, <1>7, <2>2, <2>3 DEF In
  <2>4. CASE st = p
    BY <1>2, <1>7, <2>2, <2>4 DEF In
  <2>5. CASE st # h /\ st # p
    BY <1>6, <2>1, <2>5
  <2>6. QED BY <2>3, <2>4, <2>5
<1>14. ASSUME NEW st \in Firsts \ {p}, NEW n \in DOMAIN New(st)
       PROVE  \E q \in DOMAIN design : InitialBlock(q) /\ \E k \in 1..Stays(q) :
                 New(st)[n] = Action(q, k)
  BY <1>9, <1>12
<1>15. ASSUME NEW st \in Firsts \ {p}, NEW m \in DOMAIN New(st), NEW n \in DOMAIN New(st),
              m < n, New(st)[m].from = New(st)[n].from
       PROVE  New(st)[m].nth < New(st)[n].nth
  <2>1. CASE st # h
    BY <1>6, <1>10, <1>15, <2>1
  <2>2. CASE st = h
    <3>1. m \in Nat /\ n \in Nat
      BY <1>7, <2>2
    <3>2. CASE n <= L
      BY <1>2, <1>7, <1>10, <1>15, <2>2, <3>1, <3>2
    <3>3. CASE m > L
      <4>1. /\ m - L \in DOMAIN Acts(p) /\ n - L \in DOMAIN Acts(p) /\ m - L < n - L
            /\ New(h)[m] = Acts(p)[m - L] /\ New(h)[n] = Acts(p)[n - L]
        BY <1>7, <1>15, <2>2, <3>1, <3>3
      <4>2. QED BY <1>2, <1>10, <1>15, <2>2, <4>1
    <3>4. CASE m <= L /\ n > L
      <4>1. /\ m \in DOMAIN Acts(h) /\ n - L \in DOMAIN Acts(p)
            /\ New(h)[m] = Acts(h)[m] /\ New(h)[n] = Acts(p)[n - L]
        BY <1>7, <2>2, <3>1, <3>4
      <4>2. QED BY <1>2, <1>11, <1>15, <2>2, <4>1
    <3>5. QED BY <1>7, <3>1, <3>2, <3>3, <3>4
  <2>3. QED BY <2>1, <2>2
<1>16. ASSUME NEW st \in Firsts \ {p}, NEW su \in Firsts \ {p},
              NEW m \in DOMAIN New(st), NEW n \in DOMAIN New(su),
              New(st)[m].from = New(su)[n].from
       PROVE  st = su
  <2>1. PICK sv \in Firsts : /\ sv = st \/ (st = h /\ sv = p)
                             /\ \E i \in DOMAIN Acts(sv) : New(st)[m] = Acts(sv)[i]
    BY <1>12
  <2>2. PICK sw \in Firsts : /\ sw = su \/ (su = h /\ sw = p)
                             /\ \E i \in DOMAIN Acts(sw) : New(su)[n] = Acts(sw)[i]
    BY <1>12
  <2>3. sv = sw
    BY <1>11, <1>16, <2>1, <2>2
  <2>4. QED BY <2>1, <2>2, <2>3
<1>17. Present'
  BY <1>1, <1>3, <1>13, SameDesign DEF Present, Action, New
<1>18. Known'
  BY <1>1, <1>3, <1>14, SameDesign DEF Known, Action, New
<1>19. Ordered'
  BY <1>3, <1>15 DEF Ordered, New
<1>20. Gathered'
  BY <1>3, <1>16 DEF Gathered, New
<1>21. QED BY <1>17, <1>18, <1>19, <1>20 DEF PartsInv

LEMMA MergePreserves ==
    ASSUME IInv, _mergeInitialProcess
    PROVE  IInv'
<1>0. PICK h : h = Head(initialProcesses)
  OBVIOUS
<1>1. PICK p : p = Head(todo)
  OBVIOUS
<1>2. /\ phase = "merge" /\ phase' = "merge" /\ UNCHANGED <<design, last, initialProcesses>>
      /\ todo \in Seq(DOMAIN design) /\ todo # <<>> /\ IsDistinct(todo) /\ todo' = Tail(todo)
  BY DEF IInv, LoopInv, _mergeInitialProcess, vars
<1>3. /\ todo' \in Seq(DOMAIN design) /\ IsDistinct(todo') /\ ~In(p, todo')
      /\ \A n \in DOMAIN todo' : n + 1 \in DOMAIN todo /\ todo'[n] = todo[n + 1]
  BY <1>1, <1>2, TailFacts
<1>4. ShapeInv' /\ \A q \in DOMAIN design : Stays(q)' = Stays(q)
  BY <1>0, <1>1, MergeTables
<1>5. PartsInv'
  BY <1>0, <1>1, MergeParts
<1>6. h # p /\ DOMAIN stateTables' = (DOMAIN stateTables) \ {p} /\ h \in Firsts
  BY <1>0, <1>1, MergeShape
<1>7. pc' = [st \in DOMAIN stateTables' |-> pc'[st]] /\ \A st \in DOMAIN stateTables' : pc'[st] = 1
  BY <1>0, <1>1, MergeShape
<1>8. ExecInv'
  <2>1. last' = [q \in DOMAIN design |-> last'[q]] /\ \A q \in DOMAIN design : last'[q] = 0
    BY <1>2 DEF IInv, ExecInv, BeforeInv
  <2>2. QED BY <1>2, <1>4, <1>5, <1>7, <2>1, NotStarted
<1>9. CleanInv'
  BY <1>2, <1>4, SameDesign DEF IInv, LoopInv, CleanInv, Clean
<1>10. MergeInv'
  <2>1. ASSUME NEW n \in DOMAIN todo'
        PROVE  /\ initialProcesses # <<>> /\ h # todo'[n] /\ todo'[n] \in DOMAIN stateTables'
               /\ InitialBlock(todo'[n])
    <3>1. /\ initialProcesses # <<>> /\ h # todo'[n] /\ todo'[n] \in DOMAIN stateTables
          /\ InitialBlock(todo'[n])
      BY <1>0, <1>2, <1>3 DEF IInv, LoopInv, MergeInv
    <3>2. todo'[n] # p
      BY <1>3 DEF In
    <3>3. QED BY <1>6, <3>1, <3>2
  <2>2. h \in DOMAIN stateTables'
    BY <1>6 DEF Firsts
  <2>3. \A n \in DOMAIN todo' : InitialBlock(todo[n])'
    BY <1>2, <2>1 DEF InitialBlock
  <2>4. QED BY <1>0, <1>2, <2>1, <2>2, <2>3 DEF MergeInv
<1>11. \A n \in DOMAIN initialProcesses' : InitialBlock(initialProcesses[n])'
  BY <1>2 DEF IInv, LoopInv, InitialBlock
<1>12. initialProcesses' \in Seq(DOMAIN design') /\ IsDistinct(initialProcesses')
       /\ todo' \in Seq(DOMAIN design')
  BY <1>2, <1>3 DEF IInv, LoopInv
<1>13. QED BY <1>2, <1>3, <1>4, <1>5, <1>8, <1>9, <1>10, <1>11, <1>12
           DEF IInv, LoopInv, CollectInv, SplitInv

LEMMA EndMergePreserves ==
    ASSUME IInv, EndMerge
    PROVE  IInv'
<1>1. /\ ShapeInv' /\ PartsInv'
      /\ \A q : Clean(q)' = Clean(q)
  BY SameTables DEF IInv, EndMerge, vars, Phases
<1>2. /\ phase = "merge" /\ phase' = "initial"
      /\ UNCHANGED <<design, last, stateTables, pc, initialProcesses, todo>>
  BY DEF EndMerge, vars
<1>3. ExecInv'
  BY <1>1, <1>2, NotStarted DEF IInv, ExecInv, BeforeInv
<1>4. CleanInv'
  BY <1>1, <1>2, SameDesign DEF IInv, LoopInv, CleanInv
<1>5. \A n \in DOMAIN initialProcesses' : InitialBlock(initialProcesses[n])'
  BY <1>2 DEF IInv, LoopInv, InitialBlock
<1>6. QED BY <1>1, <1>2, <1>3, <1>4, <1>5 DEF IInv, LoopInv, CollectInv, SplitInv, MergeInv

-----------------------------------------------------------------------------
(* The execution.                                                             *)
LEMMA FlavourFacts ==
    ASSUME ShapeInv, NEW st \in DOMAIN stateTables
    PROVE  /\ _isInitial(st) <=> st \in Firsts
           /\ ~_isInitial(st) => IsHdl(st) \/ IsRest(st)
<1>1. /\ IsFirst(st) \/ IsHdl(st) \/ IsRest(st)
      /\ design \in Seq(SourceProcesses)
  BY DesignsAssumption DEF ShapeInv, WellFormed
<1>2. CASE IsFirst(st)
  BY <1>2 DEF IsFirst, _isInitial, Firsts
<1>3. CASE IsHdl(st)
  BY <1>3 DEF IsHdl, _isInitial, Firsts, InitialBlock, ParsedProcess, HifProcess
<1>4. CASE IsRest(st)
  <2>1. st \notin DOMAIN design
    BY <1>1, <1>4 DEF IsRest, Splitted
  <2>2. stateTables[st].flavour = "pf_hdl"
    BY <1>4 DEF IsRest, HifProcess
  <2>3. st \notin Firsts
    BY <2>1 DEF Firsts, InitialBlock
  <2>4. QED BY <1>4, <2>2, <2>3 DEF _isInitial
<1>5. QED BY <1>1, <1>2, <1>3, <1>4

(* The loops are over.                                                        *)
LEMMA RunPreserves ==
    ASSUME IInv, phase \in {"initial", "run"}, phase' \in {"initial", "run"},
           UNCHANGED <<design, stateTables, initialProcesses, todo>>, ExecInv'
    PROVE  IInv'
<1>1. /\ ShapeInv' /\ PartsInv'
      /\ \A q : Clean(q)' = Clean(q)
  BY SameTables DEF IInv, Phases
<1>2. CleanInv'
  BY <1>1, SameDesign DEF IInv, LoopInv, CleanInv
<1>3. \A n \in DOMAIN initialProcesses' : InitialBlock(initialProcesses[n])'
  BY DEF IInv, LoopInv, InitialBlock
<1>4. QED BY <1>1, <1>2, <1>3 DEF IInv, LoopInv, CollectInv, SplitInv, MergeInv

(* The initial process executes the following statement of a block.           *)
LEMMA RunInitialFacts ==
    ASSUME IInv, NEW st \in DOMAIN stateTables, RunInitial(st)
    PROVE  /\ st \in Firsts /\ pc[st] \in DOMAIN stateTables[st].actions
           /\ \E p \in DOMAIN design :
                 /\ InitialBlock(p) /\ last[p] + 1 \in 1..Stays(p)
                 /\ stateTables[st].actions[pc[st]] = Action(p, last[p] + 1)
<1>1. st \in Firsts /\ phase = "initial"
  BY FlavourFacts DEF IInv, RunInitial
<1>2. /\ stateTables[st].actions \in Seq(AllActions)
      /\ pc[st] \in Nat \ {0} /\ pc[st] <= Len(stateTables[st].actions)
  <2>1. stateTables[st] \in HifProcesses /\ pc[st] \in Nat \ {0}
    BY DEF IInv, ShapeInv, ExecInv
  <2>2. stateTables[st].actions \in Seq(AllActions)
    BY <2>1 DEF HifProcesses
  <2>3. ~(pc[st] > Len(stateTables[st].actions)) /\ Len(stateTables[st].actions) \in Nat
    BY <2>2 DEF RunInitial, IsDone
  <2>4. QED BY <2>1, <2>2, <2>3
<1>3. pc[st] \in DOMAIN stateTables[st].actions
  BY <1>2
<1>4. PICK p \in DOMAIN design : InitialBlock(p) /\ \E k \in 1..Stays(p) :
         stateTables[st].actions[pc[st]] = Action(p, k)
  BY <1>1, <1>3 DEF IInv, PartsInv, Known
<1>5. PICK k \in 1..Stays(p) : stateTables[st].actions[pc[st]] = Action(p, k)
  BY <1>4
<1>6. /\ \A q, n : Action(q, n).from = q /\ Action(q, n).nth = n
      /\ last[p] \in Nat /\ Stays(p) \in Nat
  <2>1. Stays(p) \in Nat
    BY FirstFacts, ParsedFacts DEF IInv, ShapeInv, Stays
  <2>2. QED BY <2>1 DEF Action, IInv, ExecInv
<1>7. ~(k <= last[p])
  <2>1. pc[st] < pc[st] <=> stateTables[st].actions[pc[st]].nth
                             <= last[stateTables[st].actions[pc[st]].from]
    BY <1>1, <1>3 DEF IInv, ExecInv, InitialInv
  <2>2. QED BY <1>2, <1>5, <1>6, <2>1
<1>8. ASSUME k # 1 PROVE k - 1 <= last[p]
  <2>1. k - 1 \in 1..Stays(p)
    BY <1>6, <1>8
  <2>2. PICK su \in Firsts : In(Action(p, k - 1), stateTables[su].actions)
    BY <1>4, <2>1 DEF IInv, PartsInv, Present
  <2>3. PICK n \in DOMAIN stateTables[su].actions : stateTables[su].actions[n] = Action(p, k - 1)
    BY <2>2 DEF In
  <2>4. su = st
    BY <1>1, <1>3, <1>5, <1>6, <2>3 DEF IInv, PartsInv, Gathered
  <2>5. n \in Nat
    BY <1>2, <2>3, <2>4
  <2>6. pc[st] < n => k < k - 1
    BY <1>1, <1>3, <1>5, <1>6, <2>3, <2>4 DEF IInv, PartsInv, Ordered
  <2>7. n # pc[st]
    BY <1>5, <1>6, <2>3, <2>4
  <2>8. n < pc[st]
    BY <1>2, <2>5, <2>6, <2>7
  <2>9. n < pc[st] <=> stateTables[st].actions[n].nth <= last[stateTables[st].actions[n].from]
    BY <1>1, <2>3, <2>4 DEF IInv, ExecInv, InitialInv
  <2>10. QED BY <1>6, <2>3, <2>4, <2>8, <2>9
<1>9. k = last[p] + 1
  BY <1>5, <1>6, <1>7, <1>8
<1>10. QED BY <1>1, <1>3, <1>4, <1>5, <1>9

LEMMA SizeFacts ==
    ASSUME ShapeInv, NEW p \in DOMAIN design
    PROVE  /\ Len(design[p].body) \in Nat /\ First(p) \in Nat /\ Stays(p) \in Nat
           /\ First(p) <= Len(design[p].body) /\ Stays(p) <= Len(design[p].body)
BY FirstFacts, ParsedFacts DEF ShapeInv, Stays

LEMMA RunInitialPreserves ==
    ASSUME IInv, NEW st \in DOMAIN stateTables, RunInitial(st)
    PROVE  IInv'
<1>1. /\ phase = "initial" /\ phase' = "initial"
      /\ UNCHANGED <<design, stateTables, initialProcesses, todo>>
      /\ pc' = [pc EXCEPT ![st] = @ + 1]
  BY DEF RunInitial
<1>2. PICK i : i = pc[st]
  OBVIOUS
<1>3. PICK p \in DOMAIN design :
         /\ InitialBlock(p) /\ last[p] + 1 \in 1..Stays(p)
         /\ stateTables[st].actions[i] = Action(p, last[p] + 1)
  BY <1>2, RunInitialFacts
<1>4. st \in Firsts /\ i \in DOMAIN stateTables[st].actions
  BY <1>2, RunInitialFacts
<1>5. \A q, n : Action(q, n).from = q /\ Action(q, n).nth = n
  BY DEF Action
<1>6. last' = [last EXCEPT ![p] = last[p] + 1]
  <2>1. last' = [last EXCEPT ![Current(st).from] = Current(st).nth]
    BY DEF RunInitial, Perform
  <2>2. Current(st) = Action(p, last[p] + 1)
    BY <1>2, <1>3 DEF Current
  <2>3. Current(st).from = p /\ Current(st).nth = last[p] + 1
    BY <1>5, <2>2
  <2>4. QED BY <2>1, <2>3
<1>7. /\ pc \in [DOMAIN stateTables -> Nat \ {0}] /\ last \in [DOMAIN design -> Nat]
      /\ stateTables[st].actions \in Seq(AllActions) /\ ShapeInv
  BY DEF IInv, ExecInv, ShapeInv, HifProcesses
<1>8. \A q : Stays(q)' = Stays(q) /\ Firsts' = Firsts
  BY <1>1, SameTables DEF IInv, Phases
<1>9. ASSUME NEW su \in Firsts, NEW n \in DOMAIN stateTables[su].actions
      PROVE  n < pc'[su] <=> stateTables[su].actions[n].nth
                               <= last'[stateTables[su].actions[n].from]
  <2>1. n < pc[su] <=> stateTables[su].actions[n].nth <= last[stateTables[su].actions[n].from]
    BY <1>1 DEF IInv, ExecInv, InitialInv
  <2>2. PICK a : a = stateTables[su].actions[n]
    OBVIOUS
  <2>3. /\ a.from \in DOMAIN design /\ a.nth \in Nat /\ n \in Nat
    BY <2>2, KnownActions DEF IInv
  <2>4. CASE su # st
    <3>1. a.from # p
      BY <1>3, <1>4, <1>5, <2>2, <2>4 DEF IInv, PartsInv, Gathered
    <3>2. last'[a.from] = last[a.from] /\ pc'[su] = pc[su]
      BY <1>1, <1>6, <1>7, <2>3, <2>4, <3>1 DEF Firsts
    <3>3. QED BY <2>1, <2>2, <3>2
  <2>5. CASE su = st
    <3>1. pc'[st] = i + 1 /\ i \in Nat
      BY <1>1, <1>2, <1>7
    <3>2. CASE a.from # p
      <4>1. last'[a.from] = last[a.from] /\ n # i
        BY <1>3, <1>5, <1>6, <1>7, <2>2, <2>3, <2>5, <3>2
      <4>2. QED BY <1>2, <2>1, <2>2, <2>3, <2>5, <3>1, <4>1
    <3>3. CASE a.from = p
      <4>1. last'[p] = last[p] + 1 /\ last[p] \in Nat
        BY <1>6, <1>7
      <4>2. CASE n = i
        BY <1>3, <1>5, <2>2, <2>5, <3>1, <3>3, <4>1, <4>2
      <4>3. CASE n < i
        BY <1>2, <2>1, <2>2, <2>3, <2>5, <3>1, <3>3, <4>1, <4>3
      <4>4. CASE n > i
        <5>1. i < n => last[p] + 1 < a.nth
          BY <1>3, <1>4, <1>5, <2>2, <2>5, <3>3 DEF IInv, PartsInv, Ordered
        <5>2. QED BY <2>2, <2>3, <2>5, <3>1, <3>3, <4>1, <4>4, <5>1
      <4>5. QED BY <2>3, <3>1, <4>2, <4>3, <4>4
    <3>4. QED BY <3>2, <3>3
  <2>6. QED BY <2>4, <2>5
<1>10. ASSUME NEW q \in DOMAIN design
       PROVE  /\ last'[q] <= Len(design[q].body)
              /\ IF InitialBlock(q) THEN last'[q] <= Stays(q) ELSE last'[q] = 0
  <2>1. IF InitialBlock(q) THEN last[q] <= Stays(q) ELSE last[q] = 0
    BY <1>1 DEF IInv, ExecInv, InitialInv
  <2>2. /\ Len(design[q].body) \in Nat /\ Stays(q) \in Nat /\ Stays(q) <= Len(design[q].body)
    BY <1>7, SizeFacts
  <2>3. CASE q = p
    BY <1>3, <1>6, <1>7, <2>2, <2>3
  <2>4. CASE q # p
    BY <1>6, <1>7, <2>1, <2>2, <2>4
  <2>5. QED BY <2>3, <2>4
<1>11. InitialInv'
  <2>1. \A su \in (DOMAIN stateTables) \ Firsts : pc'[su] = 1
    BY <1>1, <1>4, <1>7 DEF IInv, ExecInv, InitialInv
  <2>2. QED BY <1>1, <1>8, <1>9, <1>10, <2>1, SameDesign DEF InitialInv
<1>12. \A su \in DOMAIN stateTables : pc'[su] <= Len(stateTables[su].actions) + 1
  <2>1. pc'[st] <= Len(stateTables[st].actions) + 1
    BY <1>1, <1>2, <1>4, <1>7
  <2>2. \A su \in (DOMAIN stateTables) \ {st} : pc'[su] <= Len(stateTables[su].actions) + 1
    BY <1>1, <1>7 DEF IInv, ExecInv
  <2>3. QED BY <2>1, <2>2
<1>13. pc' \in [DOMAIN stateTables -> Nat \ {0}] /\ last' \in [DOMAIN design -> Nat]
  BY <1>1, <1>3, <1>6, <1>7
<1>14. ExecInv'
  BY <1>1, <1>10, <1>11, <1>12, <1>13 DEF ExecInv, BeforeInv, RunProcessInv
<1>15. QED BY <1>1, <1>14, RunPreserves

LEMMA StartProcessesPreserves ==
    ASSUME IInv, StartProcesses
    PROVE  IInv'
<1>1. /\ phase = "initial" /\ phase' = "run"
      /\ UNCHANGED <<design, last, stateTables, initialProcesses, todo, pc>>
      /\ ShapeInv /\ design \in Designs
      /\ pc \in [DOMAIN stateTables -> Nat \ {0}] /\ last \in [DOMAIN design -> Nat]
  BY DEF StartProcesses, vars, IInv, ShapeInv, ExecInv
<1>2. /\ design \in Seq(SourceProcesses)
      /\ \A q \in DOMAIN design : Splitted(q) \notin Firsts
  BY <1>1, DesignsAssumption DEF WellFormed, Splitted, Firsts, InitialBlock
<1>3. ASSUME NEW p \in DOMAIN design, InitialBlock(p)
      PROVE  last[p] = Stays(p)
  <2>1. last[p] <= Stays(p) /\ last[p] \in Nat /\ Stays(p) \in Nat
    BY <1>1, <1>3, SizeFacts DEF IInv, ExecInv, InitialInv
  <2>2. CASE Stays(p) = 0
    BY <2>1, <2>2
  <2>3. CASE Stays(p) # 0
    <3>1. Stays(p) \in 1..Stays(p)
      BY <2>1, <2>3
    <3>2. PICK st \in Firsts : In(Action(p, Stays(p)), stateTables[st].actions)
      BY <1>3, <3>1 DEF IInv, PartsInv, Present
    <3>3. PICK n \in DOMAIN stateTables[st].actions :
             stateTables[st].actions[n] = Action(p, Stays(p))
      BY <3>2 DEF In
    <3>4. st \in DOMAIN stateTables /\ _isInitial(st)
      BY <1>1, FlavourFacts DEF Firsts
    <3>5. stateTables[st] \in HifProcesses
      BY <1>1, <3>4 DEF ShapeInv
    <3>6. stateTables[st].actions \in Seq(AllActions)
      BY <3>5 DEF HifProcesses
    <3>7. pc[st] > Len(stateTables[st].actions)
      BY <3>4 DEF StartProcesses, IsDone
    <3>8. n < pc[st]
      <4>1. n \in Nat /\ n <= Len(stateTables[st].actions) /\ Len(stateTables[st].actions) \in Nat
        BY <3>6
      <4>2. pc[st] \in Nat
        BY <1>1, <3>4
      <4>3. QED BY <3>7, <4>1, <4>2
    <3>9. n < pc[st] <=> stateTables[st].actions[n].nth <= last[stateTables[st].actions[n].from]
      BY <1>1 DEF IInv, ExecInv, InitialInv
    <3>10. Stays(p) <= last[p]
      BY <3>3, <3>8, <3>9 DEF Action
    <3>11. QED BY <2>1, <3>10
  <2>4. QED BY <2>2, <2>3
<1>4. ASSUME NEW p \in DOMAIN design, InitialBlock(p), IsSplit(p)
      PROVE  pc[Splitted(p)] <= Len(Rest(p)) /\ last[p] + 1 = First(p) + pc[Splitted(p)]
  <2>1. pc[Splitted(p)] = 1
    BY <1>1, <1>2, <1>4 DEF IInv, ExecInv, InitialInv, IsSplit
  <2>2. last[p] = First(p)
    BY <1>3, <1>4 DEF Stays
  <2>3. Len(Rest(p)) = Len(design[p].body) - First(p) + 1
    BY <1>1, RestFacts
  <2>4. Len(design[p].body) \in Nat /\ First(p) \in Nat /\ First(p) <= Len(design[p].body)
    BY <1>1, SizeFacts
  <2>5. QED BY <2>1, <2>2, <2>3, <2>4
<1>5. ASSUME NEW p \in DOMAIN design, ~InitialBlock(p), p \in DOMAIN stateTables
      PROVE  pc[p] <= Len(design[p].body) /\ pc[p] = FollowingStatement(p)
  <2>1. pc[p] = 1 /\ last[p] = 0
    BY <1>1, <1>5 DEF IInv, ExecInv, InitialInv, Firsts
  <2>2. design[p].flavour = "pf_hdl" /\ design[p].body \in Seq(Statements)
    BY <1>1, <1>5, ParsedFacts DEF InitialBlock, Flavours
  <2>3. design[p].body # <<>>
    BY <1>1, <2>2, DesignsAssumption DEF WellFormed
  <2>4. Len(design[p].body) \in Nat /\ Len(design[p].body) # 0
    BY <2>2, <2>3
  <2>5. QED BY <2>1, <2>2, <2>4 DEF FollowingStatement
<1>6. RunProcessInv'
  <2>1. \A p : FollowingStatement(p)' = FollowingStatement(p) /\ IsSplit(p)' = IsSplit(p)
    BY <1>1, SameDesign DEF FollowingStatement, IsSplit
  <2>2. QED BY <1>1, <1>4, <1>5, <2>1, SameDesign DEF RunProcessInv
<1>7. ExecInv'
  BY <1>1, <1>6 DEF IInv, ExecInv, BeforeInv, InitialInv
<1>8. QED BY <1>1, <1>7, RunPreserves

(* A process of phase "run" executes the following statement too.             *)
LEMMA RunProcessFacts ==
    ASSUME IInv, NEW st \in DOMAIN stateTables, RunProcess(st)
    PROVE  \E p \in DOMAIN design :
              /\ Current(st) = Action(p, FollowingStatement(p))
              /\ FollowingStatement(p) \in 1..Len(design[p].body)
              /\ \/ IsHdl(st) /\ st = p
                 \/ /\ IsRest(st) /\ st = Splitted(p) /\ InitialBlock(p)
                    /\ stateTables[st].actions = Rest(p) /\ pc[st] < Len(Rest(p))
<1>1. /\ phase = "run" /\ ShapeInv /\ design \in Designs /\ last \in [DOMAIN design -> Nat]
      /\ pc[st] \in Nat /\ pc[st] >= 1
      /\ Current(st) # TailWait
  BY DEF RunProcess, IInv, ShapeInv, ExecInv
<1>2. IsHdl(st) \/ IsRest(st)
  BY <1>1, FlavourFacts DEF RunProcess
<1>3. CASE IsHdl(st)
  <2>1. st \in DOMAIN design /\ ~InitialBlock(st) /\ stateTables[st].actions = Parsed(st)
    BY <1>3 DEF IsHdl, InitialBlock, Parsed
  <2>2. pc[st] <= Len(design[st].body) /\ pc[st] = FollowingStatement(st)
    BY <1>1, <2>1 DEF IInv, ExecInv, RunProcessInv
  <2>3. /\ Len(design[st].body) \in Nat
        /\ \A n \in 1..Len(design[st].body) : Parsed(st)[n] = Action(st, n)
    BY <1>1, <2>1, ParsedFacts
  <2>4. pc[st] \in 1..Len(design[st].body)
    BY <1>1, <2>2, <2>3
  <2>5. Current(st) = Action(st, pc[st])
    BY <2>1, <2>3, <2>4 DEF Current
  <2>6. QED BY <1>3, <2>1, <2>2, <2>4, <2>5
<1>4. CASE IsRest(st)
  <2>1. PICK p \in DOMAIN design : InitialBlock(p) /\ st = Splitted(p)
                                  /\ stateTables[st] = HifProcess("pf_hdl", Rest(p), FALSE)
    BY <1>4 DEF IsRest
  <2>2. IsSplit(p) /\ stateTables[st].actions = Rest(p)
    BY <2>1 DEF IsSplit, HifProcess
  <2>3. pc[st] <= Len(Rest(p)) /\ last[p] + 1 = First(p) + pc[st]
    BY <1>1, <2>1, <2>2 DEF IInv, ExecInv, RunProcessInv
  <2>4. /\ Len(design[p].body) \in Nat /\ First(p) \in Nat
        /\ First(p) <= Len(design[p].body)
        /\ Len(Rest(p)) = Len(design[p].body) - First(p) + 1
    BY <1>1, SizeFacts, RestFacts
  <2>5. pc[st] # Len(Rest(p))
    <3>1. Rest(p)[Len(Rest(p))] = TailWait
      BY <1>1, <2>4, RestFacts
    <3>2. QED BY <1>1, <2>2, <3>1 DEF Current
  <2>6. pc[st] \in 1..(Len(design[p].body) - First(p)) /\ pc[st] < Len(Rest(p))
    BY <1>1, <2>3, <2>4, <2>5
  <2>7. Rest(p)[pc[st]] = Action(p, First(p) + pc[st])
    BY <1>1, <2>6, RestFacts
  <2>8. FollowingStatement(p) = last[p] + 1
    BY <2>1 DEF FollowingStatement, InitialBlock
  <2>9. FollowingStatement(p) \in 1..Len(design[p].body)
    BY <1>1, <2>3, <2>4, <2>6, <2>8
  <2>10. Current(st) = Action(p, FollowingStatement(p))
    BY <2>2, <2>3, <2>7, <2>8 DEF Current
  <2>11. QED BY <1>4, <2>1, <2>2, <2>6, <2>9, <2>10
<1>5. QED BY <1>2, <1>3, <1>4

LEMMA RunProcessPreserves ==
    ASSUME IInv, NEW st \in DOMAIN stateTables, RunProcess(st)
    PROVE  IInv'
<1>1. /\ phase = "run" /\ phase' = "run"
      /\ UNCHANGED <<design, stateTables, initialProcesses, todo>>
      /\ pc' = [pc EXCEPT ![st] = IF @ = Len(stateTables[st].actions) THEN 1 ELSE @ + 1]
      /\ ShapeInv /\ design \in Seq(SourceProcesses)
      /\ pc \in [DOMAIN stateTables -> Nat \ {0}] /\ last \in [DOMAIN design -> Nat]
  BY DesignsAssumption DEF RunProcess, IInv, ShapeInv, ExecInv, WellFormed
<1>2. PICK p \in DOMAIN design :
         /\ Current(st) = Action(p, FollowingStatement(p))
         /\ FollowingStatement(p) \in 1..Len(design[p].body)
         /\ \/ IsHdl(st) /\ st = p
            \/ /\ IsRest(st) /\ st = Splitted(p) /\ InitialBlock(p)
               /\ stateTables[st].actions = Rest(p) /\ pc[st] < Len(Rest(p))
  BY RunProcessFacts
<1>3. last' = [last EXCEPT ![p] = FollowingStatement(p)]
  <2>1. last' = [last EXCEPT ![Current(st).from] = Current(st).nth]
    BY DEF RunProcess, Perform
  <2>2. Current(st).from = p /\ Current(st).nth = FollowingStatement(p)
    BY <1>2 DEF Action
  <2>3. QED BY <2>1, <2>2
<1>4. /\ \A q \in DOMAIN design : Len(design[q].body) \in Nat
      /\ \A q \in DOMAIN design : Splitted(q) \notin DOMAIN design
      /\ \A q, r \in DOMAIN design : Splitted(q) = Splitted(r) => q = r
  BY <1>1, SizeFacts DEF Splitted
<1>5. /\ \A q \in DOMAIN design : last'[q] <= Len(design[q].body)
      /\ last' \in [DOMAIN design -> Nat]
      /\ \A q \in (DOMAIN design) \ {p} : last'[q] = last[q]
      /\ last'[p] = FollowingStatement(p)
  BY <1>1, <1>2, <1>3, <1>4 DEF IInv, ExecInv
<1>6. ASSUME NEW q \in DOMAIN design, InitialBlock(q), IsSplit(q)
      PROVE  pc'[Splitted(q)] <= Len(Rest(q)) /\ last'[q] + 1 = First(q) + pc'[Splitted(q)]
  <2>1. pc[Splitted(q)] <= Len(Rest(q)) /\ last[q] + 1 = First(q) + pc[Splitted(q)]
    BY <1>1, <1>6 DEF IInv, ExecInv, RunProcessInv
  <2>2. Splitted(q) \in DOMAIN stateTables
    BY <1>6 DEF IsSplit
  <2>3. CASE q = p
    <3>1. IsRest(st) /\ st = Splitted(p) /\ stateTables[st].actions = Rest(p) /\ pc[st] < Len(Rest(p))
      BY <1>2, <1>6, <2>3 DEF IsHdl, InitialBlock
    <3>2. Len(Rest(p)) \in Nat /\ First(p) \in Nat
      BY <1>1, SizeFacts, RestFacts DEF ShapeInv
    <3>3. pc'[st] = pc[st] + 1 /\ pc[st] \in Nat
      BY <1>1, <3>1, <3>2
    <3>4. last'[p] = last[p] + 1 /\ last[p] \in Nat
      BY <1>1, <1>5, <1>6, <2>3 DEF FollowingStatement, InitialBlock
    <3>5. QED BY <2>1, <2>3, <3>1, <3>2, <3>3, <3>4
  <2>4. CASE q # p
    <3>1. Splitted(q) # st
      BY <1>2, <1>4, <2>4
    <3>2. QED BY <1>1, <1>5, <2>1, <2>2, <2>4, <3>1
  <2>5. QED BY <2>3, <2>4
<1>7. ASSUME NEW q \in DOMAIN design, ~InitialBlock(q), q \in DOMAIN stateTables
      PROVE  pc'[q] <= Len(design[q].body) /\ pc'[q] = FollowingStatement(q)'
  <2>1. pc[q] <= Len(design[q].body) /\ pc[q] = FollowingStatement(q)
    BY <1>1, <1>7 DEF IInv, ExecInv, RunProcessInv
  <2>2. design[q].flavour = "pf_hdl"
    BY <1>7, ParsedFacts DEF InitialBlock, Flavours, IInv, ShapeInv
  <2>3. FollowingStatement(q)' = IF last'[q] = Len(design[q].body) THEN 1 ELSE last'[q] + 1
    BY <1>1, <2>2 DEF FollowingStatement
  <2>4. CASE q = p
    <3>1. IsHdl(st) /\ st = p
      BY <1>2, <1>7, <2>4
    <3>2. Len(stateTables[st].actions) = Len(design[p].body)
      BY <3>1, ParsedFacts DEF IsHdl, Parsed, IInv, ShapeInv
    <3>3. pc'[p] = IF pc[p] = Len(design[p].body) THEN 1 ELSE pc[p] + 1
      BY <1>1, <3>1, <3>2
    <3>4. pc[p] \in Nat /\ pc[p] >= 1 /\ last'[p] = pc[p]
      BY <1>1, <1>5, <1>7, <2>1, <2>4
    <3>5. QED BY <1>4, <2>1, <2>3, <2>4, <3>3, <3>4
  <2>5. CASE q # p
    <3>1. q # st
      BY <1>2, <1>4, <2>5
    <3>2. pc'[q] = pc[q] /\ last'[q] = last[q]
      BY <1>1, <1>5, <1>7, <2>5, <3>1
    <3>3. QED BY <2>1, <2>2, <2>3, <3>2 DEF FollowingStatement
  <2>6. QED BY <2>4, <2>5
<1>8. /\ pc' \in [DOMAIN stateTables -> Nat \ {0}]
      /\ \A su \in DOMAIN stateTables : pc'[su] <= Len(stateTables[su].actions) + 1
  <2>1. stateTables[st] \in HifProcesses
    BY <1>1 DEF ShapeInv
  <2>2. Len(stateTables[st].actions) \in Nat
    BY <2>1 DEF HifProcesses
  <2>3. pc[st] <= Len(stateTables[st].actions) + 1 /\ pc[st] \in Nat
    BY <1>1 DEF IInv, ExecInv
  <2>4. pc[st] <= Len(stateTables[st].actions)
    <3>1. CASE IsHdl(st) /\ st = p
      <4>1. pc[st] <= Len(design[st].body)
        <5>1. ~InitialBlock(st)
          BY <3>1 DEF IsHdl, InitialBlock
        <5>2. QED BY <1>1, <3>1, <5>1 DEF IInv, ExecInv, RunProcessInv
      <4>2. Len(stateTables[st].actions) = Len(design[st].body)
        BY <3>1, ParsedFacts DEF IsHdl, Parsed, IInv, ShapeInv
      <4>3. QED BY <4>1, <4>2
    <3>2. CASE stateTables[st].actions = Rest(p) /\ pc[st] < Len(Rest(p))
      BY <2>2, <2>3, <3>2
    <3>3. QED BY <1>2, <3>1, <3>2
  <2>5. pc'[st] \in Nat \ {0} /\ pc'[st] <= Len(stateTables[st].actions) + 1
    BY <1>1, <2>2, <2>3, <2>4
  <2>6. \A su \in (DOMAIN stateTables) \ {st} :
           pc'[su] = pc[su] /\ pc[su] <= Len(stateTables[su].actions) + 1
    BY <1>1 DEF IInv, ExecInv
  <2>7. \A su \in DOMAIN stateTables : pc'[su] <= Len(stateTables[su].actions) + 1
    BY <2>5, <2>6
  <2>8. pc' \in [DOMAIN stateTables -> Nat \ {0}]
    BY <1>1, <2>5
  <2>9. QED BY <2>7, <2>8
<1>9. RunProcessInv'
  <2>1. \A q : IsSplit(q)' = IsSplit(q)
    BY <1>1, SameDesign DEF IsSplit
  <2>2. QED BY <1>1, <1>6, <1>7, <2>1, SameDesign DEF RunProcessInv
<1>10. ExecInv'
  BY <1>1, <1>5, <1>8, <1>9 DEF ExecInv, BeforeInv, InitialInv
<1>11. QED BY <1>1, <1>10, RunPreserves

-----------------------------------------------------------------------------
(* The theorems.                                                              *)
LEMMA StutterPreserves ==
    ASSUME IInv, UNCHANGED allVars
    PROVE  IInv'
<1>1. UNCHANGED <<design, last, phase, stateTables, initialProcesses, todo, pc>>
  BY DEF allVars, vars, hifVars
<1>2. /\ ShapeInv' /\ PartsInv' /\ Firsts' = Firsts
      /\ \A q : Stays(q)' = Stays(q) /\ IsSplit(q)' = IsSplit(q) /\ Clean(q)' = Clean(q)
  BY <1>1, SameTables DEF IInv, ShapeInv
<1>3. \A q : FollowingStatement(q)' = FollowingStatement(q)
  BY <1>1 DEF FollowingStatement
<1>4. BeforeInv' /\ InitialInv'
  BY <1>1, <1>2, SameDesign DEF IInv, ExecInv, BeforeInv, InitialInv
<1>5. RunProcessInv'
  BY <1>1, <1>2, <1>3, SameDesign DEF IInv, ExecInv, RunProcessInv
<1>6. ExecInv'
  BY <1>1, <1>4, <1>5 DEF IInv, ExecInv
<1>7. \A n : /\ InitialBlock(initialProcesses[n])' = InitialBlock(initialProcesses[n])
             /\ InitialBlock(todo[n])' = InitialBlock(todo[n])
             /\ ParsedProcess(todo[n])' = ParsedProcess(todo[n])
             /\ IsSplit(todo[n])' = IsSplit(todo[n])
  BY <1>1 DEF InitialBlock, ParsedProcess, HifProcess, Action, IsSplit, Splitted
<1>8. CollectInv' /\ CleanInv'
  BY <1>1, <1>2, SameDesign DEF IInv, LoopInv, CollectInv, CleanInv
<1>9. SplitInv' /\ MergeInv'
  BY <1>1, <1>2, <1>7, SameDesign DEF IInv, LoopInv, SplitInv, MergeInv
<1>10. QED BY <1>1, <1>2, <1>6, <1>7, <1>8, <1>9 DEF IInv, LoopInv

LEMMA Inductive == IInv /\ [HifNext]_allVars => IInv'
<1> SUFFICES ASSUME IInv, [HifNext]_allVars PROVE IInv'
  OBVIOUS
<1>1. CASE Translate
  BY <1>1, CollectPreserves, EndCollectPreserves, SplitPreserves, EndSplitPreserves,
     MergePreserves, EndMergePreserves DEF Translate
<1>2. CASE StartProcesses
  BY <1>2, StartProcessesPreserves
<1>3. ASSUME NEW st \in DOMAIN stateTables, Run(st) PROVE IInv'
  BY <1>3, RunInitialPreserves, RunProcessPreserves DEF Run
<1>4. CASE UNCHANGED allVars
  BY <1>4, StutterPreserves
<1>5. QED BY <1>1, <1>2, <1>3, <1>4 DEF HifNext

LEMMA InvariantHolds == HifSpec => []IInv
<1>1. HifInit => IInv
  BY InitInv
<1>2. IInv /\ [HifNext]_allVars => IInv'
  BY Inductive
<1>3. QED BY <1>1, <1>2, PTL DEF HifSpec

LEMMA InvariantTypes ==
    ASSUME IInv
    PROVE  TypeOK
<1>1. /\ design \in Designs /\ phase \in Phases /\ DOMAIN pc = DOMAIN stateTables
      /\ design \in Seq(SourceProcesses)
  BY DesignsAssumption DEF IInv, ShapeInv, ExecInv, WellFormed
<1>2. ASSUME NEW st \in DOMAIN stateTables
      PROVE  /\ stateTables[st].flavour \in Flavours
             /\ stateTables[st].actions \in Seq(AllActions)
             /\ pc[st] \in 1..(Len(stateTables[st].actions) + 1)
  <2>1. stateTables[st] \in HifProcesses /\ pc[st] \in Nat \ {0}
        /\ pc[st] <= Len(stateTables[st].actions) + 1
    BY DEF IInv, ShapeInv, ExecInv
  <2>2. stateTables[st].actions \in Seq(AllActions) /\ stateTables[st].flavour \in Flavours
    BY <2>1 DEF HifProcesses
  <2>3. Len(stateTables[st].actions) \in Nat
    BY <2>2
  <2>4. QED BY <2>1, <2>2, <2>3
<1>3. ASSUME NEW st \in DOMAIN stateTables, NEW n \in DOMAIN stateTables[st].actions,
             NEW a, a = stateTables[st].actions[n]
      PROVE  \/ a = TailWait /\ st > Len(design)
             \/ a.from \in DOMAIN design /\ a.nth \in DOMAIN design[a.from].body
  <2>1. CASE st \in Firsts
    <3>1. /\ a.from \in DOMAIN design /\ a.nth \in Nat /\ a.nth >= 1
          /\ a.nth <= Len(design[a.from].body)
      BY <1>3, <2>1, KnownActions DEF IInv
    <3>2. DOMAIN design[a.from].body = 1..Len(design[a.from].body)
          /\ Len(design[a.from].body) \in Nat
      BY <1>1, <3>1, ParsedFacts
    <3>3. QED BY <3>1, <3>2
  <2>2. CASE IsHdl(st)
    <3>1. /\ st \in DOMAIN design /\ stateTables[st].actions = Parsed(st)
          /\ Parsed(st) = [k \in DOMAIN design[st].body |-> Action(st, k)]
      BY <2>2 DEF IsHdl, Parsed, ParsedProcess, HifProcess
    <3>2. QED BY <1>3, <3>1 DEF Action
  <2>3. CASE IsRest(st)
    <3>1. PICK p \in DOMAIN design : st = Splitted(p) /\ stateTables[st].actions = Rest(p)
      BY <2>3 DEF IsRest, HifProcess
    <3>2. /\ Len(design[p].body) \in Nat /\ First(p) \in Nat /\ First(p) <= Len(design[p].body)
          /\ DOMAIN design[p].body = 1..Len(design[p].body)
          /\ DOMAIN Rest(p) = 1..(Len(design[p].body) - First(p) + 1)
          /\ \A k \in 1..(Len(design[p].body) - First(p)) : Rest(p)[k] = Action(p, First(p) + k)
          /\ Rest(p)[Len(design[p].body) - First(p) + 1] = TailWait
      <4>1. /\ Len(design[p].body) \in Nat /\ First(p) \in Nat /\ First(p) <= Len(design[p].body)
            /\ design[p].body \in Seq(Statements)
        BY <1>1, SizeFacts, ParsedFacts DEF IInv
      <4>2. Rest(p) \in Seq(AllActions) /\ Len(Rest(p)) = Len(design[p].body) - First(p) + 1
        BY <1>1, RestFacts
      <4>3. /\ \A k \in 1..(Len(design[p].body) - First(p)) : Rest(p)[k] = Action(p, First(p) + k)
            /\ Rest(p)[Len(design[p].body) - First(p) + 1] = TailWait
        BY <1>1, RestFacts
      <4>4. DOMAIN Rest(p) = 1..(Len(design[p].body) - First(p) + 1)
        BY <4>2
      <4>5. DOMAIN design[p].body = 1..Len(design[p].body)
        BY <4>1
      <4>6. QED BY <4>1, <4>3, <4>4, <4>5, Zenon
    <3>3. CASE n = Len(design[p].body) - First(p) + 1
      <4>1. st > Len(design)
        BY <1>1, <3>1 DEF Splitted
      <4>2. QED BY <1>3, <3>1, <3>2, <3>3, <4>1
    <3>4. CASE n # Len(design[p].body) - First(p) + 1
      <4>1. n \in 1..(Len(design[p].body) - First(p))
        BY <3>1, <3>2, <3>4
      <4>2. a = Action(p, First(p) + n)
        <5>1. \A k \in 1..(Len(design[p].body) - First(p)) : Rest(p)[k] = Action(p, First(p) + k)
          BY <3>2, Zenon
        <5>2. Rest(p)[n] = Action(p, First(p) + n)
          BY <4>1, <5>1, Zenon
        <5>3. QED BY <1>3, <3>1, <5>2
      <4>3. a.from = p /\ a.nth = First(p) + n
        BY <4>2 DEF Action
      <4>4. QED BY <3>2, <4>1, <4>3
    <3>5. QED BY <3>3, <3>4
  <2>4. QED BY <2>1, <2>2, <2>3, FlavourFacts DEF IInv
<1>4. ASSUME NEW st \in DOMAIN stateTables, st > Len(design)
      PROVE  \E n \in DOMAIN stateTables[st].actions : stateTables[st].actions[n] = TailWait
  <2>1. st \notin DOMAIN design
    BY <1>1, <1>4
  <2>2. IsRest(st)
    BY <2>1, FlavourFacts DEF IInv, IsHdl, Firsts, InitialBlock
  <2>3. PICK p \in DOMAIN design : stateTables[st].actions = Rest(p)
    BY <2>2 DEF IsRest, HifProcess
  <2>4. PICK l : l = Len(design[p].body) - First(p) + 1
    OBVIOUS
  <2>5. l \in Nat /\ l >= 1
    BY <2>4, SizeFacts DEF IInv
  <2>6. Rest(p) \in Seq(AllActions) /\ Len(Rest(p)) = l /\ Rest(p)[l] = TailWait
    BY <1>1, <2>4, RestFacts
  <2>7. QED BY <2>3, <2>5, <2>6
<1>5. \A n \in DOMAIN initialProcesses : initialProcesses[n] \in DOMAIN design
  BY DEF IInv, LoopInv
<1>6. \A p \in DOMAIN design : last[p] \in 0..Len(design[p].body)
  <2>1. \A p \in DOMAIN design : last[p] \in Nat /\ last[p] <= Len(design[p].body)
                                /\ Len(design[p].body) \in Nat
    BY SizeFacts DEF IInv, ExecInv
  <2>2. QED BY <2>1
<1>7. QED BY <1>1, <1>2, <1>3, <1>4, <1>5, <1>6 DEF TypeOK

(* The processes of step 2 are well formed: a process made by a split ends in *)
(* the Wait that stops it, and every other action is a statement of the       *)
(* source.                                                                    *)
THEOREM TypeCorrect == HifSpec => []TypeOK
<1>1. IInv => TypeOK
  BY InvariantTypes
<1>2. QED BY <1>1, InvariantHolds, PTL

(* A step of the execution is the following statement of one source process.  *)
LEMMA StepSimulation ==
    ASSUME IInv, [HifNext]_allVars
    PROVE  UNCHANGED vars \/ \E p \in DOMAIN design : Execute(p)
<1>1. CASE Translate \/ StartProcesses \/ UNCHANGED allVars
  BY <1>1 DEF Translate, _collectInitialProcess, EndCollect, _splitInitialProcess, EndSplit,
              _mergeInitialProcess, EndMerge, StartProcesses, allVars
<1>2. ASSUME NEW st \in DOMAIN stateTables, RunInitial(st)
      PROVE  \E p \in DOMAIN design : Execute(p)
  <2>1. PICK p \in DOMAIN design :
           /\ InitialBlock(p) /\ last[p] + 1 \in 1..Stays(p)
           /\ stateTables[st].actions[pc[st]] = Action(p, last[p] + 1)
    BY <1>2, RunInitialFacts
  <2>2. FollowingStatement(p) = last[p] + 1
    BY <2>1 DEF FollowingStatement, InitialBlock
  <2>3. FollowingStatement(p) <= Len(design[p].body)
    <3>1. Stays(p) \in Nat /\ Len(design[p].body) \in Nat /\ Stays(p) <= Len(design[p].body)
      BY SizeFacts DEF IInv
    <3>2. QED BY <2>1, <2>2, <3>1
  <2>4. last' = [last EXCEPT ![p] = FollowingStatement(p)]
    <3>1. last' = [last EXCEPT ![Current(st).from] = Current(st).nth]
      BY <1>2 DEF RunInitial, Perform
    <3>2. Current(st).from = p /\ Current(st).nth = FollowingStatement(p)
      BY <2>1, <2>2 DEF Current, Action
    <3>3. QED BY <3>1, <3>2
  <2>5. design' = design
    BY <1>2 DEF RunInitial
  <2>6. QED BY <2>3, <2>4, <2>5 DEF Execute
<1>3. ASSUME NEW st \in DOMAIN stateTables, RunProcess(st)
      PROVE  \E p \in DOMAIN design : Execute(p)
  <2>1. PICK p \in DOMAIN design : /\ Current(st) = Action(p, FollowingStatement(p))
                                  /\ FollowingStatement(p) \in 1..Len(design[p].body)
    BY <1>3, RunProcessFacts
  <2>2. last' = [last EXCEPT ![p] = FollowingStatement(p)]
    <3>1. last' = [last EXCEPT ![Current(st).from] = Current(st).nth]
      BY <1>3 DEF RunProcess, Perform
    <3>2. Current(st).from = p /\ Current(st).nth = FollowingStatement(p)
      BY <2>1 DEF Action
    <3>3. QED BY <3>1, <3>2
  <2>3. design' = design
    BY <1>3 DEF RunProcess
  <2>4. FollowingStatement(p) <= Len(design[p].body)
    BY <2>1
  <2>5. QED BY <2>2, <2>3, <2>4 DEF Execute
<1>4. QED BY <1>1, <1>2, <1>3 DEF HifNext, Run

(* The HIF of step 2 implements the Verilog: whatever the order in which the  *)
(* processes run, each step is the following statement of a source process,   *)
(* so that no split or merge loses, repeats or reorders a statement.          *)
THEOREM TranslationImplementsVerilog == HifSpec => ImplementsVerilog
<1>1. HifInit => Verilog!Init
  BY DEF HifInit, Init, Verilog!Init
<1>2. IInv /\ [HifNext]_allVars => [Verilog!Next]_(Verilog!vars)
  <2>1. \A p : Execute(p) <=> Verilog!Execute(p)
    BY DEF Execute, FollowingStatement, Verilog!Execute, Verilog!FollowingStatement
  <2>2. UNCHANGED vars <=> UNCHANGED Verilog!vars
    BY DEF vars, Verilog!vars
  <2>3. QED BY <2>1, <2>2, StepSimulation DEF Verilog!Next
<1>3. QED BY <1>1, <1>2, InvariantHolds, PTL DEF HifSpec, ImplementsVerilog

(* No event is triggered before the processes have started: the statements    *)
(* that trigger one have left the initial process.                            *)
THEOREM NoEarlyTrigger == HifSpec => NoTriggerBeforeStart
<1> DEFINE Step == phase = "initial" =>
                     \A p \in DOMAIN design : last'[p] # last[p] =>
                         "Trigger" \notin Holds(design[p].body[last'[p]])
<1>1. IInv /\ [HifNext]_allVars => [Step]_allVars
  <2> SUFFICES ASSUME IInv, HifNext, phase = "initial", NEW p \in DOMAIN design,
                      last'[p] # last[p]
               PROVE  "Trigger" \notin Holds(design[p].body[last'[p]])
    OBVIOUS
  <2>1. PICK st \in DOMAIN stateTables : RunInitial(st)
    BY DEF HifNext, Translate, _collectInitialProcess, EndCollect, _splitInitialProcess, EndSplit,
           _mergeInitialProcess, EndMerge, StartProcesses, vars, Run, RunProcess
  <2>2. PICK q \in DOMAIN design :
           /\ InitialBlock(q) /\ last[q] + 1 \in 1..Stays(q)
           /\ stateTables[st].actions[pc[st]] = Action(q, last[q] + 1)
    BY <2>1, RunInitialFacts
  <2>3. last' = [last EXCEPT ![q] = last[q] + 1]
    <3>1. last' = [last EXCEPT ![Current(st).from] = Current(st).nth]
      BY <2>1 DEF RunInitial, Perform
    <3>2. Current(st).from = q /\ Current(st).nth = last[q] + 1
      BY <2>2 DEF Current, Action
    <3>3. QED BY <3>1, <3>2
  <2>4. last \in [DOMAIN design -> Nat]
    BY DEF IInv, ExecInv
  <2>5. q = p /\ last'[p] = last[q] + 1
    BY <2>3, <2>4
  <2>6. ~_checkWrongStatement(Action(p, last'[p]))
    BY <2>2, <2>5 DEF IInv, LoopInv, CleanInv, Clean
  <2>7. QED BY <2>6 DEF _checkWrongStatement, check_object_method, Statement, Action
<1>2. QED BY <1>1, InvariantHolds, PTL DEF HifSpec, NoTriggerBeforeStart
================================================================================
