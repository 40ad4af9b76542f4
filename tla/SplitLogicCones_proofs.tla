------------------------ MODULE SplitLogicCones_proofs ------------------------
(****************************************************************************)
(* Proofs about SplitLogicCones, for every design and every order in which    *)
(* the declarations and tokens are visited: a finished split has redirected    *)
(* exactly the references that are tokens, so every reference keeps the        *)
(* drivers of its bits and the graph of the declarations is the graph of the   *)
(* parts.                                                                     *)
(****************************************************************************)
EXTENDS SplitLogicCones, TLAPS

(* No bit has two drivers that are written differently. Two drivers of the     *)
(* same part are allowed: the split does not finish on them.                   *)
SingleDrivers(D) ==
    \A v, w \in {s \in D.sites : s.role = "target"} :
        Overlap(v.expr, w.expr) => v.expr = w.expr

(* A reference names a signal iff it is its token, and it was visited.         *)
RedirectInv ==
    /\ \A s \in design.sites : names[s] # None =>
            names[s] \in copied /\ refMatchesToken(s, names[s])
    /\ \A t \in copied : \A s \in design.sites : refMatchesToken(s, t) => names[s] = t
    /\ phase = "done" => todo = {}

THEOREM TypeCorrect == Spec => []TypeOK
<1>1. Init => TypeOK
  BY DesignsAssumption DEF Init, TypeOK, Candidates, WellFormed
<1>2. TypeOK /\ [Next]_vars => TypeOK'
  <2> SUFFICES ASSUME TypeOK, [Next]_vars PROVE TypeOK'
    OBVIOUS
  <2>1. ASSUME NEW t \in Tokens, SplitToken(t) PROVE TypeOK'
    <3>1. t \in todo /\ design.scope[t] \in Scopes
      BY <2>1 DEF SplitToken, Visits, TypeOK, WellFormed
    <3>2. splitIn' \in [Tokens -> Scopes \cup {""}]
      BY <2>1, <3>1 DEF SplitToken, SplitScope, TypeOK
    <3>3. copied' = Candidates(design)' \ todo'
      BY <2>1, <3>1 DEF SplitToken, TypeOK, Candidates
    <3>4. names' \in [design.sites -> Tokens \cup {None}]
      BY <2>1 DEF SplitToken, TypeOK
    <3>5. QED
      BY <2>1, <3>2, <3>3, <3>4 DEF SplitToken, TypeOK, Candidates
  <2>2. CASE \E t \in Tokens : AbortOnDetachedToken(t)
    BY <2>2 DEF AbortOnDetachedToken, TypeOK, Candidates
  <2>3. CASE EndSplit
    BY <2>3 DEF EndSplit, TypeOK, Candidates
  <2>4. CASE UNCHANGED vars
    BY <2>4 DEF vars, TypeOK, Candidates
  <2>5. QED BY <2>1, <2>2, <2>3, <2>4 DEF Next, splitLogicConesLoops, Ended
<1>3. QED BY <1>1, <1>2, PTL DEF Spec

(* Visiting a token redirects it: it is attached and matches itself. *)
LEMMA SplitRedirects ==
    ASSUME TypeOK, RedirectInv, NEW t \in Tokens, SplitToken(t)
    PROVE  RedirectInv'
<1>1. /\ t \in Candidates(design) /\ TargetSite(design, t) \in design.sites
      /\ refMatchesToken(TargetSite(design, t), t)
  BY DEF SplitToken, Visits, TypeOK, Candidates, WellFormed, TargetSite, refMatchesToken
<1>2. /\ design' = design /\ phase' = "split" /\ copied' = copied \cup {t}
      /\ \A s \in design.sites :
            names'[s] = IF names[s] = None /\ refMatchesToken(s, t) THEN t ELSE names[s]
  BY DEF SplitToken, Visits, Attached
<1>3. \A s \in design.sites, u \in Tokens : refMatchesToken(s, u)' = refMatchesToken(s, u)
  BY <1>2 DEF refMatchesToken
<1>4. ASSUME NEW s \in design.sites, refMatchesToken(s, t) PROVE names'[s] = t
  <2>1. CASE names[s] = None
    BY <1>2, <1>4, <2>1
  <2>2. CASE names[s] # None
    <3>1. names[s] \in copied /\ refMatchesToken(s, names[s])
      BY <2>2 DEF RedirectInv
    <3>2. refMatchesToken(TargetSite(design, t), names[s])
      BY <1>1, <1>4, <3>1 DEF refMatchesToken
    <3>3. names[TargetSite(design, t)] = names[s]
      BY <1>1, <3>1, <3>2 DEF RedirectInv
    <3>4. QED BY <2>2, <3>3 DEF SplitToken, Attached
  <2>3. QED BY <2>1, <2>2
<1>5. ASSUME NEW u \in copied', NEW s \in design.sites, refMatchesToken(s, u)
      PROVE  names'[s] = u
  <2>1. CASE u = t
    BY <1>4, <1>5, <2>1
  <2>2. CASE u \in copied
    BY <1>2, <1>5, <2>2, TokensAssumption DEF RedirectInv, TypeOK, Candidates, WellFormed
  <2>3. QED BY <1>2, <1>5, <2>1, <2>2
<1>6. ASSUME NEW s \in design.sites, names'[s] # None
      PROVE  names'[s] \in copied' /\ refMatchesToken(s, names'[s])
  BY <1>2, <1>6 DEF RedirectInv
<1>7. copied' \subseteq Tokens
  BY <1>2 DEF TypeOK, Candidates, WellFormed
<1>8. QED BY <1>2, <1>3, <1>5, <1>6, <1>7 DEF RedirectInv

LEMMA RedirectStep ==
    ASSUME TypeOK, RedirectInv, [Next]_vars
    PROVE  RedirectInv'
<1>1. CASE \E t \in Tokens : SplitToken(t)
  BY <1>1, SplitRedirects
<1>2. CASE \E t \in Tokens : AbortOnDetachedToken(t)
  BY <1>2 DEF AbortOnDetachedToken, RedirectInv, refMatchesToken
<1>3. CASE EndSplit
  BY <1>3 DEF EndSplit, RedirectInv, refMatchesToken
<1>4. CASE UNCHANGED vars
  BY <1>4 DEF vars, RedirectInv, refMatchesToken
<1>5. QED BY <1>1, <1>2, <1>3, <1>4 DEF Next, splitLogicConesLoops, Ended

LEMMA Redirected == Spec => [](TypeOK /\ RedirectInv)
<1>1. Init => RedirectInv
  BY DEF Init, RedirectInv
<1>2. QED BY <1>1, RedirectStep, TypeCorrect, PTL DEF Spec

(* A part overlaps itself, and the whole overlaps every part. *)
LEMMA OverlapFacts ==
    /\ \A e \in Exprs : Overlap(e, e)
    /\ \A e, f \in Exprs : e.decl = f.decl /\ (e.part = Whole \/ f.part = Whole) => Overlap(e, f)
BY PartsAssumption DEF Overlap, Exprs

(* After the split, the writers of the signal of a token are the writers of    *)
(* the part, and every writer that was redirected writes a token.              *)
LEMMA SignalWriters ==
    ASSUME TypeOK, RedirectInv, Done
    PROVE  /\ \A t \in Candidates(design) : WritersOf(t) = {w \in Writers : w.expr = design.tgt[t]}
           /\ \A s \in design.sites : ~Attached(s) =>
                    names[s] \in Candidates(design) /\ s.expr = design.tgt[names[s]]
           /\ copied = Candidates(design)
<1>1. copied = Candidates(design) /\ copied \subseteq Tokens
  BY DEF TypeOK, RedirectInv, Done, Candidates, WellFormed
<1>2. \A s \in design.sites : ~Attached(s) =>
          names[s] \in Candidates(design) /\ s.expr = design.tgt[names[s]]
  BY <1>1 DEF RedirectInv, Attached, refMatchesToken
<1>3. ASSUME NEW t \in Candidates(design)
      PROVE  WritersOf(t) = {w \in Writers : w.expr = design.tgt[t]}
  <2>1. \A w \in Writers : w \in design.sites /\ w.role = "target"
    BY DEF Writers
  <2>2. \A w \in Writers : names[w] = t => w.expr = design.tgt[t]
    BY <1>1, <1>3, <2>1, TokensAssumption DEF RedirectInv, refMatchesToken
  <2>3. \A w \in Writers : w.expr = design.tgt[t] => names[w] = t
    BY <1>1, <1>3, <2>1 DEF RedirectInv, refMatchesToken
  <2>4. QED BY <2>2, <2>3 DEF WritersOf
<1>4. QED BY <1>1, <1>2, <1>3

(* A reference that was redirected sees the writers of its token, and these    *)
(* are the drivers of its bits when no other part shares a bit.                *)
LEMMA RedirectedReaders ==
    ASSUME TypeOK, RedirectInv, Done, SingleDrivers(design), NEW s \in Readers, ~Attached(s)
    PROVE  WritersOf(names[s]) = DriversOnEntry(s)
<1>1. s \in design.sites /\ names[s] \in Candidates(design) /\ s.expr = design.tgt[names[s]]
  BY SignalWriters DEF Readers
<1>2. WritersOf(names[s]) = {w \in Writers : w.expr = s.expr}
  BY <1>1, SignalWriters
<1>3. DEFINE v == TargetSite(design, names[s])
<1>4. v \in Writers /\ v.expr = s.expr
  BY <1>1 DEF Writers, TargetSite, Candidates, TypeOK, WellFormed
<1>5. s.expr \in Exprs
  BY <1>1 DEF TypeOK, WellFormed, Sites
<1>6. \A w \in Writers : Overlap(w.expr, s.expr) <=> w.expr = s.expr
  BY <1>4, <1>5, OverlapFacts DEF SingleDrivers, Writers
<1>7. QED BY <1>2, <1>6 DEF DriversOnEntry

(* The design the properties compare with does not change. *)
LEMMA DesignIsFixed ==
    ASSUME \A D \in Designs : SingleDrivers(D)
    PROVE  Spec => []SingleDrivers(design)
<1>1. Init => SingleDrivers(design)
  BY DEF Init
<1>2. SingleDrivers(design) /\ [Next]_vars => SingleDrivers(design)'
  <2> SUFFICES ASSUME SingleDrivers(design), [Next]_vars PROVE SingleDrivers(design)'
    OBVIOUS
  <2>1. design' = design
    BY DEF Next, splitLogicConesLoops, SplitToken, AbortOnDetachedToken, EndSplit, Ended, vars
  <2>2. QED BY <2>1 DEF SingleDrivers, Overlap
<1>3. QED BY <1>1, <1>2, PTL DEF Spec

(* No reference loses or gains a driver, whatever the order of the addresses. *)
THEOREM DriversAreKept ==
    ASSUME \A D \in Designs : SingleDrivers(D)
    PROVE  Spec => []ReadersKeepTheirDrivers
<1>1. ASSUME TypeOK, RedirectInv, SingleDrivers(design) PROVE ReadersKeepTheirDrivers
  <2> SUFFICES ASSUME Done, NEW s \in Readers PROVE BitDrivers(s) = DriversOnEntry(s)
    BY DEF ReadersKeepTheirDrivers
  <2>1. CASE ~Attached(s)
    BY <1>1, <2>1, RedirectedReaders DEF BitDrivers
  <2>2. CASE Attached(s)
    <3>1. DEFINE viaCopies == UNION {WritersOf(t) : t \in {c \in copied : Overlap(design.tgt[c], s.expr)}}
    <3>2. \A w \in viaCopies : w \in DriversOnEntry(s)
      BY <1>1, SignalWriters DEF DriversOnEntry
    <3>3. ASSUME NEW w \in DriversOnEntry(s), ~Attached(w) PROVE w \in viaCopies
      <4>1. w \in Writers /\ w \in design.sites /\ Overlap(w.expr, s.expr)
        BY DEF DriversOnEntry, Writers
      <4>2. names[w] \in copied /\ w.expr = design.tgt[names[w]] /\ w \in WritersOf(names[w])
        BY <1>1, <3>3, <4>1, SignalWriters DEF WritersOf
      <4>3. QED BY <4>1, <4>2
    <3>4. QED BY <2>2, <3>2, <3>3 DEF BitDrivers
  <2>3. QED BY <2>1, <2>2
<1>2. QED BY <1>1, Redirected, DesignIsFixed, PTL

(* The graph of the declarations depends on exactly what the parts depend on. *)
THEOREM LoopsAreLoopsOfParts ==
    ASSUME \A D \in Designs : SingleDrivers(D)
    PROVE  Spec => []GraphFollowsParts
<1>1. ASSUME TypeOK, RedirectInv, SingleDrivers(design) PROVE GraphFollowsParts
  <2> SUFFICES ASSUME Done, NEW s \in Readers, ReadsTokens(s)
               PROVE  NetDrivers(s) = DriversOnEntry(s)
    BY DEF GraphFollowsParts
  <2>1. CASE ~Attached(s)
    BY <1>1, <2>1, RedirectedReaders DEF NetDrivers
  <2>2. CASE Attached(s)
    <3>1. s \in design.sites /\ s.expr \in Exprs /\ \A w \in Writers : w.expr \in Exprs
      BY <1>1 DEF Readers, Writers, TypeOK, WellFormed, Sites
    <3>2. \A w \in Writers : w.expr.decl = s.expr.decl <=> w \in DriversOnEntry(s)
      <4>1. CASE s.expr.part = Whole
        BY <3>1, <4>1, OverlapFacts DEF DriversOnEntry, Overlap
      <4>2. CASE s.role # "index" /\ \E t \in Candidates(design) : design.tgt[t] = s.expr
        <5>1. PICK t \in copied : refMatchesToken(s, t)
          BY <1>1, <4>2, SignalWriters DEF refMatchesToken
        <5>2. t # None
          BY <1>1, <5>1, SignalWriters, TokensAssumption DEF Candidates, TypeOK, WellFormed
        <5>3. QED BY <1>1, <2>2, <3>1, <5>1, <5>2 DEF RedirectInv, Attached
      <4>3. CASE \A w \in Writers : w.expr.decl = s.expr.decl => w.expr.part = Whole
        BY <3>1, <4>3, OverlapFacts DEF DriversOnEntry, Overlap
      <4>4. QED BY <4>1, <4>2, <4>3 DEF ReadsTokens
    <3>3. \A w \in Writers : w \in NetDrivers(s) <=> w.expr.decl = s.expr.decl
      <4>1. \A w \in Writers : ~Attached(w) =>
                names[w] \in copied /\ w.expr = design.tgt[names[w]] /\ w \in WritersOf(names[w])
        BY <1>1, SignalWriters DEF WritersOf, Writers
      <4>2. \A t \in copied : \A w \in WritersOf(t) : w.expr = design.tgt[t]
        BY <1>1, SignalWriters
      <4>3. QED BY <2>2, <4>1, <4>2 DEF NetDrivers
    <3>4. NetDrivers(s) \subseteq Writers /\ DriversOnEntry(s) \subseteq Writers
      BY <2>2 DEF NetDrivers, DriversOnEntry, WritersOf
    <3>5. QED BY <3>2, <3>3, <3>4
  <2>3. QED BY <2>1, <2>2
<1>2. QED BY <1>1, Redirected, DesignIsFixed, PTL

(* The signal of a token that was visited is where the assignment was.         *)
ScopeInv == \A t \in copied : splitIn[t] = design.scope[t]

LEMMA ScopeStep ==
    ASSUME TypeOK, ScopeInv, [Next]_vars
    PROVE  ScopeInv'
<1>1. ASSUME NEW t \in Tokens, SplitToken(t) PROVE ScopeInv'
  <2>1. /\ design' = design /\ copied' = copied \cup {t}
        /\ splitIn' = [splitIn EXCEPT ![t] = design.scope[t]]
        /\ splitIn \in [Tokens -> Scopes \cup {""}]
    BY <1>1 DEF SplitToken, SplitScope, TypeOK
  <2>2. copied \subseteq Tokens
    BY DEF TypeOK, Candidates, WellFormed
  <2>3. QED BY <2>1, <2>2 DEF ScopeInv
<1>2. CASE \E t \in Tokens : AbortOnDetachedToken(t)
  BY <1>2 DEF AbortOnDetachedToken, ScopeInv
<1>3. CASE EndSplit
  BY <1>3 DEF EndSplit, ScopeInv
<1>4. CASE UNCHANGED vars
  BY <1>4 DEF vars, ScopeInv
<1>5. QED BY <1>1, <1>2, <1>3, <1>4 DEF Next, splitLogicConesLoops, Ended

(* In a design that names a part driven in a for generate only inside that      *)
(* generate, every redirected reference finds the signal it names, after every  *)
(* visit. Section 5 of the README describes the references from elsewhere.      *)
THEOREM SignalsAreInScope ==
    ASSUME \A D \in Designs : \A t \in Candidates(D), s \in D.sites :
               s.role # "index" /\ s.expr = D.tgt[t] => D.scope[t] \in {"module", s.scope}
    PROVE  Spec => []SplitSignalsResolve
<1>1. Init => design \in Designs /\ ScopeInv
  BY DEF Init, ScopeInv
<1>2. design \in Designs /\ [Next]_vars => (design \in Designs)'
  BY DEF Next, splitLogicConesLoops, SplitToken, AbortOnDetachedToken, EndSplit, Ended, vars
<1>3. TypeOK /\ RedirectInv /\ ScopeInv /\ design \in Designs => SplitSignalsResolve
  <2> SUFFICES ASSUME TypeOK, RedirectInv, ScopeInv, design \in Designs,
                      NEW s \in design.sites, ~Attached(s)
               PROVE  splitIn[names[s]] \in {"module", s.scope}
    BY DEF SplitSignalsResolve
  <2>1. names[s] \in copied /\ refMatchesToken(s, names[s])
    BY DEF RedirectInv, Attached
  <2>2. names[s] \in Candidates(design)
    BY <2>1 DEF TypeOK
  <2>3. splitIn[names[s]] = design.scope[names[s]]
    BY <2>1 DEF ScopeInv
  <2>4. QED BY <2>1, <2>2, <2>3 DEF refMatchesToken
<1>4. QED BY <1>1, <1>2, <1>3, ScopeStep, Redirected, PTL DEF Spec
=============================================================================
