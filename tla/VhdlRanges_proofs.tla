--------------------------- MODULE VhdlRanges_proofs ---------------------------
(***************************************************************************)
(* ShapesAreKept for every number of types, dimensions and references, and *)
(* every order of addresses.                                               *)
(***************************************************************************)
EXTENDS VhdlRanges, SequenceTheorems, TLAPS

-------------------------------------------------------------------------------
(* What the source wants of a range, and what the loops make of it.        *)

\* The references that constrain a range in one way.
Wants(key, way) ==
    {r \in Refs : /\ key[1] = design.of[r] /\ key[2] \in DOMAIN design.ranges[r]
                  /\ design.ranges[r][key[2]].dir = way}
Mixed(key) == Wants(key, "upto") # {} /\ Wants(key, "downto") # {}
FinalDir(key) ==
    IF Wants(key, "upto") # {} /\ Wants(key, "downto") = {} THEN "upto" ELSE "downto"

\* The ranges for which a reference needs a copy, and the name of the copy.
Marks(r) == {key \in Keys : Mixed(key) /\ r \in Wants(key, "upto")}
DimsOf(S) == {key[2] : key \in S}
CopyName(r) == <<design.of[r], DimsOf(Marks(r))>>

Copying == phase \in {"copy", "done"}
IsMoved(r) == Copying /\ Marks(r) # {} /\ Marks(r) \notin toCopy

\* The parts of the invariant.
TypeInv ==
    /\ design \in Designs /\ phase \in {"visit", "collect", "copy", "done"}
    /\ bare \subseteq Types /\ toVisit \subseteq Refs /\ toCollect \subseteq Keys
    /\ phase = "visit" => toCollect = {}
    /\ phase # "visit" => bare = {} /\ toVisit = {}
    /\ Copying => toCollect = {}
    /\ phase = "done" => toCopy = {}

\* _rangeMap holds the references visited so far.
MapInv ==
    /\ rangeMap \in [Keys -> [upto : SUBSET Refs, downto : SUBSET Refs]]
    /\ \A key \in Keys : /\ rangeMap[key].upto = Wants(key, "upto") \ toVisit
                         /\ rangeMap[key].downto = Wants(key, "downto") \ toVisit

\* A declaration counts down until the first loop has reached the range.
DirsInv ==
    \A t \in Types :
      /\ Original(t) \in DOMAIN declared
      /\ DOMAIN declared[Original(t)] = {"dirs", "element"}
      /\ DOMAIN declared[Original(t)].dirs = Dims(t)
      /\ t \notin bare =>
           \A k \in Dims(t) :
             declared[Original(t)].dirs[k] =
               IF phase # "visit" /\ <<t, k>> \notin toCollect THEN FinalDir(<<t, k>>) ELSE "downto"

MarkInv ==
    /\ trMap \in [Refs -> SUBSET Keys]
    /\ \A r \in Refs :
         trMap[r] = IF phase = "visit" THEN {} ELSE {key \in Marks(r) : key \notin toCollect}

\* The copies have the directions of the references they are for.
CopiesInv ==
    /\ toCopy \subseteq {Marks(r) : r \in Refs} \ {{}}
    /\ \A n \in DOMAIN declared : n # Original(n[1]) =>
         /\ Copying /\ n[1] \in Types
         /\ declared[n].dirs =
              [k \in Dims(n[1]) |-> IF k \in n[2] THEN "upto" ELSE FinalDir(<<n[1], k>>)]

\* A visited reference has its bounds, and names its declaration or its copy.
RefsInv ==
    /\ \A r \in Refs : Original(r) \in DOMAIN references
    /\ \A i \in DOMAIN references :
         /\ i[1] \in Refs /\ i = <<i[1], i[2]>>
         /\ DOMAIN references[i] = {"name", "ranges", "assigns"}
         /\ ~ Copying => i = Original(i[1])
         /\ i[1] \notin toVisit => references[i].assigns = Assigns(i[1])
         /\ i = Original(i[1]) =>
              references[i].name = IF IsMoved(i[1]) THEN CopyName(i[1]) ELSE Original(design.of[i[1]])
         /\ i # Original(i[1]) =>
              Marks(i[1]) = {} /\ references[i].name = Original(design.of[i[1]])
    /\ \A r \in Refs : IsMoved(r) => CopyName(r) \in DOMAIN declared

IInv == TypeInv /\ MapInv /\ DirsInv /\ MarkInv /\ CopiesInv /\ RefsInv
-------------------------------------------------------------------------------
(* The source.                                                             *)

LEMMA SourceFacts ==
    ASSUME TypeInv
    PROVE  /\ \A r \in Refs : /\ design.of[r] \in Types
                              /\ design.ranges[r] \in Seq(Ranges)
                              /\ Len(design.ranges[r]) \in {0, design.dims[design.of[r]]}
           /\ \A t \in Types : /\ design.dims[t] \in Nat
                               /\ design.element[t] \in Refs \cup {NoRef}
  <1>1. WellFormed(design)
    BY DesignsAssumption DEF TypeInv
  <1>2. design \in Sources
    BY <1>1 DEF WellFormed
  <1>3. \A r \in Refs : Len(design.ranges[r]) \in {0, design.dims[design.of[r]]}
    BY <1>1 DEF WellFormed
  <1> QED
    BY <1>2, <1>3 DEF Sources

\* A key is a range of a type.
LEMMA KeyFacts ==
    ASSUME TypeInv
    PROVE  /\ \A key \in Keys : key = <<key[1], key[2]>> /\ key[1] \in Types /\ key[2] \in Dims(key[1])
           /\ \A t \in Types : \A k \in Dims(t) : <<t, k>> \in Keys
  BY DEF Keys

\* The dimensions a reference constrains are dimensions of its type, each in
\* one of the two ways.
LEMMA RangeFacts ==
    ASSUME TypeInv, NEW r \in Refs, NEW k \in DOMAIN design.ranges[r]
    PROVE  /\ design.of[r] \in Types /\ k \in Dims(design.of[r])
           /\ <<design.of[r], k>> \in Keys
           /\ design.ranges[r][k] \in Ranges
           /\ design.ranges[r][k].dir \in {"upto", "downto"}
           /\ r \in Wants(<<design.of[r], k>>, design.ranges[r][k].dir)
  <1>1. /\ design.of[r] \in Types /\ design.ranges[r] \in Seq(Ranges)
        /\ Len(design.ranges[r]) \in {0, design.dims[design.of[r]]}
    BY SourceFacts
  <1>2. k \in 1 .. Len(design.ranges[r]) /\ design.ranges[r][k] \in Ranges
    BY <1>1, ElementOfSeq
  <1>3. k \in Dims(design.of[r])
    BY <1>1, <1>2 DEF Dims
  <1>4. design.ranges[r][k].dir \in {"upto", "downto"}
    BY <1>2 DEF Ranges
  <1>5. r \in Wants(<<design.of[r], k>>, design.ranges[r][k].dir)
    BY DEF Wants
  <1> QED
    BY <1>1, <1>2, <1>3, <1>4, <1>5, KeyFacts

\* A set of marks belongs to one type.
LEMMA MarkFacts ==
    ASSUME TypeInv, NEW r \in Refs
    PROVE  /\ Marks(r) \subseteq Keys
           /\ \A key \in Marks(r) : key = <<design.of[r], key[2]>> /\ key[2] \in Dims(design.of[r])
           /\ \A k : k \in DimsOf(Marks(r)) <=> <<design.of[r], k>> \in Marks(r)
  <1>1. \A key \in Marks(r) : key \in Keys /\ key[1] = design.of[r]
    BY DEF Marks, Wants
  <1>2. \A key \in Marks(r) : key = <<design.of[r], key[2]>> /\ key[2] \in Dims(design.of[r])
    BY <1>1, KeyFacts
  <1> QED
    BY <1>1, <1>2 DEF DimsOf, Marks
-------------------------------------------------------------------------------
(* The invariant holds initially and is kept by every action.  What it says *)
(* of the source does not change.                                           *)

LEMMA InitInv ==
    ASSUME Init PROVE IInv
  <1>1. TypeInv
    BY DEF Init, TypeInv, Copying
  <1>2. ~ Copying
    BY DEF Init, Copying
  <1>3. MapInv
    BY DEF Init, MapInv, Wants
  <1>4. DirsInv
    BY DEF Init, DirsInv, ParsedType, Original
  <1>5. MarkInv
    BY DEF Init, MarkInv
  <1>6. CopiesInv
    BY DEF Init, CopiesInv, Original
  <1>7. RefsInv
    <2>1. DOMAIN references = {Original(r) : r \in Refs}
      BY DEF Init
    <2>2. ASSUME NEW i \in DOMAIN references
          PROVE  /\ i[1] \in Refs /\ i = <<i[1], i[2]>> /\ i = Original(i[1])
                 /\ DOMAIN references[i] = {"name", "ranges", "assigns"}
                 /\ references[i].name = Original(design.of[i[1]])
      BY <2>1 DEF Init, Original, ParsedReference
    <2> QED
      BY <1>2, <2>1, <2>2 DEF RefsInv, IsMoved, Init
  <1> QED
    BY <1>1, <1>3, <1>4, <1>5, <1>6, <1>7 DEF IInv

LEMMA SameSource ==
    ASSUME design' = design
    PROVE  /\ \A t : Dims(t)' = Dims(t) /\ Element(t)' = Element(t)
           /\ Keys' = Keys
           /\ \A key, way : Wants(key, way)' = Wants(key, way)
           /\ \A key : Mixed(key)' = Mixed(key) /\ FinalDir(key)' = FinalDir(key)
           /\ \A r : Marks(r)' = Marks(r) /\ Assigns(r)' = Assigns(r) /\ CopyName(r)' = CopyName(r)
  BY DEF Dims, Element, Keys, Wants, Mixed, FinalDir, Marks, Assigns, CopyName

LEMMA FixDeclarationInv ==
    ASSUME IInv, NEW t \in Types, FixDeclaration(t) PROVE IInv'
  <1> USE DEF FixDeclaration
  <1>0. design' = design /\ phase = "visit" /\ phase' = "visit"
    OBVIOUS
  <1>1. TypeInv'
    BY DEF IInv, TypeInv, Copying, Keys, Dims
  <1>2. MapInv'
    BY <1>0, SameSource DEF IInv, MapInv
  <1>3. DirsInv'
    <2>1. declared' = [declared EXCEPT ![Original(t)] =
                         [declared[Original(t)] EXCEPT !.dirs = [k \in Dims(t) |-> "downto"]]]
      OBVIOUS
    <2>2. /\ Original(t) \in DOMAIN declared
          /\ DOMAIN declared[Original(t)] = {"dirs", "element"}
      BY DEF IInv, DirsInv
    <2>3. /\ DOMAIN declared' = DOMAIN declared
          /\ declared'[Original(t)].dirs = [k \in Dims(t) |-> "downto"]
          /\ DOMAIN declared'[Original(t)] = {"dirs", "element"}
      BY <2>1, <2>2
    <2>4. \A s \in Types \ {t} : declared'[Original(s)] = declared[Original(s)]
      BY <2>1 DEF Original
    <2>5. \A s \in Types \ {t} : s \notin bare' => s \notin bare
      OBVIOUS
    <2> HIDE DEF FixDeclaration
    <2> QED
      BY <1>0, <2>2, <2>3, <2>4, <2>5, SameSource DEF IInv, DirsInv
  <1>4. MarkInv' /\ RefsInv'
    <2>1. DOMAIN declared' = DOMAIN declared
      OBVIOUS
    <2>2. ~ Copying /\ ~ Copying'
      BY <1>0 DEF Copying
    <2>3. MarkInv'
      BY <1>0, SameSource DEF IInv, MarkInv
    <2> QED
      BY <1>0, <2>1, <2>2, <2>3, SameSource DEF IInv, RefsInv, IsMoved
  <1>5. CopiesInv'
    <2>1. \A n \in DOMAIN declared : n = Original(n[1])
      BY <1>0 DEF IInv, CopiesInv, Copying
    <2> QED
      BY <1>0, <2>1, SameSource DEF IInv, CopiesInv
  <1> QED
    BY <1>1, <1>2, <1>3, <1>4, <1>5 DEF IInv

LEMMA FixReferenceInv ==
    ASSUME IInv, NEW r \in Refs, FixReference(r) PROVE IInv'
  <1> USE DEF FixReference
  <1>0. design' = design /\ phase = "visit" /\ phase' = "visit" /\ ~ Copying /\ ~ Copying'
    BY DEF Copying
  <1>1. TypeInv'
    BY <1>0 DEF IInv, TypeInv, Copying, Keys, Dims
  <1>2. MapInv'
    <2>1. ASSUME NEW key \in Keys, NEW way
          PROVE  Inverts(r, key, way) = Wants(key, way) \cap {r}
      BY DEF Inverts, Wants
    <2>2. ASSUME NEW key \in Keys
          PROVE  /\ rangeMap'[key].upto = Wants(key, "upto") \ toVisit'
                 /\ rangeMap'[key].downto = Wants(key, "downto") \ toVisit'
                 /\ rangeMap'[key] \in [upto : SUBSET Refs, downto : SUBSET Refs]
      <3>1. /\ rangeMap[key].upto = Wants(key, "upto") \ toVisit
            /\ rangeMap[key].downto = Wants(key, "downto") \ toVisit
        BY DEF IInv, MapInv
      <3>2. rangeMap'[key] = [upto |-> rangeMap[key].upto \cup Inverts(r, key, "upto"),
                              downto |-> rangeMap[key].downto \cup Inverts(r, key, "downto")]
        OBVIOUS
      <3>3. \A way : Wants(key, way) \subseteq Refs
        BY DEF Wants
      <3> QED
        BY <2>1, <3>1, <3>2, <3>3
    <2>3. rangeMap' \in [Keys -> [upto : SUBSET Refs, downto : SUBSET Refs]]
      BY <2>2
    <2> QED
      BY <1>0, <2>2, <2>3, SameSource DEF MapInv
  <1>3. DirsInv'
    BY <1>0, SameSource DEF IInv, DirsInv
  <1>4. MarkInv' /\ CopiesInv'
    <2>1. MarkInv'
      BY <1>0, SameSource DEF IInv, MarkInv
    <2>2. CopiesInv'
      BY <1>0, SameSource DEF IInv, CopiesInv
    <2> QED
      BY <2>1, <2>2
  <1>5. RefsInv'
    <2>1. DOMAIN references' = DOMAIN references
      OBVIOUS
    <2>2. \A i \in DOMAIN references :
             /\ i[1] \in Refs /\ i = <<i[1], i[2]>> /\ i = Original(i[1])
             /\ DOMAIN references[i] = {"name", "ranges", "assigns"}
      BY <1>0 DEF IInv, RefsInv
    <2>3. PICK ref : /\ ref = [[references[Original(r)] EXCEPT !.ranges = <<>>]
                                   EXCEPT !.assigns = Assigns(r)]
                     /\ references' = [references EXCEPT ![Original(r)] = ref]
      OBVIOUS
    <2>4. Original(r) \in DOMAIN references
      BY DEF IInv, RefsInv
    <2>5. /\ DOMAIN ref = {"name", "ranges", "assigns"} /\ ref.assigns = Assigns(r)
          /\ ref.name = references[Original(r)].name
      BY <2>2, <2>3, <2>4
    <2>6. ASSUME NEW i \in DOMAIN references
          PROVE  /\ references'[i].name = references[i].name
                 /\ DOMAIN references'[i] = {"name", "ranges", "assigns"}
                 /\ i # Original(r) => references'[i] = references[i]
                 /\ i = Original(r) => references'[i].assigns = Assigns(r)
      BY <2>2, <2>3, <2>5
    <2>7. toVisit' = toVisit \ {r}
      OBVIOUS
    <2> HIDE DEF FixReference
    <2>8. ASSUME NEW i \in DOMAIN references, i[1] \notin toVisit'
          PROVE  references'[i].assigns = Assigns(i[1])
      <3>1. CASE i = Original(r)
        BY <2>2, <2>6, <3>1 DEF Original
      <3>2. CASE i # Original(r)
        <4>1. i[1] # r
          BY <2>2, <3>2
        <4>2. i[1] \notin toVisit
          BY <2>7, <2>8, <4>1
        <4> QED
          BY <2>6, <3>2, <4>2 DEF IInv, RefsInv
      <3> QED
        BY <3>1, <3>2
    <2> QED
      BY <1>0, <2>1, <2>2, <2>6, <2>8, SameSource DEF IInv, RefsInv, IsMoved
  <1> QED
    BY <1>1, <1>2, <1>3, <1>4, <1>5 DEF IInv

LEMMA EndVisitInv ==
    ASSUME IInv, EndVisit PROVE IInv'
  <1> USE DEF EndVisit
  <1>0. design' = design /\ phase = "visit" /\ phase' = "collect" /\ ~ Copying /\ ~ Copying'
    BY DEF Copying
  <1>1. TypeInv'
    BY <1>0, SameSource DEF IInv, TypeInv
  <1>2. MapInv'
    BY <1>0, SameSource DEF IInv, MapInv
  <1>3. \A key \in Keys : key \in toCollect' <=> Wants(key, "upto") \cup Wants(key, "downto") # {}
    BY DEF IInv, MapInv
  <1>4. DirsInv'
    <2>1. \A t \in Types : \A k \in Dims(t) :
             <<t, k>> \notin toCollect' => FinalDir(<<t, k>>) = "downto"
      BY <1>3, KeyFacts DEF FinalDir, IInv
    <2> QED
      BY <1>0, <2>1, SameSource DEF IInv, DirsInv
  <1>5. MarkInv'
    BY <1>0, <1>3, SameSource DEF IInv, MarkInv, Marks, Mixed
  <1>6. CopiesInv'
    BY <1>0, SameSource DEF IInv, CopiesInv
  <1>7. RefsInv'
    BY <1>0, SameSource DEF IInv, RefsInv, IsMoved
  <1> QED
    BY <1>1, <1>2, <1>4, <1>5, <1>6, <1>7 DEF IInv

\* When the first loop runs, every reference has been visited.
LEMMA CollectFacts ==
    ASSUME IInv, NEW key \in Keys, Collect(key)
    PROVE  /\ phase = "collect" /\ ~ Copying /\ toVisit = {} /\ bare = {}
           /\ rangeMap[key].upto = Wants(key, "upto")
           /\ rangeMap[key].downto = Wants(key, "downto")
           /\ toCollect' = toCollect \ {key} /\ toCollect' \subseteq toCollect
  <1>1. phase = "collect" /\ ~ Copying /\ toCollect' = toCollect \ {key}
    BY DEF Collect, Copying
  <1>2. toVisit = {} /\ bare = {}
    BY <1>1 DEF IInv, TypeInv
  <1> QED
    BY <1>1, <1>2 DEF IInv, MapInv

LEMMA KeepRangeInv ==
    ASSUME IInv, NEW key \in Keys, KeepRange(key) PROVE IInv'
  <1>0. /\ Collect(key) /\ rangeMap[key].upto = {} /\ design' = design
        /\ UNCHANGED <<phase, bare, toVisit, toCopy, declared, references, rangeMap, trMap>>
    BY DEF KeepRange
  <1>1. /\ phase = "collect" /\ ~ Copying /\ ~ Copying'
        /\ Wants(key, "upto") = {} /\ toCollect' = toCollect \ {key}
    BY <1>0, CollectFacts DEF Copying
  <1>2. FinalDir(key) = "downto" /\ ~ Mixed(key)
    BY <1>1 DEF FinalDir, Mixed
  <1>3. TypeInv'
    BY <1>0, <1>1, SameSource DEF IInv, TypeInv
  <1>4. MapInv'
    BY <1>0, SameSource DEF IInv, MapInv
  <1>5. DirsInv'
    <2>1. \A t \in Types : \A k \in Dims(t) :
             (IF <<t, k>> \notin toCollect' THEN FinalDir(<<t, k>>) ELSE "downto")
               = (IF <<t, k>> \notin toCollect THEN FinalDir(<<t, k>>) ELSE "downto")
      BY <1>1, <1>2
    <2>2. phase # "visit" /\ phase' # "visit"
      BY <1>0, <1>1
    <2> QED
      BY <1>0, <2>1, <2>2, SameSource DEF IInv, DirsInv
  <1>6. MarkInv'
    <2>1. \A r \in Refs : key \notin Marks(r)
      BY <1>2 DEF Marks
    <2> QED
      BY <1>0, <1>1, <2>1, SameSource DEF IInv, MarkInv
  <1>7. CopiesInv' /\ RefsInv'
    <2>1. CopiesInv'
      BY <1>0, <1>1, SameSource DEF IInv, CopiesInv
    <2>2. RefsInv'
      BY <1>0, <1>1, SameSource DEF IInv, RefsInv, IsMoved
    <2> QED
      BY <2>1, <2>2
  <1> QED
    BY <1>3, <1>4, <1>5, <1>6, <1>7 DEF IInv

LEMMA ReverseRangeInv ==
    ASSUME IInv, NEW key \in Keys, ReverseRange(key) PROVE IInv'
  <1>0. /\ Collect(key) /\ rangeMap[key].upto # {} /\ rangeMap[key].downto = {}
        /\ design' = design
        /\ UNCHANGED <<phase, bare, toVisit, toCopy, references, rangeMap, trMap>>
        /\ declared' = [declared EXCEPT ![Original(key[1])] =
              [declared[Original(key[1])] EXCEPT !.dirs =
                 [declared[Original(key[1])].dirs EXCEPT ![key[2]] = "upto"]]]
    BY DEF ReverseRange
  <1>1. /\ phase = "collect" /\ ~ Copying /\ ~ Copying' /\ bare = {}
        /\ Wants(key, "upto") # {} /\ Wants(key, "downto") = {} /\ toCollect' = toCollect \ {key}
    BY <1>0, CollectFacts DEF Copying
  <1>2. FinalDir(key) = "upto" /\ ~ Mixed(key)
    BY <1>1 DEF FinalDir, Mixed
  <1>3. TypeInv'
    BY <1>0, <1>1, SameSource DEF IInv, TypeInv
  <1>4. MapInv'
    BY <1>0, SameSource DEF IInv, MapInv
  <1>5. PICK t \in Types : \E k \in Dims(t) : key = <<t, k>>
    BY KeyFacts DEF IInv
  <1>5k. PICK k \in Dims(t) : key = <<t, k>>
    BY <1>5
  <1>6. /\ Original(t) \in DOMAIN declared
        /\ DOMAIN declared[Original(t)] = {"dirs", "element"}
        /\ DOMAIN declared[Original(t)].dirs = Dims(t)
    BY DEF IInv, DirsInv
  <1>7. PICK d, e :
          /\ d = [declared[Original(t)].dirs EXCEPT ![k] = "upto"]
          /\ e = [declared[Original(t)] EXCEPT !.dirs = d]
          /\ declared' = [declared EXCEPT ![Original(t)] = e]
    BY <1>0, <1>5k
  <1>8. /\ DOMAIN d = Dims(t)
        /\ \A j \in Dims(t) : d[j] = IF j = k THEN "upto" ELSE declared[Original(t)].dirs[j]
    BY <1>6, <1>7
  <1>9. DOMAIN e = {"dirs", "element"} /\ e.dirs = d
    BY <1>6, <1>7
  <1>10. DOMAIN declared' = DOMAIN declared /\ declared'[Original(t)] = e
    BY <1>6, <1>7
  <1>11. \A n \in DOMAIN declared : n # Original(t) => declared'[n] = declared[n]
    BY <1>7
  <1>12. DirsInv'
    <2>1. ASSUME NEW s \in Types
          PROVE  /\ Original(s) \in DOMAIN declared'
                 /\ DOMAIN declared'[Original(s)] = {"dirs", "element"}
                 /\ DOMAIN declared'[Original(s)].dirs = Dims(s)
                 /\ \A j \in Dims(s) : declared'[Original(s)].dirs[j] =
                      IF <<s, j>> \notin toCollect' THEN FinalDir(<<s, j>>) ELSE "downto"
      <3>1. /\ Original(s) \in DOMAIN declared
            /\ DOMAIN declared[Original(s)] = {"dirs", "element"}
            /\ DOMAIN declared[Original(s)].dirs = Dims(s)
            /\ \A j \in Dims(s) : declared[Original(s)].dirs[j] =
                 IF <<s, j>> \notin toCollect THEN FinalDir(<<s, j>>) ELSE "downto"
        BY <1>1 DEF IInv, DirsInv
      <3>2. CASE s = t
        <4>1. \A j \in Dims(t) : j # k => (<<t, j>> \in toCollect' <=> <<t, j>> \in toCollect)
          BY <1>1, <1>5k
        <4>2. <<t, k>> \notin toCollect' /\ FinalDir(<<t, k>>) = "upto"
          BY <1>1, <1>2, <1>5k
        <4> QED
          BY <1>8, <1>9, <1>10, <3>1, <3>2, <4>1, <4>2
      <3>3. CASE s # t
        <4>1. declared'[Original(s)] = declared[Original(s)]
          BY <1>11, <3>1, <3>3 DEF Original
        <4>2. \A j \in Dims(s) : <<s, j>> \in toCollect' <=> <<s, j>> \in toCollect
          BY <1>1, <1>5k, <3>3
        <4> QED
          BY <1>10, <3>1, <4>1, <4>2
      <3> QED
        BY <3>2, <3>3
    <2> QED
      BY <1>0, <1>1, <2>1, SameSource DEF DirsInv
  <1>13. MarkInv'
    <2>1. \A r \in Refs : key \notin Marks(r)
      BY <1>2 DEF Marks
    <2> QED
      BY <1>0, <1>1, <2>1, SameSource DEF IInv, MarkInv
  <1>14. CopiesInv'
    <2>1. \A n \in DOMAIN declared : n = Original(n[1])
      BY <1>1 DEF IInv, CopiesInv
    <2> QED
      BY <1>0, <1>10, <2>1, SameSource DEF IInv, CopiesInv
  <1>15. RefsInv'
    BY <1>0, <1>1, <1>10, SameSource DEF IInv, RefsInv, IsMoved
  <1> QED
    BY <1>3, <1>4, <1>12, <1>13, <1>14, <1>15 DEF IInv

LEMMA MarkReferencesInv ==
    ASSUME IInv, NEW key \in Keys, MarkReferences(key) PROVE IInv'
  <1>0. /\ Collect(key) /\ rangeMap[key].upto # {} /\ rangeMap[key].downto # {}
        /\ design' = design
        /\ UNCHANGED <<phase, bare, toVisit, toCopy, declared, references, rangeMap>>
        /\ trMap' = [r \in Refs |->
              IF r \in rangeMap[key].upto THEN trMap[r] \cup {key} ELSE trMap[r]]
    BY DEF MarkReferences
  <1>1. /\ phase = "collect" /\ ~ Copying /\ ~ Copying'
        /\ rangeMap[key].upto = Wants(key, "upto") /\ toCollect' = toCollect \ {key}
        /\ Mixed(key)
    BY <1>0, CollectFacts DEF Copying, Mixed
  <1>2. FinalDir(key) = "downto"
    BY <1>1 DEF FinalDir, Mixed
  <1>3. TypeInv'
    BY <1>0, <1>1, SameSource DEF IInv, TypeInv
  <1>4. MapInv'
    BY <1>0, SameSource DEF IInv, MapInv
  <1>5. DirsInv'
    <2>1. \A t \in Types : \A k \in Dims(t) :
             (IF <<t, k>> \notin toCollect' THEN FinalDir(<<t, k>>) ELSE "downto")
               = (IF <<t, k>> \notin toCollect THEN FinalDir(<<t, k>>) ELSE "downto")
      BY <1>1, <1>2
    <2>2. phase # "visit" /\ phase' # "visit"
      BY <1>0, <1>1
    <2> QED
      BY <1>0, <2>1, <2>2, SameSource DEF IInv, DirsInv
  <1>6. MarkInv'
    <2>1. ASSUME NEW r \in Refs
          PROVE  trMap'[r] = {k \in Marks(r) : k \notin toCollect'} /\ trMap'[r] \subseteq Keys
      <3>1. trMap[r] = {k \in Marks(r) : k \notin toCollect}
        BY <1>1 DEF IInv, MarkInv
      <3>2. r \in Wants(key, "upto") <=> key \in Marks(r)
        BY <1>1 DEF Marks
      <3>3. trMap'[r] = IF key \in Marks(r) THEN trMap[r] \cup {key} ELSE trMap[r]
        BY <1>0, <1>1, <3>2
      <3>4. Marks(r) \subseteq Keys
        BY DEF Marks
      <3> QED
        BY <1>1, <3>1, <3>3, <3>4
    <2>2. trMap' \in [Refs -> SUBSET Keys]
      BY <1>0, <2>1
    <2> QED
      BY <1>0, <1>1, <2>1, <2>2, SameSource DEF MarkInv
  <1>7. CopiesInv' /\ RefsInv'
    <2>1. CopiesInv'
      BY <1>0, <1>1, SameSource DEF IInv, CopiesInv
    <2>2. RefsInv'
      BY <1>0, <1>1, SameSource DEF IInv, RefsInv, IsMoved
    <2> QED
      BY <2>1, <2>2
  <1> QED
    BY <1>3, <1>4, <1>5, <1>6, <1>7 DEF IInv

LEMMA EndCollectInv ==
    ASSUME IInv, EndCollect PROVE IInv'
  <1>0. /\ design' = design /\ phase = "collect" /\ phase' = "copy" /\ toCollect = {}
        /\ toCopy' = Partitions(trMap)
        /\ UNCHANGED <<bare, toVisit, toCollect, declared, references, rangeMap, trMap>>
    BY DEF EndCollect
  <1>1. ~ Copying /\ Copying' /\ bare = {}
    BY <1>0 DEF Copying, IInv, TypeInv
  <1>2. TypeInv'
    BY <1>0, SameSource DEF IInv, TypeInv
  <1>3. MapInv'
    BY <1>0, SameSource DEF IInv, MapInv
  <1>4. DirsInv'
    BY <1>0, SameSource DEF IInv, DirsInv
  <1>5. \A r \in Refs : trMap[r] = Marks(r)
    BY <1>0 DEF IInv, MarkInv
  <1>6. MarkInv'
    BY <1>0, SameSource DEF IInv, MarkInv
  <1>7. toCopy' = {Marks(r) : r \in Refs} \ {{}}
    BY <1>0, <1>5 DEF Partitions
  <1>8. CopiesInv'
    <2>1. \A n \in DOMAIN declared : n = Original(n[1])
      BY <1>1 DEF IInv, CopiesInv
    <2>2. toCopy' \subseteq {Marks(r)' : r \in Refs} \ {{}}
      BY <1>0, <1>7, SameSource
    <2> QED
      BY <1>0, <2>1, <2>2 DEF CopiesInv
  <1>9. RefsInv'
    <2>1. \A r \in Refs : ~ IsMoved(r)' /\ ~ IsMoved(r)
      BY <1>0, <1>1, <1>7, SameSource DEF IsMoved
    <2>2. \A i \in DOMAIN references : i[1] \in Refs /\ i = Original(i[1])
      BY <1>1 DEF IInv, RefsInv
    <2> QED
      BY <1>0, <1>1, <2>1, <2>2, SameSource DEF IInv, RefsInv
  <1> QED
    BY <1>2, <1>3, <1>4, <1>6, <1>8, <1>9 DEF IInv

LEMMA EndCopyInv ==
    ASSUME IInv, EndCopy PROVE IInv'
  <1>0. /\ design' = design /\ phase = "copy" /\ phase' = "done" /\ toCopy = {}
        /\ UNCHANGED <<bare, toVisit, toCollect, toCopy, declared, references, rangeMap, trMap>>
    BY DEF EndCopy
  <1>1. Copying /\ Copying'
    BY <1>0 DEF Copying
  <1>2. TypeInv'
    BY <1>0, <1>1, SameSource DEF IInv, TypeInv
  <1>3. MapInv'
    BY <1>0, SameSource DEF IInv, MapInv
  <1>4. DirsInv'
    <2>1. phase # "visit" /\ phase' # "visit"
      BY <1>0
    <2> QED
      BY <1>0, <2>1, SameSource DEF IInv, DirsInv
  <1>5. MarkInv'
    BY <1>0, SameSource DEF IInv, MarkInv
  <1>6. CopiesInv'
    BY <1>0, <1>1, SameSource DEF IInv, CopiesInv
  <1>7. RefsInv'
    BY <1>0, <1>1, SameSource DEF IInv, RefsInv, IsMoved
  <1> QED
    BY <1>2, <1>3, <1>4, <1>5, <1>6, <1>7 DEF IInv

LEMMA StutterInv ==
    ASSUME IInv, UNCHANGED vars PROVE IInv'
  <1>0. /\ design' = design
        /\ UNCHANGED <<phase, bare, toVisit, toCollect, toCopy, declared, references, rangeMap, trMap>>
    BY DEF vars
  <1>1. Copying' = Copying
    BY <1>0 DEF Copying
  <1>2. TypeInv'
    BY <1>0, <1>1, SameSource DEF IInv, TypeInv
  <1>3. MapInv'
    BY <1>0, SameSource DEF IInv, MapInv
  <1>4. DirsInv'
    BY <1>0, SameSource DEF IInv, DirsInv
  <1>5. MarkInv'
    BY <1>0, SameSource DEF IInv, MarkInv
  <1>6. CopiesInv'
    BY <1>0, <1>1, SameSource DEF IInv, CopiesInv
  <1>7. RefsInv'
    BY <1>0, <1>1, SameSource DEF IInv, RefsInv, IsMoved
  <1> QED
    BY <1>2, <1>3, <1>4, <1>5, <1>6, <1>7 DEF IInv

\* The range of a mark has references of both directions; so the element of a
\* declaration that is copied stays where it is.
LEMMA MarkedFacts ==
    ASSUME TypeInv, NEW r \in Refs, NEW key \in Marks(r)
    PROVE  /\ Directed(design, design.of[r], key[2]) = {"upto", "downto"}
           /\ Copied(design, design.of[r]) /\ Moved(design, r)
  <1>1. /\ key = <<design.of[r], key[2]>> /\ key[2] \in Dims(design.of[r])
        /\ Mixed(key) /\ r \in Wants(key, "upto")
    BY MarkFacts DEF Marks
  <1>2. PICK d \in Refs : d \in Wants(key, "downto")
    BY <1>1 DEF Mixed, Wants
  <1>3. /\ design.of[d] = design.of[r] /\ key[2] \in DOMAIN design.ranges[d]
        /\ design.ranges[d][key[2]].dir = "downto"
        /\ key[2] \in DOMAIN design.ranges[r] /\ design.ranges[r][key[2]].dir = "upto"
    BY <1>1, <1>2 DEF Wants
  <1>4. \A q \in Refs : key[2] \in DOMAIN design.ranges[q] =>
           design.ranges[q][key[2]].dir \in {"upto", "downto"}
    BY RangeFacts
  <1>5. Directed(design, design.of[r], key[2]) = {"upto", "downto"}
    BY <1>3, <1>4 DEF Directed
  <1>6. Copied(design, design.of[r])
    BY <1>1, <1>5 DEF Copied, Dims
  <1>7. Moved(design, r)
    BY <1>3, <1>5 DEF Moved
  <1> QED
    BY <1>5, <1>6, <1>7

\* A copy has the name all its references get, which is not that of its
\* declaration.
LEMMA CopyFacts ==
    ASSUME TypeInv, NEW r \in Refs, Marks(r) # {}
    PROVE  /\ DimsOf(Marks(r)) # {} /\ CopyName(r)[1] = design.of[r]
           /\ CopyName(r)[2] = DimsOf(Marks(r)) /\ CopyName(r) # Original(design.of[r])
           /\ \A x : Original(x) # CopyName(r)
           /\ \A q \in Refs : Marks(q) = Marks(r) => CopyName(q) = CopyName(r)
           /\ TypeOfRange(CHOOSE key \in Marks(r) : TRUE) = design.of[r]
  <1>1. DimsOf(Marks(r)) # {}
    BY DEF DimsOf
  <1>2. \A q \in Refs : \A key \in Marks(q) : key[1] = design.of[q]
    BY MarkFacts
  <1>3. \A q \in Refs : Marks(q) = Marks(r) => design.of[q] = design.of[r]
    BY <1>2
  <1>4. (CHOOSE key \in Marks(r) : TRUE) \in Marks(r)
    OBVIOUS
  <1>5. TypeOfRange(CHOOSE key \in Marks(r) : TRUE) = design.of[r]
    BY <1>2, <1>4 DEF TypeOfRange
  <1>6. \A x : Original(x) # CopyName(r)
    BY <1>1 DEF CopyName, Original
  <1> QED
    BY <1>1, <1>3, <1>5, <1>6 DEF CopyName

LEMMA CopyDeclarationInv ==
    ASSUME IInv, NestedTypesStay(design), NEW S \in toCopy, CopyDeclaration(S) PROVE IInv'
  <1>0. /\ design' = design /\ phase = "copy" /\ toCopy' = toCopy \ {S}
        /\ UNCHANGED <<phase, bare, toVisit, toCollect, rangeMap, trMap>>
    BY DEF CopyDeclaration
  <1>1. /\ Copying /\ Copying' /\ TypeInv /\ bare = {} /\ toVisit = {} /\ toCollect = {}
    BY <1>0 DEF Copying, IInv, TypeInv
  <1>2. PICK r0 \in Refs : S = Marks(r0) /\ S # {}
    BY DEF IInv, CopiesInv
  <1>3. PICK t, inverted : t = design.of[r0] /\ inverted = DimsOf(S) /\ t \in Types
    BY <1>1, SourceFacts
  <1>4. /\ inverted # {} /\ TypeOfRange(CHOOSE key \in S : TRUE) = t
        /\ CopyName(r0) = <<t, inverted>>
        /\ \A x : Original(x) # <<t, inverted>>
        /\ \A r \in Refs : Marks(r) = S => CopyName(r) = <<t, inverted>>
    BY <1>1, <1>2, <1>3, CopyFacts DEF CopyName
  <1>5. PICK inner : inner = IF Element(t) = NoRef THEN {} ELSE {<<Element(t), inverted>>}
    OBVIOUS
  <1>6. /\ declared' =
             [n \in DOMAIN declared \cup {<<t, inverted>>} |->
                IF n = <<t, inverted>>
                  THEN [dirs |-> Reversed(declared[Original(t)].dirs, inverted),
                        element |-> IF inner = {} THEN NoRef ELSE <<Element(t), inverted>>]
                  ELSE declared[n]]
        /\ references' =
             [i \in DOMAIN references \cup inner |->
                IF i \in inner THEN references[Original(i[1])]
                ELSE IF i[2] = {} /\ trMap[i[1]] = S
                  THEN [references[i] EXCEPT !.name = <<t, inverted>>]
                ELSE references[i]]
    BY <1>3, <1>4, <1>5 DEF CopyDeclaration, DimsOf
  <1>7. /\ DOMAIN declared' = DOMAIN declared \cup {<<t, inverted>>}
        /\ \A n \in DOMAIN declared : n # <<t, inverted>> => declared'[n] = declared[n]
        /\ \A s \in Types : declared'[Original(s)] = declared[Original(s)]
    BY <1>4, <1>6 DEF IInv, DirsInv
  <1>8. declared'[<<t, inverted>>].dirs =
          [k \in Dims(t) |-> IF k \in inverted THEN "upto" ELSE FinalDir(<<t, k>>)]
    <2>1. /\ DOMAIN declared[Original(t)].dirs = Dims(t)
          /\ \A k \in Dims(t) : declared[Original(t)].dirs[k] = FinalDir(<<t, k>>)
      BY <1>0, <1>1, <1>3 DEF IInv, DirsInv
    <2>2. declared'[<<t, inverted>>].dirs = Reversed(declared[Original(t)].dirs, inverted)
      BY <1>6
    <2> QED
      BY <2>1, <2>2 DEF Reversed
  <1>9. TypeInv'
    BY <1>0, <1>1, SameSource DEF IInv, TypeInv
  <1>10. MapInv'
    BY <1>0, SameSource DEF IInv, MapInv
  <1>11. DirsInv'
    BY <1>0, <1>7, SameSource DEF IInv, DirsInv
  <1>12. MarkInv'
    BY <1>0, SameSource DEF IInv, MarkInv
  <1>13. CopiesInv'
    <2>1. toCopy' \subseteq {Marks(r) : r \in Refs} \ {{}}
      BY <1>0 DEF IInv, CopiesInv
    <2>2. ASSUME NEW n \in DOMAIN declared', n # Original(n[1])
          PROVE  /\ n[1] \in Types
                 /\ declared'[n].dirs =
                      [k \in Dims(n[1]) |-> IF k \in n[2] THEN "upto" ELSE FinalDir(<<n[1], k>>)]
      <3>1. CASE n = <<t, inverted>>
        BY <1>3, <1>8, <3>1
      <3>2. CASE n # <<t, inverted>>
        BY <1>7, <2>2, <3>2 DEF IInv, CopiesInv
      <3> QED
        BY <3>1, <3>2
    <2> QED
      BY <1>0, <1>1, <2>1, <2>2, SameSource DEF CopiesInv
  <1>14. \A r \in Refs : IsMoved(r)' <=> IsMoved(r) \/ Marks(r) = S
    BY <1>0, <1>1, <1>2, SameSource DEF IsMoved
  <1>15. \A r \in Refs : trMap[r] = Marks(r)
    BY <1>0, <1>1 DEF IInv, MarkInv
  <1>16. \A i \in DOMAIN references :
            /\ i[1] \in Refs /\ i = <<i[1], i[2]>>
            /\ DOMAIN references[i] = {"name", "ranges", "assigns"}
            /\ references[i].assigns = Assigns(i[1])
            /\ i = Original(i[1]) =>
                 references[i].name = IF IsMoved(i[1]) THEN CopyName(i[1]) ELSE Original(design.of[i[1]])
            /\ i # Original(i[1]) =>
                 Marks(i[1]) = {} /\ references[i].name = Original(design.of[i[1]])
    BY <1>1 DEF IInv, RefsInv
  <1>17. ASSUME NEW i \in inner
         PROVE  /\ i[1] \in Refs /\ i = <<i[1], i[2]>> /\ i # Original(i[1])
                /\ Marks(i[1]) = {}
                /\ Original(i[1]) \in DOMAIN references /\ references'[i] = references[Original(i[1])]
                /\ references[Original(i[1])].name = Original(design.of[i[1]])
    <2>1. /\ Element(t) # NoRef /\ i = <<Element(t), inverted>>
      BY <1>5
    <2>2. Element(t) \in Refs
      BY <1>1, <1>3, <2>1, SourceFacts DEF Element
    <2>3. Copied(design, t)
      BY <1>1, <1>2, <1>3, MarkedFacts
    <2>4. ~ Moved(design, Element(t))
      BY <1>3, <2>1, <2>3 DEF NestedTypesStay, Element
    <2>5. Marks(Element(t)) = {}
      BY <1>1, <2>2, <2>4, MarkedFacts
    <2>6. Original(Element(t)) \in DOMAIN references
      BY <2>2 DEF IInv, RefsInv
    <2>7. references[Original(Element(t))].name = Original(design.of[Element(t)])
      BY <1>16, <2>5, <2>6 DEF Original, IsMoved
    <2>8. i # Original(i[1])
      BY <1>4, <2>1 DEF Original
    <2> QED
      BY <1>6, <2>1, <2>2, <2>5, <2>6, <2>7, <2>8
  <1>18. ASSUME NEW i \in DOMAIN references'
         PROVE  /\ i[1] \in Refs /\ i = <<i[1], i[2]>>
                /\ DOMAIN references'[i] = {"name", "ranges", "assigns"}
                /\ references'[i].assigns = Assigns(i[1])
                /\ i = Original(i[1]) =>
                     references'[i].name = IF IsMoved(i[1])' THEN CopyName(i[1]) ELSE Original(design.of[i[1]])
                /\ i # Original(i[1]) =>
                     Marks(i[1]) = {} /\ references'[i].name = Original(design.of[i[1]])
    <2>1. CASE i \in inner
      <3>1. references[Original(i[1])].assigns = Assigns(i[1])
        BY <1>16, <1>17, <2>1 DEF Original
      <3>2. DOMAIN references[Original(i[1])] = {"name", "ranges", "assigns"}
        BY <1>16, <1>17, <2>1
      <3> QED
        BY <1>17, <2>1, <3>1, <3>2
    <2>2. CASE i \notin inner /\ i[2] = {} /\ trMap[i[1]] = S
      <3>1. i \in DOMAIN references
        BY <1>6, <2>2
      <3>2. references'[i] = [references[i] EXCEPT !.name = <<t, inverted>>]
        BY <1>6, <2>2, <3>1
      <3>3. /\ DOMAIN references'[i] = {"name", "ranges", "assigns"}
            /\ references'[i].name = <<t, inverted>> /\ references'[i].assigns = references[i].assigns
        BY <1>16, <3>1, <3>2
      <3>4. i[1] \in Refs /\ i = Original(i[1]) /\ Marks(i[1]) = S
        BY <1>15, <1>16, <2>2, <3>1 DEF Original
      <3>5. IsMoved(i[1])' /\ CopyName(i[1]) = <<t, inverted>>
        BY <1>4, <1>14, <3>4
      <3> QED
        BY <1>16, <3>1, <3>3, <3>4, <3>5
    <2>3. CASE i \notin inner /\ ~ (i[2] = {} /\ trMap[i[1]] = S)
      <3>1. i \in DOMAIN references /\ references'[i] = references[i]
        BY <1>6, <2>3
      <3>2. i = Original(i[1]) => Marks(i[1]) # S
        BY <1>15, <1>16, <2>3, <3>1 DEF Original
      <3>3. i = Original(i[1]) => (IsMoved(i[1])' <=> IsMoved(i[1]))
        BY <1>14, <1>16, <3>1, <3>2
      <3> QED
        BY <1>16, <3>1, <3>3
    <2> QED
      BY <2>1, <2>2, <2>3
  <1>19. \A r \in Refs : Original(r) \in DOMAIN references'
    BY <1>6 DEF IInv, RefsInv
  <1>20. \A r \in Refs : IsMoved(r)' => CopyName(r) \in DOMAIN declared'
    BY <1>4, <1>7, <1>14 DEF IInv, RefsInv
  <1>21. RefsInv'
    BY <1>0, <1>1, <1>18, <1>19, <1>20, SameSource DEF RefsInv
  <1> QED
    BY <1>9, <1>10, <1>11, <1>12, <1>13, <1>21 DEF IInv
-------------------------------------------------------------------------------
(* What the invariant says when the loops are over.                        *)

\* The directions a reference gets are those it wants.
LEMMA FinalDirections ==
    ASSUME TypeInv, NEW r \in Refs, NEW k \in DOMAIN design.ranges[r]
    PROVE  design.ranges[r][k].dir =
             IF k \in DimsOf(Marks(r)) THEN "upto" ELSE FinalDir(<<design.of[r], k>>)
  <1>1. /\ <<design.of[r], k>> \in Keys /\ design.ranges[r][k].dir \in {"upto", "downto"}
        /\ r \in Wants(<<design.of[r], k>>, design.ranges[r][k].dir)
    BY RangeFacts
  <1>2. CASE k \in DimsOf(Marks(r))
    <2>1. r \in Wants(<<design.of[r], k>>, "upto")
      BY <1>2, MarkFacts DEF Marks
    <2> QED
      BY <1>2, <2>1 DEF Wants
  <1>3. CASE k \notin DimsOf(Marks(r))
    <2>1. ~ (Mixed(<<design.of[r], k>>) /\ r \in Wants(<<design.of[r], k>>, "upto"))
      BY <1>1, <1>3, MarkFacts DEF Marks
    <2> QED
      BY <1>1, <1>3, <2>1 DEF Mixed, FinalDir
  <1> QED
    BY <1>2, <1>3

LEMMA InvariantIsEnough ==
    ASSUME IInv PROVE ShapesAreKept
  <1> SUFFICES ASSUME phase = "done", NEW i \in DOMAIN references, IsConstrained(i[1])
               PROVE  /\ references[i].name \in DOMAIN declared
                      /\ references[i].name[1] = design.of[i[1]]
                      /\ RangesOf(i) = design.ranges[i[1]]
    BY DEF ShapesAreKept
  <1>1. /\ TypeInv /\ Copying /\ bare = {} /\ toVisit = {} /\ toCollect = {} /\ toCopy = {}
    BY DEF IInv, TypeInv, Copying
  <1>2. PICK r \in Refs : r = i[1]
    BY DEF IInv, RefsInv
  <1>3. /\ design.of[r] \in Types /\ design.ranges[r] \in Seq(Ranges)
        /\ Len(design.ranges[r]) = design.dims[design.of[r]]
    BY <1>1, <1>2, SourceFacts DEF IsConstrained
  <1>4. DOMAIN design.ranges[r] = Dims(design.of[r])
    BY <1>3 DEF Dims
  <1>5. /\ references[i].name \in DOMAIN declared
        /\ references[i].name[1] = design.of[r]
        /\ DOMAIN declared[references[i].name].dirs = Dims(design.of[r])
        /\ \A k \in Dims(design.of[r]) :
             declared[references[i].name].dirs[k] =
               IF k \in DimsOf(Marks(r)) THEN "upto" ELSE FinalDir(<<design.of[r], k>>)
    <2>1. CASE Marks(r) = {}
      <3>1. references[i].name = Original(design.of[r])
        BY <1>2, <2>1 DEF IInv, RefsInv, IsMoved
      <3>2. DimsOf(Marks(r)) = {}
        BY <2>1 DEF DimsOf
      <3>3. Original(design.of[r])[1] = design.of[r]
        BY DEF Original
      <3> QED
        BY <1>1, <1>3, <3>1, <3>2, <3>3 DEF IInv, DirsInv
    <2>2. CASE Marks(r) # {}
      <3>1. IsMoved(r)
        BY <1>1, <2>2 DEF IsMoved
      <3>2. references[i].name = CopyName(r) /\ CopyName(r) \in DOMAIN declared
        BY <1>2, <2>2, <3>1 DEF IInv, RefsInv
      <3>3. /\ CopyName(r)[1] = design.of[r] /\ CopyName(r)[2] = DimsOf(Marks(r))
            /\ CopyName(r) # Original(design.of[r])
        BY <1>1, <2>2, CopyFacts
      <3>4. declared[CopyName(r)].dirs =
              [k \in Dims(design.of[r]) |->
                 IF k \in DimsOf(Marks(r)) THEN "upto" ELSE FinalDir(<<design.of[r], k>>)]
        BY <3>2, <3>3 DEF IInv, CopiesInv
      <3> QED
        BY <3>2, <3>3, <3>4
    <2> QED
      BY <2>1, <2>2
  <1>6. \A k \in Dims(design.of[r]) : /\ references[i].assigns[k].left = design.ranges[r][k].left
                                      /\ references[i].assigns[k].right = design.ranges[r][k].right
    <2>1. references[i].assigns = Assigns(r)
      BY <1>1, <1>2 DEF IInv, RefsInv
    <2> QED
      BY <1>4, <2>1 DEF Assigns, Assigned
  <1>7. \A k \in Dims(design.of[r]) :
           declared[references[i].name].dirs[k] = design.ranges[r][k].dir
    BY <1>1, <1>4, <1>5, FinalDirections
  <1>8. \A k \in Dims(design.of[r]) :
           design.ranges[r][k] = [dir |-> design.ranges[r][k].dir,
                                  left |-> design.ranges[r][k].left,
                                  right |-> design.ranges[r][k].right]
    BY <1>1, <1>4, RangeFacts DEF Ranges
  <1>9. design.ranges[r] = [k \in Dims(design.of[r]) |-> design.ranges[r][k]]
    BY <1>3, <1>4, SeqDef
  <1>10. RangesOf(i) = [k \in Dims(design.of[r]) |->
            [dir |-> declared[references[i].name].dirs[k],
             left |-> references[i].assigns[k].left, right |-> references[i].assigns[k].right]]
    BY <1>5 DEF RangesOf
  <1>11. \A k \in Dims(design.of[r]) :
            [dir |-> declared[references[i].name].dirs[k],
             left |-> references[i].assigns[k].left, right |-> references[i].assigns[k].right]
              = design.ranges[r][k]
    BY <1>6, <1>7, <1>8
  <1> QED
    BY <1>2, <1>5, <1>9, <1>10, <1>11

\* Every step keeps the invariant.
LEMMA StepInv ==
    ASSUME IInv, [Next]_vars, \A D \in Designs : NestedTypesStay(D) PROVE IInv'
  <1>1. NestedTypesStay(design)
    BY DEF IInv, TypeInv
  <1>2. CASE Next
    BY <1>1, <1>2, FixDeclarationInv, FixReferenceInv, EndVisitInv, KeepRangeInv, ReverseRangeInv,
       MarkReferencesInv, EndCollectInv, CopyDeclarationInv, EndCopyInv DEF Next
  <1>3. CASE UNCHANGED vars
    BY <1>3, StutterInv
  <1> QED
    BY <1>2, <1>3

\* A reference ends with the direction and the bounds the source gives it in
\* every dimension, for any number of types, dimensions and references, both
\* directions and every order of the addresses that are the keys of the maps:
\* visitRange, visitTypeReference and fixCollectRanges.  No declaration that is
\* copied has an element that is moved.
THEOREM ShapesAreKeptThm ==
    ASSUME \A D \in Designs : NestedTypesStay(D)
    PROVE  Spec => []ShapesAreKept
  <1>1. Init => IInv
    BY InitInv
  <1>2. IInv /\ [Next]_vars => IInv'
    BY StepInv
  <1>3. IInv => ShapesAreKept
    BY InvariantIsEnough
  <1> QED
    BY <1>1, <1>2, <1>3, PTL DEF Spec
===============================================================================
