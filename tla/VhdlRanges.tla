------------------------------ MODULE VhdlRanges ------------------------------
(***************************************************************************)
(* The ranges of unconstrained array types in step 1 of vhdl2hif.          *)
(* A VHDL type `array (natural range <>) of ...` leaves its bounds and its *)
(* direction to the references.  HIF has template parameters for the       *)
(* bounds only, so every range of such a type has one direction for all    *)
(* references: downto, upto if they all are, and if they differ the        *)
(* ascending references are given copies of the declaration.               *)
(*                                                                         *)
(* The maps of the code have addresses as keys, so their loops are in any  *)
(* order.                                                                  *)
(***************************************************************************)
EXTENDS Naturals, Sequences

CONSTANTS
    N,          \* the types are 1..N, in the order of their declarations
    Refs,       \* the type references
    NoRef,
    Bounds,     \* what stands for a bound in the source
    Template,   \* a bound that is left to the caller of a subprogram
    Designs

ASSUME ConstantsAssumption == N \in Nat /\ NoRef \notin Refs /\ Template \notin Bounds

Types == 1 .. N
Ranges == [dir : {"upto", "downto"}, left : Bounds, right : Bounds]

\* dims[t] is the number of unconstrained ranges of t, 0 for a subtype or a
\* constrained array; element[t] the reference inside its declaration; of[r]
\* the type a reference names and ranges[r] its constraint.
Sources ==
    [dims : [Types -> Nat], element : [Types -> Refs \cup {NoRef}],
     of : [Refs -> Types], ranges : [Refs -> Seq(Ranges)]]

\* A type is declared before it is used; a reference has all ranges or none,
\* which only a parameter of a subprogram may; and no two declarations share a
\* reference.
WellFormed(D) ==
    /\ D \in Sources
    /\ \A r \in Refs : Len(D.ranges[r]) \in {0, D.dims[D.of[r]]}
    /\ \A t \in Types : D.element[t] # NoRef =>
          /\ D.of[D.element[t]] < t
          /\ Len(D.ranges[D.element[t]]) = D.dims[D.of[D.element[t]]]
    /\ \A t, s \in Types : D.element[t] = D.element[s] => t = s \/ D.element[t] = NoRef

ASSUME DesignsAssumption == \A D \in Designs : WellFormed(D)

VARIABLES
    design,      \* the source, never changed
    phase,       \* the visit of the tree, then the two loops of fixCollectRanges
    bare,        \* the declarations whose ranges have no bounds yet
    toVisit,     \* the references the visitor has not reached
    toCollect,   \* the ranges the first loop has not reached
    toCopy,      \* the partitions the second loop has not reached
    declared,    \* the declarations of the tree
    references,  \* the references of the tree
    rangeMap,    \* _rangeMap: for a range the references that invert it or not
    trMap        \* for a reference the ranges that need a copy

vars == <<design, phase, bare, toVisit, toCollect, toCopy, declared, references, rangeMap, trMap>>

\* A declaration is named by its type and the set of dimensions it is a copy
\* for; a reference in a copied declaration by the reference it is a copy of
\* and that set.
Original(x) == <<x, {}>>

Dims(t) == 1 .. design.dims[t]
Keys == UNION {{t} \X Dims(t) : t \in Types}
NoAssigns == [k \in {} |-> Template]
Element(t) == design.element[t]

\* parse_UnconstrainedArrayDefinition, parse_SubtypeIndication and resolveType:
\* a declaration with ranges without bounds, and a reference with its ranges.
ParsedType(t) ==
    [dirs |-> [k \in Dims(t) |-> "none"],
     element |-> IF Element(t) = NoRef THEN NoRef ELSE Original(Element(t))]
ParsedReference(r) ==
    [name |-> Original(design.of[r]), ranges |-> design.ranges[r], assigns |-> NoAssigns]

Init ==
    /\ design \in Designs
    /\ phase = "visit" /\ bare = Types /\ toVisit = Refs
    /\ toCollect = {} /\ toCopy = {}
    /\ declared = [n \in {Original(t) : t \in Types} |-> ParsedType(n[1])]
    /\ references = [i \in {Original(r) : r \in Refs} |-> ParsedReference(i[1])]
    /\ rangeMap = [key \in Keys |-> [upto |-> {}, downto |-> {}]]
    /\ trMap = [r \in Refs |-> {}]

-------------------------------------------------------------------------------
(* The visit.                                                              *)

\* _fixRangeTypedrange: two template parameters become the bounds of each
\* range of the declaration, which counts down.
FixDeclaration(t) ==
    /\ phase = "visit" /\ t \in bare
    /\ bare' = bare \ {t}
    /\ declared' = [declared EXCEPT ![Original(t)].dirs = [k \in Dims(t) |-> "downto"]]
    /\ UNCHANGED <<design, phase, toVisit, toCollect, toCopy, references, rangeMap, trMap>>

\* The values of the two template parameters of a range.
Assigned(range) == [left |-> range.left, right |-> range.right]

Assigns(r) ==
    [k \in Dims(design.of[r]) |->
        IF k \in DOMAIN design.ranges[r] THEN Assigned(design.ranges[r][k])
        ELSE [left |-> Template, right |-> Template]]

Inverts(r, key, way) ==
    {q \in {r} : /\ key[1] = design.of[q] /\ key[2] \in DOMAIN design.ranges[q]
                 /\ design.ranges[q][key[2]].dir = way}

\* The declaration has been visited, with the reference inside it.  A second
\* visit of a reference finds all parameters assigned and does nothing.
FixReference(r) ==
    /\ phase = "visit" /\ r \in toVisit
    /\ design.of[r] \notin bare /\ Element(design.of[r]) \notin toVisit
    /\ toVisit' = toVisit \ {r}
    /\ references' = [references EXCEPT ![Original(r)].ranges = <<>>,
                                       ![Original(r)].assigns = Assigns(r)]
    /\ rangeMap' =
          [key \in Keys |-> [upto |-> rangeMap[key].upto \cup Inverts(r, key, "upto"),
                             downto |-> rangeMap[key].downto \cup Inverts(r, key, "downto")]]
    /\ UNCHANGED <<design, phase, bare, toCollect, toCopy, declared, trMap>>

EndVisit ==
    /\ phase = "visit" /\ bare = {} /\ toVisit = {}
    /\ phase' = "collect"
    /\ toCollect' = {key \in Keys : rangeMap[key].upto \cup rangeMap[key].downto # {}}
    /\ UNCHANGED <<design, bare, toVisit, toCopy, declared, references, rangeMap, trMap>>

-------------------------------------------------------------------------------
(* fixCollectRanges                                                        *)

Collect(key) == phase = "collect" /\ key \in toCollect /\ toCollect' = toCollect \ {key}

\* All references count down, as the declaration does.
KeepRange(key) ==
    /\ Collect(key)
    /\ rangeMap[key].upto = {}
    /\ UNCHANGED <<design, phase, bare, toVisit, toCopy, declared, references, rangeMap, trMap>>

\* All count up: the range of the declaration is reversed.
ReverseRange(key) ==
    /\ Collect(key)
    /\ rangeMap[key].upto # {} /\ rangeMap[key].downto = {}
    /\ declared' = [declared EXCEPT ![Original(key[1])].dirs[key[2]] = "upto"]
    /\ UNCHANGED <<design, phase, bare, toVisit, toCopy, references, rangeMap, trMap>>

\* They differ: those that count up need a copy.
MarkReferences(key) ==
    /\ Collect(key)
    /\ rangeMap[key].upto # {} /\ rangeMap[key].downto # {}
    /\ trMap' = [r \in Refs |->
                    IF r \in rangeMap[key].upto THEN trMap[r] \cup {key} ELSE trMap[r]]
    /\ UNCHANGED <<design, phase, bare, toVisit, toCopy, declared, references, rangeMap>>

\* References that invert the same ranges share a copy.
Partitions(marks) == {marks[r] : r \in Refs} \ {{}}

EndCollect ==
    /\ phase = "collect" /\ toCollect = {}
    /\ phase' = "copy"
    /\ toCopy' = Partitions(trMap)
    /\ UNCHANGED <<design, bare, toVisit, toCollect, declared, references, rangeMap, trMap>>

\* Mutant: the whole copy counts up.
Reversed_All(dirs, inverted) == [k \in DOMAIN dirs |-> "upto"]

\* The ranges are reversed, the declaration is copied, and they are reversed
\* back.
Reversed(dirs, inverted) == [k \in DOMAIN dirs |-> IF k \in inverted THEN "upto" ELSE dirs[k]]

TypeOfRange(key) == key[1]

CopyDeclaration(S) ==
    /\ phase = "copy" /\ S \in toCopy
    /\ toCopy' = toCopy \ {S}
    /\ LET t == TypeOfRange(CHOOSE key \in S : TRUE)
           inverted == {key[2] : key \in S}
           newName == <<t, inverted>>
           inner == IF Element(t) = NoRef THEN {} ELSE {<<Element(t), inverted>>}
       IN  /\ declared' =
                 [n \in DOMAIN declared \cup {newName} |->
                    IF n = newName
                      THEN [dirs |-> Reversed(declared[Original(t)].dirs, inverted),
                            element |-> IF inner = {} THEN NoRef ELSE <<Element(t), inverted>>]
                      ELSE declared[n]]
           /\ references' =
                 [i \in DOMAIN references \cup inner |->
                    IF i \in inner THEN references[Original(i[1])]
                    ELSE IF i[2] = {} /\ trMap[i[1]] = S
                      THEN [references[i] EXCEPT !.name = newName]
                    ELSE references[i]]
    /\ UNCHANGED <<design, phase, bare, toVisit, toCollect, rangeMap, trMap>>

EndCopy ==
    /\ phase = "copy" /\ toCopy = {}
    /\ phase' = "done"
    /\ UNCHANGED <<design, bare, toVisit, toCollect, toCopy, declared, references, rangeMap, trMap>>

Next ==
    \/ \E t \in Types : FixDeclaration(t)
    \/ \E r \in Refs : FixReference(r)
    \/ EndVisit
    \/ \E key \in Keys : KeepRange(key) \/ ReverseRange(key) \/ MarkReferences(key)
    \/ EndCollect
    \/ \E S \in toCopy : CopyDeclaration(S)
    \/ EndCopy

Spec == Init /\ [][Next]_vars

-------------------------------------------------------------------------------
(* Properties.                                                             *)

\* The ranges a reference has in the end: the directions of the declaration
\* it names with its own bounds.
RangesOf(i) ==
    LET ref == references[i]
    IN  [k \in DOMAIN declared[ref.name].dirs |->
           [dir |-> declared[ref.name].dirs[k],
            left |-> ref.assigns[k].left, right |-> ref.assigns[k].right]]

IsConstrained(r) == Len(design.ranges[r]) = design.dims[design.of[r]]

\* An element that is moved to a copy of its own type is not in a declaration
\* that is copied too.  Else the copy's element depends on which of the two
\* comes first.
Directed(D, t, k) ==
    {D.ranges[r][k].dir : r \in {q \in Refs : D.of[q] = t /\ k \in DOMAIN D.ranges[q]}}
Copied(D, t) == \E k \in 1 .. D.dims[t] : Directed(D, t, k) = {"upto", "downto"}
Moved(D, r) ==
    \E k \in DOMAIN D.ranges[r] : /\ D.ranges[r][k].dir = "upto"
                                  /\ Directed(D, D.of[r], k) = {"upto", "downto"}
NestedTypesStay(D) ==
    \A t \in Types : D.element[t] # NoRef => ~ (Copied(D, t) /\ Moved(D, D.element[t]))

\* In the end every reference that has a constraint names a declaration of its
\* type, with the ranges the source gives it, direction and bounds, dimension
\* by dimension: also the references inside the copies of a declaration,
\* however references of both directions are spread over the types and in
\* whatever order the addresses are.
ShapesAreKept ==
    phase = "done" =>
        \A i \in DOMAIN references : IsConstrained(i[1]) =>
            /\ references[i].name \in DOMAIN declared
            /\ references[i].name[1] = design.of[i[1]]
            /\ RangesOf(i) = design.ranges[i[1]]
===============================================================================
