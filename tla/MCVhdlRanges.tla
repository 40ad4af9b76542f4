---------------------------- MODULE MCVhdlRanges ----------------------------
(***************************************************************************)
(* Three types: an array of one or two dimensions, a second one whose      *)
(* elements it may be, and a subtype or constrained array of one of them;  *)
(* declarations of the first two in both directions.                       *)
(***************************************************************************)
EXTENDS VhdlRanges

Up == [dir |-> "upto", left |-> "0", right |-> "n"]
Down == [dir |-> "downto", left |-> "n", right |-> "0"]
Ways == {Up, Down}
Constraints(n) == IF n = 1 THEN {<<a>> : a \in Ways} ELSE {<<a, b>> : a, b \in Ways}

\* inner and sub are the references in the second and the third declaration,
\* x, y and z those of signals, p that of a parameter.
MCRefs == {"inner", "sub", "x", "y", "z", "p"}

Design(words, matrices, nested, in, s, cx, cy, z, cz) ==
    [dims |-> <<words, matrices, 0>>,
     element |-> <<NoRef, IF nested THEN "inner" ELSE NoRef, "sub">>,
     of |-> [inner |-> 1, sub |-> s[1], x |-> 1, y |-> 1, z |-> z, p |-> 2],
     ranges |-> [inner |-> in, sub |-> s[2], x |-> cx, y |-> cy, z |-> cz, p |-> <<>>]]

\* Both signals of the first type, the subtype and the reference of the
\* elements take every direction.
OneDimension ==
    {Design(1, 1, TRUE, in, <<2, s>>, cx, cx, 2, cz) :
        in \in Constraints(1), s \in Constraints(1), cx \in Constraints(1), cz \in Constraints(1)}
TwoDimensions ==
    {Design(2, 1, FALSE, cw, <<1, s>>, cx, cy, 2, cz) :
        cw \in {<<Down, Down>>, <<Up, Up>>}, s \in Constraints(2), cx \in Constraints(2),
        cy \in Constraints(2), cz \in {<<Up>>}}

MCDesigns == {D \in OneDimension \cup TwoDimensions : NestedTypesStay(D)}
=============================================================================
