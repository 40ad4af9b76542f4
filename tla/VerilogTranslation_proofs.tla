----------------------- MODULE VerilogTranslation_proofs -----------------------
(***************************************************************************)
(* What the translation of verilog2hif guarantees for every project: the   *)
(* delays of every unit are scaled once, by the time scale in force where  *)
(* its module was written, and the units of the AMS language that are      *)
(* marked are those that hold something of it and those that instantiate   *)
(* one of these at any depth.                                              *)
(***************************************************************************)
EXTENDS VerilogTranslation, SequenceTheorems, FiniteSetTheorems, NaturalsInduction, WellFoundedInduction, TLAPS

-------------------------------------------------------------------------------
(* Sequences, as functions on an initial segment of the naturals.          *)

Row(q) == \E n \in Nat : q = [i \in 1 .. n |-> q[i]]

\* A function on an initial segment is a sequence of that length.
LEMMA RowIsSeq ==
  ASSUME NEW q, NEW n \in Nat, q = [i \in 1 .. n |-> q[i]], NEW S, \A i \in 1 .. n : q[i] \in S
  PROVE  q \in Seq(S) /\ Len(q) = n /\ DOMAIN q = 1 .. n
<1>1. q \in [1 .. n -> S]
  OBVIOUS
<1>2. QED BY <1>1

\* Every sequence is such a function.
LEMMA SeqIsRow ==
  ASSUME NEW S, NEW q \in Seq(S)
  PROVE  Row(q)
<1>1. q \in [1 .. Len(q) -> S] /\ Len(q) \in Nat
  OBVIOUS
<1>2. QED BY <1>1 DEF Row

\* Append adds one element behind the others.
LEMMA RowAppend ==
  ASSUME NEW q, NEW n \in Nat, q = [i \in 1 .. n |-> q[i]], NEW e
  PROVE  Append(q, e) = [i \in 1 .. n + 1 |-> IF i = n + 1 THEN e ELSE q[i]]
<1>1. PICK S : S = {q[i] : i \in 1 .. n} \cup {e}
  OBVIOUS
<1>2. q \in Seq(S) /\ Len(q) = n /\ e \in S
  BY <1>1, RowIsSeq
<1>3. /\ Append(q, e) \in Seq(S)
      /\ Len(Append(q, e)) = n + 1
      /\ \A i \in 1 .. n : Append(q, e)[i] = q[i]
      /\ Append(q, e)[n + 1] = e
  BY <1>2, AppendProperties
<1>4. Append(q, e) = [i \in 1 .. n + 1 |-> Append(q, e)[i]]
  BY <1>3
<1>5. \A i \in 1 .. n + 1 : Append(q, e)[i] = IF i = n + 1 THEN e ELSE q[i]
  BY <1>3
<1>6. QED BY <1>4, <1>5

\* Concatenation, element by element.
LEMMA RowConcat ==
  ASSUME NEW q, NEW n \in Nat, q = [i \in 1 .. n |-> q[i]],
         NEW r, NEW m \in Nat, r = [i \in 1 .. m |-> r[i]]
  PROVE  q \o r = [i \in 1 .. n + m |-> IF i <= n THEN q[i] ELSE r[i - n]]
<1>1. PICK S : S = {q[i] : i \in 1 .. n} \cup {r[i] : i \in 1 .. m}
  OBVIOUS
<1>2. (q \in Seq(S) /\ Len(q) = n) /\ (r \in Seq(S) /\ Len(r) = m)
  <2>1. q \in Seq(S) /\ Len(q) = n
    BY <1>1, RowIsSeq
  <2>2. r \in Seq(S) /\ Len(r) = m
    BY <1>1, RowIsSeq
  <2>3. QED BY <2>1, <2>2
<1>3. /\ q \o r \in Seq(S)
      /\ Len(q \o r) = n + m
      /\ \A i \in 1 .. n + m : (q \o r)[i] = IF i <= n THEN q[i] ELSE r[i - n]
  BY <1>2, ConcatProperties
<1>4. q \o r = [i \in 1 .. n + m |-> (q \o r)[i]]
  <2>1. \A t \in Seq(S) : Len(t) = n + m => t = [i \in 1 .. n + m |-> t[i]]
    OBVIOUS
  <2>2. QED BY <1>3, <2>1
<1>5. QED BY <1>3, <1>4

\* The elements of a tail.
LEMMA RowTail ==
  ASSUME NEW q, Row(q), q # <<>>
  PROVE  /\ Head(q) = q[1] /\ 1 \in DOMAIN q /\ Row(Tail(q))
         /\ \A i \in DOMAIN Tail(q) : i + 1 \in DOMAIN q /\ Tail(q)[i] = q[i + 1]
<1>1. PICK n \in Nat : q = [i \in 1 .. n |-> q[i]]
  BY DEF Row
<1>2. PICK S : S = {q[i] : i \in 1 .. n}
  OBVIOUS
<1>3. q \in Seq(S) /\ Len(q) = n /\ DOMAIN q = 1 .. n
  BY <1>1, <1>2, RowIsSeq
<1>4. /\ Head(q) \in S /\ Tail(q) \in Seq(S) /\ Len(Tail(q)) = Len(q) - 1
      /\ \A i \in 1 .. Len(Tail(q)) : Tail(q)[i] = q[i + 1]
  BY <1>3, HeadTailProperties
<1>5. n # 0
  BY <1>3, EmptySeq
<1>6. DOMAIN Tail(q) = 1 .. n - 1
  BY <1>3, <1>4
<1>7. Row(Tail(q))
  BY <1>4, SeqIsRow
<1>8. Head(q) = q[1]
  BY <1>3
<1>9. QED BY <1>3, <1>4, <1>5, <1>6, <1>7, <1>8

-------------------------------------------------------------------------------
(* Induction up to a number, and folds.                                    *)

\* Every non-empty set of naturals has a least member.
LEMMA LeastNat ==
  ASSUME NEW S, S \subseteq Nat, S # {}
  PROVE  \E n \in S : \A m \in S : n <= m
<1>1. PICK n \in S : \A m \in S : <<m, n>> \notin OpToRel(<, Nat)
  BY NatLessThanWellFounded, WFMin
<1>2. ASSUME NEW m \in S PROVE n <= m
  <2>1. m \in Nat /\ n \in Nat
    OBVIOUS
  <2>2. ~(m < n)
    BY <1>1, <2>1 DEF OpToRel
  <2>3. QED BY <2>1, <2>2
<1>3. QED BY <1>2

\* Induction up to n over a set of numbers.
LEMMA Stepwise ==
  ASSUME NEW n \in Nat, NEW P, 0 \in P, \A k \in 1 .. n : k - 1 \in P => k \in P
  PROVE  n \in P
<1>1. PICK T : T = {k \in Nat : k <= n /\ k \notin P}
  OBVIOUS
<1>2. SUFFICES ASSUME T # {} PROVE FALSE
  BY <1>1
<1>3. PICK k \in T : \A j \in T : k <= j
  BY <1>1, <1>2, LeastNat
<1>4. k \in Nat /\ k # 0 /\ k <= n /\ k \notin P
  BY <1>1, <1>3
<1>5. k - 1 \in Nat /\ k - 1 <= n /\ ~(k <= k - 1)
  BY <1>4
<1>6. k - 1 \in P
  BY <1>1, <1>3, <1>5
<1>7. QED BY <1>4, <1>6

\* The fold of the community modules takes the indices from the last one down.
LEMMA MaxOf ==
  ASSUME NEW m \in Nat, NEW s \in SUBSET (1 .. (m + 1)), m + 1 \in s
  PROVE  Max(s) = m + 1 /\ s \ {m + 1} \in SUBSET (1 .. m)
<1>1. \A y \in s : m + 1 >= y
  OBVIOUS
<1>2. \A x \in s : (\A y \in s : x >= y) => x = m + 1
  <2>1. SUFFICES ASSUME NEW x \in s, \A y \in s : x >= y PROVE x = m + 1
    OBVIOUS
  <2>2. x >= m + 1 /\ x <= m + 1 /\ x \in Nat
    BY <2>1
  <2>3. QED BY <2>2
<1>3. Max(s) = CHOOSE x \in s : \A y \in s : x >= y
  BY DEF Max
<1>4. Max(s) \in s /\ \A y \in s : Max(s) >= y
  BY <1>1, <1>3
<1>5. Max(s) = m + 1
  BY <1>2, <1>4
<1>6. QED BY <1>5

\* The step of each fold, by the kind of the fold and its parameters.
Step(kind, p, a, x) ==
  CASE kind = "names" -> IF x.name \in p THEN Append(a, x) ELSE a
    [] kind = "locals" -> IF IsLocal(x) THEN Append(a, x) ELSE a
    [] kind = "drivers" -> IF IsDriver(p[1], p[2], _fixAMSDisciplines(x, p[3])) THEN Append(a, x) ELSE a
    [] kind = "files" -> IF x.ext \in p THEN Append(a, x) ELSE a
    [] kind = "declare" -> ParseItem(a, x, p)
    [] kind = "port" -> JoinPorts(a, x)
    [] kind = "imply" -> _fixImplicitDeclaredNets(a, p[1], x, p[2])
    [] kind = "assign" -> visitAssign(a, p, x)
    [] kind = "fold" -> Fold(a, p, x)
    [] kind = "double" -> JoinDouble(a, x)
    [] kind = "subprogram" -> visitSubprogram(a, x, p)
    [] kind = "generate" -> visitGenerate(a, x, p)
    [] kind = "formal" -> _fixImplicitDeclaredNets(a, Top, x.actual, FormalType(p, x))
    [] kind = "instance" -> visitPortAssigns(a, x, p)

\* The function that folds every part of an initial segment of a sequence.
IsFold(g, kind, p, base, seq, n) ==
  g = [s \in SUBSET (1 .. n) |-> IF s = {} THEN base ELSE Step(kind, p, g[s \ {Max(s)}], seq[Max(s)])]

\* res is what a fold of a sequence computes, through its partial results.
Folds(kind, p, base, seq, n, res) ==
  \E r : /\ r[0] = base
         /\ \A k \in 1 .. n : r[k] = Step(kind, p, r[k - 1], seq[k])
         /\ r[n] = res

\* There is a table of the values a fold passes through,
LEMMA FoldExists ==
  ASSUME NEW kind, NEW p, NEW base, NEW seq, NEW m \in Nat
  PROVE  \E g : IsFold(g, kind, p, base, seq, m)
<1>1. PICK T : T = {k \in Nat : ~ \E g : IsFold(g, kind, p, base, seq, k)}
  OBVIOUS
<1>2. SUFFICES ASSUME T # {} PROVE FALSE
  BY <1>1
<1>3. PICK k \in T : \A j \in T : k <= j
  BY <1>1, <1>2, LeastNat
<1>4. k # 0
  <2>1. IsFold([s \in SUBSET (1 .. 0) |-> base], kind, p, base, seq, 0)
    BY DEF IsFold
  <2>2. QED BY <1>1, <1>3, <2>1
<1>5. PICK j \in Nat : k = j + 1 /\ j \notin T
  <2>1. k \in Nat /\ k - 1 \in Nat /\ k = (k - 1) + 1
    BY <1>1, <1>4
  <2>2. QED BY <1>3, <2>1
<1>6. PICK g : IsFold(g, kind, p, base, seq, j)
  BY <1>1, <1>5
<1>7. PICK h : h = [s \in SUBSET (1 .. k) |-> IF k \in s THEN Step(kind, p, g[s \ {k}], seq[k]) ELSE g[s]]
  OBVIOUS
<1>8. ASSUME NEW s \in SUBSET (1 .. k)
      PROVE  h[s] = IF s = {} THEN base ELSE Step(kind, p, h[s \ {Max(s)}], seq[Max(s)])
  <2>1. CASE k \in s
    <3>1. Max(s) = k /\ s \ {k} \in SUBSET (1 .. j) /\ s \ {k} \in SUBSET (1 .. k)
      BY <1>5, <2>1, MaxOf
    <3>2. h[s] = Step(kind, p, g[s \ {k}], seq[k])
      BY <1>7, <2>1
    <3>3. h[s \ {k}] = g[s \ {k}]
      BY <1>7, <3>1
    <3>4. QED BY <2>1, <3>1, <3>2, <3>3
  <2>2. CASE k \notin s
    <3>1. s \in SUBSET (1 .. j)
      BY <1>5, <2>2
    <3>2. h[s] = g[s]
      BY <1>7, <2>2
    <3>3. g[s] = IF s = {} THEN base ELSE Step(kind, p, g[s \ {Max(s)}], seq[Max(s)])
      BY <1>6, <3>1 DEF IsFold
    <3>4. k \notin s \ {Max(s)} /\ s \ {Max(s)} \in SUBSET (1 .. k)
      BY <2>2
    <3>5. h[s \ {Max(s)}] = g[s \ {Max(s)}]
      BY <1>7, <3>4
    <3>6. QED BY <3>2, <3>3, <3>5
  <2>3. QED BY <2>1, <2>2
<1>9. IsFold(h, kind, p, base, seq, k)
  BY <1>7, <1>8, Zenon DEF IsFold
<1>10. QED BY <1>1, <1>3, <1>9

\* and its last entry is the result of the fold.
LEMMA FoldIsFolded ==
  ASSUME NEW h, NEW kind, NEW p, NEW base, NEW seq, NEW n \in Nat, IsFold(h, kind, p, base, seq, n)
  PROVE  Folds(kind, p, base, seq, n, h[1 .. n])
<1>1. PICK r : r = [k \in 0 .. n |-> h[1 .. k]]
  OBVIOUS
<1>2. r[0] = base
  <2>1. h[{}] = base
    BY DEF IsFold
  <2>2. 1 .. 0 = {} /\ r[0] = h[1 .. 0]
    BY <1>1
  <2>3. QED BY <2>1, <2>2
<1>3. ASSUME NEW k \in 1 .. n PROVE r[k] = Step(kind, p, r[k - 1], seq[k])
  <2>1. PICK j \in Nat : k = j + 1
    <3>1. k - 1 \in Nat /\ k = (k - 1) + 1
      OBVIOUS
    <3>2. QED BY <3>1
  <2>2. Max(1 .. k) = k
    BY <2>1, MaxOf
  <2>3. (1 .. k) \ {k} = 1 .. j /\ 1 .. k # {} /\ (1 .. k) \in SUBSET (1 .. n)
    BY <2>1
  <2>4. h[1 .. k] = Step(kind, p, h[(1 .. k) \ {k}], seq[k])
    BY <2>2, <2>3 DEF IsFold
  <2>5. r[k] = h[1 .. k] /\ r[k - 1] = h[1 .. j]
    BY <1>1, <2>1
  <2>6. QED BY <2>3, <2>4, <2>5
<1>4. r[n] = h[1 .. n]
  BY <1>1
<1>5. QED BY <1>2, <1>3, <1>4 DEF Folds

SelectedNames(base, seq, p) ==
  FoldLeft(LAMBDA a, x : IF x.name \in p THEN Append(a, x) ELSE a, base, seq)

\* Each fold of the model is unrolled once: names of declarations,
LEMMA SelectedNamesSteps ==
  ASSUME NEW base, NEW seq, NEW n \in Nat, DOMAIN seq = 1 .. n, NEW p
  PROVE  Folds("names", p, base, seq, n, SelectedNames(base, seq, p))
<1>1. PICK h : h = CHOOSE g : g = [c \in SUBSET (1 .. n) |-> IF c = {} THEN base
                                     ELSE IF seq[Max(c)].name \in p THEN Append(g[c \ {Max(c)}], seq[Max(c)]) ELSE g[c \ {Max(c)}]]
  OBVIOUS
<1>2. PICK g : IsFold(g, "names", p, base, seq, n)
  BY FoldExists
<1>3. \A a, x : Step("names", p, a, x) = IF x.name \in p THEN Append(a, x) ELSE a
  BY DEF Step
<1>4. g = [c \in SUBSET (1 .. n) |-> IF c = {} THEN base
                                     ELSE IF seq[Max(c)].name \in p THEN Append(g[c \ {Max(c)}], seq[Max(c)]) ELSE g[c \ {Max(c)}]]
  BY <1>2, <1>3, Zenon DEF IsFold
<1>5. h = [c \in SUBSET (1 .. n) |-> IF c = {} THEN base
                                     ELSE IF seq[Max(c)].name \in p THEN Append(h[c \ {Max(c)}], seq[Max(c)]) ELSE h[c \ {Max(c)}]]
  BY <1>1, <1>4, Zenon
<1>6. IsFold(h, "names", p, base, seq, n)
  BY <1>3, <1>5, Zenon DEF IsFold
<1>7. SelectedNames(base, seq, p) = h[1 .. n]
  BY <1>1, Zenon DEF SelectedNames, FoldLeft, MapThenFoldSet
<1>8. QED BY <1>6, <1>7, FoldIsFolded, Zenon

SelectedLocals(base, seq) ==
  FoldLeft(LAMBDA a, x : IF IsLocal(x) THEN Append(a, x) ELSE a, base, seq)

\* local parameters,
LEMMA SelectedLocalsSteps ==
  ASSUME NEW base, NEW seq, NEW n \in Nat, DOMAIN seq = 1 .. n
  PROVE  Folds("locals", 0, base, seq, n, SelectedLocals(base, seq))
<1>1. PICK h : h = CHOOSE g : g = [c \in SUBSET (1 .. n) |-> IF c = {} THEN base
                                     ELSE IF IsLocal(seq[Max(c)]) THEN Append(g[c \ {Max(c)}], seq[Max(c)]) ELSE g[c \ {Max(c)}]]
  OBVIOUS
<1>2. PICK g : IsFold(g, "locals", 0, base, seq, n)
  BY FoldExists
<1>3. \A a, x : Step("locals", 0, a, x) = IF IsLocal(x) THEN Append(a, x) ELSE a
  BY DEF Step
<1>4. g = [c \in SUBSET (1 .. n) |-> IF c = {} THEN base
                                     ELSE IF IsLocal(seq[Max(c)]) THEN Append(g[c \ {Max(c)}], seq[Max(c)]) ELSE g[c \ {Max(c)}]]
  BY <1>2, <1>3, Zenon DEF IsFold
<1>5. h = [c \in SUBSET (1 .. n) |-> IF c = {} THEN base
                                     ELSE IF IsLocal(seq[Max(c)]) THEN Append(h[c \ {Max(c)}], seq[Max(c)]) ELSE h[c \ {Max(c)}]]
  BY <1>1, <1>4, Zenon
<1>6. IsFold(h, "locals", 0, base, seq, n)
  BY <1>3, <1>5, Zenon DEF IsFold
<1>7. SelectedLocals(base, seq) = h[1 .. n]
  BY <1>1, Zenon DEF SelectedLocals, FoldLeft, MapThenFoldSet
<1>8. QED BY <1>6, <1>7, FoldIsFolded, Zenon

SelectedDrivers(base, seq, v, s, lb) ==
  FoldLeft(LAMBDA a, x : IF IsDriver(v, s, _fixAMSDisciplines(x, lb)) THEN Append(a, x) ELSE a, base, seq)

\* drivers of an initialised declaration,
LEMMA SelectedDriversSteps ==
  ASSUME NEW base, NEW seq, NEW n \in Nat, DOMAIN seq = 1 .. n, NEW v, NEW s, NEW lb
  PROVE  Folds("drivers", <<v, s, lb>>, base, seq, n, SelectedDrivers(base, seq, v, s, lb))
<1>1. PICK h : h = CHOOSE g : g = [c \in SUBSET (1 .. n) |-> IF c = {} THEN base
                                     ELSE IF IsDriver(v, s, _fixAMSDisciplines(seq[Max(c)], lb)) THEN Append(g[c \ {Max(c)}], seq[Max(c)]) ELSE g[c \ {Max(c)}]]
  OBVIOUS
<1>2. PICK g : IsFold(g, "drivers", <<v, s, lb>>, base, seq, n)
  BY FoldExists
<1>3. \A a, x : Step("drivers", <<v, s, lb>>, a, x) = IF IsDriver(v, s, _fixAMSDisciplines(x, lb)) THEN Append(a, x) ELSE a
  BY DEF Step
<1>4. g = [c \in SUBSET (1 .. n) |-> IF c = {} THEN base
                                     ELSE IF IsDriver(v, s, _fixAMSDisciplines(seq[Max(c)], lb)) THEN Append(g[c \ {Max(c)}], seq[Max(c)]) ELSE g[c \ {Max(c)}]]
  BY <1>2, <1>3, Zenon DEF IsFold
<1>5. h = [c \in SUBSET (1 .. n) |-> IF c = {} THEN base
                                     ELSE IF IsDriver(v, s, _fixAMSDisciplines(seq[Max(c)], lb)) THEN Append(h[c \ {Max(c)}], seq[Max(c)]) ELSE h[c \ {Max(c)}]]
  BY <1>1, <1>4, Zenon
<1>6. IsFold(h, "drivers", <<v, s, lb>>, base, seq, n)
  BY <1>3, <1>5, Zenon DEF IsFold
<1>7. SelectedDrivers(base, seq, v, s, lb) = h[1 .. n]
  BY <1>1, Zenon DEF SelectedDrivers, FoldLeft, MapThenFoldSet
<1>8. QED BY <1>6, <1>7, FoldIsFolded, Zenon

SelectedFiles(base, seq, p) ==
  FoldLeft(LAMBDA a, x : IF x.ext \in p THEN Append(a, x) ELSE a, base, seq)

\* files of a language,
LEMMA SelectedFilesSteps ==
  ASSUME NEW base, NEW seq, NEW n \in Nat, DOMAIN seq = 1 .. n, NEW p
  PROVE  Folds("files", p, base, seq, n, SelectedFiles(base, seq, p))
<1>1. PICK h : h = CHOOSE g : g = [c \in SUBSET (1 .. n) |-> IF c = {} THEN base
                                     ELSE IF seq[Max(c)].ext \in p THEN Append(g[c \ {Max(c)}], seq[Max(c)]) ELSE g[c \ {Max(c)}]]
  OBVIOUS
<1>2. PICK g : IsFold(g, "files", p, base, seq, n)
  BY FoldExists
<1>3. \A a, x : Step("files", p, a, x) = IF x.ext \in p THEN Append(a, x) ELSE a
  BY DEF Step
<1>4. g = [c \in SUBSET (1 .. n) |-> IF c = {} THEN base
                                     ELSE IF seq[Max(c)].ext \in p THEN Append(g[c \ {Max(c)}], seq[Max(c)]) ELSE g[c \ {Max(c)}]]
  BY <1>2, <1>3, Zenon DEF IsFold
<1>5. h = [c \in SUBSET (1 .. n) |-> IF c = {} THEN base
                                     ELSE IF seq[Max(c)].ext \in p THEN Append(h[c \ {Max(c)}], seq[Max(c)]) ELSE h[c \ {Max(c)}]]
  BY <1>1, <1>4, Zenon
<1>6. IsFold(h, "files", p, base, seq, n)
  BY <1>3, <1>5, Zenon DEF IsFold
<1>7. SelectedFiles(base, seq, p) = h[1 .. n]
  BY <1>1, Zenon DEF SelectedFiles, FoldLeft, MapThenFoldSet
<1>8. QED BY <1>6, <1>7, FoldIsFolded, Zenon

ParseItems(base, seq, ansi) ==
  FoldLeft(LAMBDA a, x : ParseItem(a, x, ansi), base, seq)

\* items of a module,
LEMMA ParseItemsSteps ==
  ASSUME NEW base, NEW seq, NEW n \in Nat, DOMAIN seq = 1 .. n, NEW ansi
  PROVE  Folds("declare", ansi, base, seq, n, ParseItems(base, seq, ansi))
<1>1. PICK h : h = CHOOSE g : g = [c \in SUBSET (1 .. n) |-> IF c = {} THEN base
                                     ELSE ParseItem(g[c \ {Max(c)}], seq[Max(c)], ansi)]
  OBVIOUS
<1>2. PICK g : IsFold(g, "declare", ansi, base, seq, n)
  BY FoldExists
<1>3. \A a, x : Step("declare", ansi, a, x) = ParseItem(a, x, ansi)
  BY DEF Step
<1>4. g = [c \in SUBSET (1 .. n) |-> IF c = {} THEN base
                                     ELSE ParseItem(g[c \ {Max(c)}], seq[Max(c)], ansi)]
  BY <1>2, <1>3, Zenon DEF IsFold
<1>5. h = [c \in SUBSET (1 .. n) |-> IF c = {} THEN base
                                     ELSE ParseItem(h[c \ {Max(c)}], seq[Max(c)], ansi)]
  BY <1>1, <1>4, Zenon
<1>6. IsFold(h, "declare", ansi, base, seq, n)
  BY <1>3, <1>5, Zenon DEF IsFold
<1>7. ParseItems(base, seq, ansi) = h[1 .. n]
  BY <1>1, Zenon DEF ParseItems, FoldLeft, MapThenFoldSet
<1>8. QED BY <1>6, <1>7, FoldIsFolded, Zenon

JoinedPorts(base, seq) ==
  FoldLeft(JoinPorts, base, seq)

\* ports joined with their declarations,
LEMMA JoinedPortsSteps ==
  ASSUME NEW base, NEW seq, NEW n \in Nat, DOMAIN seq = 1 .. n
  PROVE  Folds("port", 0, base, seq, n, JoinedPorts(base, seq))
<1>1. PICK h : h = CHOOSE g : g = [c \in SUBSET (1 .. n) |-> IF c = {} THEN base
                                     ELSE JoinPorts(g[c \ {Max(c)}], seq[Max(c)])]
  OBVIOUS
<1>2. PICK g : IsFold(g, "port", 0, base, seq, n)
  BY FoldExists
<1>3. \A a, x : Step("port", 0, a, x) = JoinPorts(a, x)
  BY DEF Step
<1>4. g = [c \in SUBSET (1 .. n) |-> IF c = {} THEN base
                                     ELSE JoinPorts(g[c \ {Max(c)}], seq[Max(c)])]
  BY <1>2, <1>3, Zenon DEF IsFold
<1>5. h = [c \in SUBSET (1 .. n) |-> IF c = {} THEN base
                                     ELSE JoinPorts(h[c \ {Max(c)}], seq[Max(c)])]
  BY <1>1, <1>4, Zenon
<1>6. IsFold(h, "port", 0, base, seq, n)
  BY <1>3, <1>5, Zenon DEF IsFold
<1>7. JoinedPorts(base, seq) = h[1 .. n]
  BY <1>1, Zenon DEF JoinedPorts, FoldLeft, MapThenFoldSet
<1>8. QED BY <1>6, <1>7, FoldIsFolded, Zenon

ImpliedNets(base, seq, s, t) ==
  FoldLeft(LAMBDA a, x : _fixImplicitDeclaredNets(a, s, x, t), base, seq)

\* implicit nets,
LEMMA ImpliedNetsSteps ==
  ASSUME NEW base, NEW seq, NEW n \in Nat, DOMAIN seq = 1 .. n, NEW s, NEW t
  PROVE  Folds("imply", <<s, t>>, base, seq, n, ImpliedNets(base, seq, s, t))
<1>1. PICK h : h = CHOOSE g : g = [c \in SUBSET (1 .. n) |-> IF c = {} THEN base
                                     ELSE _fixImplicitDeclaredNets(g[c \ {Max(c)}], s, seq[Max(c)], t)]
  OBVIOUS
<1>2. PICK g : IsFold(g, "imply", <<s, t>>, base, seq, n)
  BY FoldExists
<1>3. \A a, x : Step("imply", <<s, t>>, a, x) = _fixImplicitDeclaredNets(a, s, x, t)
  BY DEF Step
<1>4. g = [c \in SUBSET (1 .. n) |-> IF c = {} THEN base
                                     ELSE _fixImplicitDeclaredNets(g[c \ {Max(c)}], s, seq[Max(c)], t)]
  BY <1>2, <1>3, Zenon DEF IsFold
<1>5. h = [c \in SUBSET (1 .. n) |-> IF c = {} THEN base
                                     ELSE _fixImplicitDeclaredNets(h[c \ {Max(c)}], s, seq[Max(c)], t)]
  BY <1>1, <1>4, Zenon
<1>6. IsFold(h, "imply", <<s, t>>, base, seq, n)
  BY <1>3, <1>5, Zenon DEF IsFold
<1>7. ImpliedNets(base, seq, s, t) = h[1 .. n]
  BY <1>1, Zenon DEF ImpliedNets, FoldLeft, MapThenFoldSet
<1>8. QED BY <1>6, <1>7, FoldIsFolded, Zenon

VisitedAssigns(base, seq, s) ==
  FoldLeft(LAMBDA a, x : visitAssign(a, s, x), base, seq)

\* assigns,
LEMMA VisitedAssignsSteps ==
  ASSUME NEW base, NEW seq, NEW n \in Nat, DOMAIN seq = 1 .. n, NEW s
  PROVE  Folds("assign", s, base, seq, n, VisitedAssigns(base, seq, s))
<1>1. PICK h : h = CHOOSE g : g = [c \in SUBSET (1 .. n) |-> IF c = {} THEN base
                                     ELSE visitAssign(g[c \ {Max(c)}], s, seq[Max(c)])]
  OBVIOUS
<1>2. PICK g : IsFold(g, "assign", s, base, seq, n)
  BY FoldExists
<1>3. \A a, x : Step("assign", s, a, x) = visitAssign(a, s, x)
  BY DEF Step
<1>4. g = [c \in SUBSET (1 .. n) |-> IF c = {} THEN base
                                     ELSE visitAssign(g[c \ {Max(c)}], s, seq[Max(c)])]
  BY <1>2, <1>3, Zenon DEF IsFold
<1>5. h = [c \in SUBSET (1 .. n) |-> IF c = {} THEN base
                                     ELSE visitAssign(h[c \ {Max(c)}], s, seq[Max(c)])]
  BY <1>1, <1>4, Zenon
<1>6. IsFold(h, "assign", s, base, seq, n)
  BY <1>3, <1>5, Zenon DEF IsFold
<1>7. VisitedAssigns(base, seq, s) = h[1 .. n]
  BY <1>1, Zenon DEF VisitedAssigns, FoldLeft, MapThenFoldSet
<1>8. QED BY <1>6, <1>7, FoldIsFolded, Zenon

Folded(base, seq, s) ==
  FoldLeft(LAMBDA a, x : Fold(a, s, x), base, seq)

\* constant assigns moved to declarations,
LEMMA FoldedSteps ==
  ASSUME NEW base, NEW seq, NEW n \in Nat, DOMAIN seq = 1 .. n, NEW s
  PROVE  Folds("fold", s, base, seq, n, Folded(base, seq, s))
<1>1. PICK h : h = CHOOSE g : g = [c \in SUBSET (1 .. n) |-> IF c = {} THEN base
                                     ELSE Fold(g[c \ {Max(c)}], s, seq[Max(c)])]
  OBVIOUS
<1>2. PICK g : IsFold(g, "fold", s, base, seq, n)
  BY FoldExists
<1>3. \A a, x : Step("fold", s, a, x) = Fold(a, s, x)
  BY DEF Step
<1>4. g = [c \in SUBSET (1 .. n) |-> IF c = {} THEN base
                                     ELSE Fold(g[c \ {Max(c)}], s, seq[Max(c)])]
  BY <1>2, <1>3, Zenon DEF IsFold
<1>5. h = [c \in SUBSET (1 .. n) |-> IF c = {} THEN base
                                     ELSE Fold(h[c \ {Max(c)}], s, seq[Max(c)])]
  BY <1>1, <1>4, Zenon
<1>6. IsFold(h, "fold", s, base, seq, n)
  BY <1>3, <1>5, Zenon DEF IsFold
<1>7. Folded(base, seq, s) = h[1 .. n]
  BY <1>1, Zenon DEF Folded, FoldLeft, MapThenFoldSet
<1>8. QED BY <1>6, <1>7, FoldIsFolded, Zenon

JoinedDoubles(base, seq) ==
  FoldLeft(JoinDouble, base, seq)

\* declarations joined with their double,
LEMMA JoinedDoublesSteps ==
  ASSUME NEW base, NEW seq, NEW n \in Nat, DOMAIN seq = 1 .. n
  PROVE  Folds("double", 0, base, seq, n, JoinedDoubles(base, seq))
<1>1. PICK h : h = CHOOSE g : g = [c \in SUBSET (1 .. n) |-> IF c = {} THEN base
                                     ELSE JoinDouble(g[c \ {Max(c)}], seq[Max(c)])]
  OBVIOUS
<1>2. PICK g : IsFold(g, "double", 0, base, seq, n)
  BY FoldExists
<1>3. \A a, x : Step("double", 0, a, x) = JoinDouble(a, x)
  BY DEF Step
<1>4. g = [c \in SUBSET (1 .. n) |-> IF c = {} THEN base
                                     ELSE JoinDouble(g[c \ {Max(c)}], seq[Max(c)])]
  BY <1>2, <1>3, Zenon DEF IsFold
<1>5. h = [c \in SUBSET (1 .. n) |-> IF c = {} THEN base
                                     ELSE JoinDouble(h[c \ {Max(c)}], seq[Max(c)])]
  BY <1>1, <1>4, Zenon
<1>6. IsFold(h, "double", 0, base, seq, n)
  BY <1>3, <1>5, Zenon DEF IsFold
<1>7. JoinedDoubles(base, seq) = h[1 .. n]
  BY <1>1, Zenon DEF JoinedDoubles, FoldLeft, MapThenFoldSet
<1>8. QED BY <1>6, <1>7, FoldIsFolded, Zenon

VisitedSubprograms(base, seq, lb) ==
  FoldLeft(LAMBDA a, x : visitSubprogram(a, x, lb), base, seq)

\* subprograms,
LEMMA VisitedSubprogramsSteps ==
  ASSUME NEW base, NEW seq, NEW n \in Nat, DOMAIN seq = 1 .. n, NEW lb
  PROVE  Folds("subprogram", lb, base, seq, n, VisitedSubprograms(base, seq, lb))
<1>1. PICK h : h = CHOOSE g : g = [c \in SUBSET (1 .. n) |-> IF c = {} THEN base
                                     ELSE visitSubprogram(g[c \ {Max(c)}], seq[Max(c)], lb)]
  OBVIOUS
<1>2. PICK g : IsFold(g, "subprogram", lb, base, seq, n)
  BY FoldExists
<1>3. \A a, x : Step("subprogram", lb, a, x) = visitSubprogram(a, x, lb)
  BY DEF Step
<1>4. g = [c \in SUBSET (1 .. n) |-> IF c = {} THEN base
                                     ELSE visitSubprogram(g[c \ {Max(c)}], seq[Max(c)], lb)]
  BY <1>2, <1>3, Zenon DEF IsFold
<1>5. h = [c \in SUBSET (1 .. n) |-> IF c = {} THEN base
                                     ELSE visitSubprogram(h[c \ {Max(c)}], seq[Max(c)], lb)]
  BY <1>1, <1>4, Zenon
<1>6. IsFold(h, "subprogram", lb, base, seq, n)
  BY <1>3, <1>5, Zenon DEF IsFold
<1>7. VisitedSubprograms(base, seq, lb) = h[1 .. n]
  BY <1>1, Zenon DEF VisitedSubprograms, FoldLeft, MapThenFoldSet
<1>8. QED BY <1>6, <1>7, FoldIsFolded, Zenon

VisitedGenerates(base, seq, lb) ==
  FoldLeft(LAMBDA a, x : visitGenerate(a, x, lb), base, seq)

\* generates,
LEMMA VisitedGeneratesSteps ==
  ASSUME NEW base, NEW seq, NEW n \in Nat, DOMAIN seq = 1 .. n, NEW lb
  PROVE  Folds("generate", lb, base, seq, n, VisitedGenerates(base, seq, lb))
<1>1. PICK h : h = CHOOSE g : g = [c \in SUBSET (1 .. n) |-> IF c = {} THEN base
                                     ELSE visitGenerate(g[c \ {Max(c)}], seq[Max(c)], lb)]
  OBVIOUS
<1>2. PICK g : IsFold(g, "generate", lb, base, seq, n)
  BY FoldExists
<1>3. \A a, x : Step("generate", lb, a, x) = visitGenerate(a, x, lb)
  BY DEF Step
<1>4. g = [c \in SUBSET (1 .. n) |-> IF c = {} THEN base
                                     ELSE visitGenerate(g[c \ {Max(c)}], seq[Max(c)], lb)]
  BY <1>2, <1>3, Zenon DEF IsFold
<1>5. h = [c \in SUBSET (1 .. n) |-> IF c = {} THEN base
                                     ELSE visitGenerate(h[c \ {Max(c)}], seq[Max(c)], lb)]
  BY <1>1, <1>4, Zenon
<1>6. IsFold(h, "generate", lb, base, seq, n)
  BY <1>3, <1>5, Zenon DEF IsFold
<1>7. VisitedGenerates(base, seq, lb) = h[1 .. n]
  BY <1>1, Zenon DEF VisitedGenerates, FoldLeft, MapThenFoldSet
<1>8. QED BY <1>6, <1>7, FoldIsFolded, Zenon

BoundFormals(base, seq, view) ==
  FoldLeft(LAMBDA a, x : _fixImplicitDeclaredNets(a, Top, x.actual, FormalType(view, x)), base, seq)

\* the ports bound by an instance,
LEMMA BoundFormalsSteps ==
  ASSUME NEW base, NEW seq, NEW n \in Nat, DOMAIN seq = 1 .. n, NEW view
  PROVE  Folds("formal", view, base, seq, n, BoundFormals(base, seq, view))
<1>1. PICK h : h = CHOOSE g : g = [c \in SUBSET (1 .. n) |-> IF c = {} THEN base
                                     ELSE _fixImplicitDeclaredNets(g[c \ {Max(c)}], Top, seq[Max(c)].actual, FormalType(view, seq[Max(c)]))]
  OBVIOUS
<1>2. PICK g : IsFold(g, "formal", view, base, seq, n)
  BY FoldExists
<1>3. \A a, x : Step("formal", view, a, x) = _fixImplicitDeclaredNets(a, Top, x.actual, FormalType(view, x))
  BY DEF Step
<1>4. g = [c \in SUBSET (1 .. n) |-> IF c = {} THEN base
                                     ELSE _fixImplicitDeclaredNets(g[c \ {Max(c)}], Top, seq[Max(c)].actual, FormalType(view, seq[Max(c)]))]
  BY <1>2, <1>3, Zenon DEF IsFold
<1>5. h = [c \in SUBSET (1 .. n) |-> IF c = {} THEN base
                                     ELSE _fixImplicitDeclaredNets(h[c \ {Max(c)}], Top, seq[Max(c)].actual, FormalType(view, seq[Max(c)]))]
  BY <1>1, <1>4, Zenon
<1>6. IsFold(h, "formal", view, base, seq, n)
  BY <1>3, <1>5, Zenon DEF IsFold
<1>7. BoundFormals(base, seq, view) = h[1 .. n]
  BY <1>1, Zenon DEF BoundFormals, FoldLeft, MapThenFoldSet
<1>8. QED BY <1>6, <1>7, FoldIsFolded, Zenon

BoundInstances(base, seq, vs) ==
  FoldLeft(LAMBDA a, x : visitPortAssigns(a, x, vs), base, seq)

\* and the instances of a unit.
LEMMA BoundInstancesSteps ==
  ASSUME NEW base, NEW seq, NEW n \in Nat, DOMAIN seq = 1 .. n, NEW vs
  PROVE  Folds("instance", vs, base, seq, n, BoundInstances(base, seq, vs))
<1>1. PICK h : h = CHOOSE g : g = [c \in SUBSET (1 .. n) |-> IF c = {} THEN base
                                     ELSE visitPortAssigns(g[c \ {Max(c)}], seq[Max(c)], vs)]
  OBVIOUS
<1>2. PICK g : IsFold(g, "instance", vs, base, seq, n)
  BY FoldExists
<1>3. \A a, x : Step("instance", vs, a, x) = visitPortAssigns(a, x, vs)
  BY DEF Step
<1>4. g = [c \in SUBSET (1 .. n) |-> IF c = {} THEN base
                                     ELSE visitPortAssigns(g[c \ {Max(c)}], seq[Max(c)], vs)]
  BY <1>2, <1>3, Zenon DEF IsFold
<1>5. h = [c \in SUBSET (1 .. n) |-> IF c = {} THEN base
                                     ELSE visitPortAssigns(h[c \ {Max(c)}], seq[Max(c)], vs)]
  BY <1>1, <1>4, Zenon
<1>6. IsFold(h, "instance", vs, base, seq, n)
  BY <1>3, <1>5, Zenon DEF IsFold
<1>7. BoundInstances(base, seq, vs) = h[1 .. n]
  BY <1>1, Zenon DEF BoundInstances, FoldLeft, MapThenFoldSet
<1>8. QED BY <1>6, <1>7, FoldIsFolded, Zenon

-------------------------------------------------------------------------------
(* Units whose values have not been scaled.                                *)

PlainDecl(d) ==
  /\ d = [obj |-> d.obj, name |-> d.name, dir |-> d.dir, type |-> d.type, val |-> d.val, var |-> d.var]
  /\ IsWritten(d.val)

\* An element of one of the lists of a unit, by the kind of the list.
Plain(kind, x) ==
  CASE kind = "decl" -> PlainDecl(x)
    [] kind = "act" -> /\ x = [lhs |-> x.lhs, rhs |-> x.rhs, delay |-> x.delay]
                       /\ IsWritten(x.rhs) /\ IsWritten(x.delay)
    [] kind = "table" -> x = [k |-> x.k, delay |-> x.delay, syms |-> x.syms] /\ IsWritten(x.delay)
    [] kind = "sub" -> /\ x = [obj |-> x.obj, name |-> x.name, static |-> x.static, result |-> x.result,
                               params |-> x.params, decls |-> x.decls]
                       /\ Row(x.decls) /\ \A i \in DOMAIN x.decls : PlainDecl(x.decls[i])
    [] kind = "inst" -> x = [unit |-> x.unit, name |-> x.name, params |-> x.params, ports |-> x.ports] /\ Row(x.ports)
    [] OTHER -> FALSE

PlainRow(kind, q) == Row(q) /\ \A i \in DOMAIN q : Plain(kind, q[i])

PlainScope(c) ==
  /\ c = [cond |-> c.cond, decls |-> c.decls, acts |-> c.acts, tables |-> c.tables]
  /\ PlainRow("decl", c.decls)
  /\ PlainRow("act", c.acts)
  /\ PlainRow("table", c.tables)

PlainUnit(u) ==
  /\ u = [name |-> u.name, scale |-> u.scale, tps |-> u.tps, ports |-> u.ports, insts |-> u.insts,
          subs |-> u.subs, calls |-> u.calls, scopes |-> u.scopes, ams |-> u.ams]
  /\ PlainRow("decl", u.tps)
  /\ PlainRow("decl", u.ports)
  /\ PlainRow("inst", u.insts)
  /\ PlainRow("sub", u.subs)
  /\ u.scopes = [s \in DOMAIN u.scopes |-> u.scopes[s]]
  /\ IsFiniteSet(DOMAIN u.scopes) /\ Top \in DOMAIN u.scopes
  /\ \A s \in DOMAIN u.scopes : PlainScope(u.scopes[s])

\* w is a unit without scaled values that has the time scale and the scopes of b.
Keeps(b, w) ==
  /\ PlainUnit(w)
  /\ w.scale = b.scale /\ w.ams = b.ams
  /\ DOMAIN w.scopes = DOMAIN b.scopes
  /\ DOMAIN b.subs \subseteq DOMAIN w.subs

\* The empty list is a row.
LEMMA RowOfNone == Row(<<>>)
<1>1. <<>> = [i \in 1 .. 0 |-> <<>>[i]]
  OBVIOUS
<1>2. QED BY <1>1 DEF Row

\* The empty list has no scaled value.
LEMMA PlainRowOfNone == ASSUME NEW kind PROVE PlainRow(kind, <<>>)
BY RowOfNone DEF PlainRow

\* A list without scaled values takes one more element,
LEMMA PlainAppend ==
  ASSUME NEW kind, NEW q, PlainRow(kind, q), NEW e, Plain(kind, e)
  PROVE  PlainRow(kind, Append(q, e)) /\ DOMAIN q \subseteq DOMAIN Append(q, e)
<1>1. PICK n \in Nat : q = [i \in 1 .. n |-> q[i]]
  BY DEF PlainRow, Row
<1>2. PICK r : r = Append(q, e)
  OBVIOUS
<1>3. r = [i \in 1 .. n + 1 |-> IF i = n + 1 THEN e ELSE q[i]]
  BY <1>1, <1>2, RowAppend
<1>4. r = [i \in 1 .. n + 1 |-> r[i]] /\ n + 1 \in Nat
  BY <1>3
<1>5. ASSUME NEW i \in DOMAIN r PROVE Plain(kind, r[i])
  <2>1. i = n + 1 \/ i \in DOMAIN q
    BY <1>1, <1>3
  <2>2. r[i] = IF i = n + 1 THEN e ELSE q[i]
    BY <1>3
  <2>3. QED BY <2>1, <2>2 DEF PlainRow
<1>6. DOMAIN q \subseteq DOMAIN r
  BY <1>1, <1>3
<1>7. QED BY <1>2, <1>4, <1>5, <1>6 DEF PlainRow, Row

\* another list,
LEMMA PlainConcat ==
  ASSUME NEW kind, NEW q, PlainRow(kind, q), NEW r, PlainRow(kind, r)
  PROVE  PlainRow(kind, q \o r)
<1>1. PICK n \in Nat : q = [i \in 1 .. n |-> q[i]]
  BY DEF PlainRow, Row
<1>2. PICK m \in Nat : r = [i \in 1 .. m |-> r[i]]
  BY DEF PlainRow, Row
<1>3. PICK t : t = q \o r
  OBVIOUS
<1>4. t = [i \in 1 .. n + m |-> IF i <= n THEN q[i] ELSE r[i - n]]
  BY <1>1, <1>2, <1>3, RowConcat
<1>5. t = [i \in 1 .. n + m |-> t[i]] /\ n + m \in Nat
  BY <1>4
<1>6. ASSUME NEW i \in DOMAIN t PROVE Plain(kind, t[i])
  <2>1. i \in 1 .. n + m /\ t[i] = IF i <= n THEN q[i] ELSE r[i - n]
    BY <1>4
  <2>2. CASE i <= n
    <3>1. i \in DOMAIN q
      BY <1>1, <2>1, <2>2
    <3>2. QED BY <2>1, <2>2, <3>1 DEF PlainRow
  <2>3. CASE ~(i <= n)
    <3>1. i - n \in DOMAIN r
      BY <1>2, <2>1, <2>3
    <3>2. QED BY <2>1, <2>3, <3>1 DEF PlainRow
  <2>4. QED BY <2>2, <2>3
<1>7. QED BY <1>3, <1>5, <1>6 DEF PlainRow, Row

\* a replacement of every element,
LEMMA PlainMap ==
  ASSUME NEW kind, NEW q, Row(q), NEW r, r = [i \in DOMAIN q |-> r[i]],
         \A i \in DOMAIN q : Plain(kind, r[i])
  PROVE  PlainRow(kind, r) /\ DOMAIN r = DOMAIN q
<1>1. PICK n \in Nat : q = [i \in 1 .. n |-> q[i]]
  BY DEF Row
<1>2. DOMAIN q = 1 .. n
  BY <1>1
<1>3. r = [i \in 1 .. n |-> r[i]] /\ DOMAIN r = 1 .. n
  BY <1>2
<1>4. QED BY <1>2, <1>3 DEF PlainRow, Row

\* or of one.
LEMMA PlainUpdate ==
  ASSUME NEW kind, NEW q, PlainRow(kind, q), NEW n, NEW e, Plain(kind, e)
  PROVE  PlainRow(kind, [q EXCEPT ![n] = e]) /\ DOMAIN [q EXCEPT ![n] = e] = DOMAIN q
<1>1. PICK r : r = [q EXCEPT ![n] = e]
  OBVIOUS
<1>2. r = [i \in DOMAIN q |-> r[i]]
  BY <1>1
<1>3. \A i \in DOMAIN q : Plain(kind, r[i])
  BY <1>1 DEF PlainRow
<1>4. Row(q)
  BY DEF PlainRow
<1>5. PlainRow(kind, r) /\ DOMAIN r = DOMAIN q
  BY <1>2, <1>3, <1>4, PlainMap
<1>6. QED BY <1>1, <1>5

-------------------------------------------------------------------------------
(* What a fold keeps.                                                      *)

\* A fold whose steps leave the values of a unit unscaled does so as a whole;
LEMMA FoldKeeps ==
  ASSUME NEW kind, NEW p, NEW base, NEW seq, NEW n \in Nat, NEW res, Folds(kind, p, base, seq, n, res),
         NEW b, Keeps(b, base),
         \A a : \A k \in 1 .. n : Keeps(b, a) => Keeps(b, Step(kind, p, a, seq[k]))
  PROVE  Keeps(b, res)
<1>1. PICK r : /\ r[0] = base
               /\ \A k \in 1 .. n : r[k] = Step(kind, p, r[k - 1], seq[k])
               /\ r[n] = res
  BY DEF Folds
<1>2. PICK P : P = {k \in 0 .. n : Keeps(b, r[k])}
  OBVIOUS
<1>3. 0 \in P
  BY <1>1, <1>2
<1>4. ASSUME NEW k \in 1 .. n, k - 1 \in P PROVE k \in P
  BY <1>1, <1>2, <1>4
<1>5. n \in P
  BY <1>3, <1>4, Stepwise
<1>6. QED BY <1>1, <1>2, <1>5

\* the same for a fold over a list of declarations or of instances,
LEMMA FoldRow ==
  ASSUME NEW kind, NEW p, NEW base, NEW seq, NEW n \in Nat, NEW res, Folds(kind, p, base, seq, n, res),
         NEW type, PlainRow(type, base),
         \A a : \A k \in 1 .. n : PlainRow(type, a) => PlainRow(type, Step(kind, p, a, seq[k]))
  PROVE  PlainRow(type, res)
<1>1. PICK r : /\ r[0] = base
               /\ \A k \in 1 .. n : r[k] = Step(kind, p, r[k - 1], seq[k])
               /\ r[n] = res
  BY DEF Folds
<1>2. PICK P : P = {k \in 0 .. n : PlainRow(type, r[k])}
  OBVIOUS
<1>3. 0 \in P
  BY <1>1, <1>2
<1>4. ASSUME NEW k \in 1 .. n, k - 1 \in P PROVE k \in P
  BY <1>1, <1>2, <1>4
<1>5. n \in P
  BY <1>3, <1>4, Stepwise
<1>6. QED BY <1>1, <1>2, <1>5

\* Every step of a fold drops an element or, at one of some positions, keeps it.
Selects(kind, p, seq, n, kept) ==
  \A a : \A k \in 1 .. n : Step(kind, p, a, seq[k]) = a \/ (k \in kept /\ Step(kind, p, a, seq[k]) = Append(a, seq[k]))

\* res is a sequence of elements of seq at these positions.
TakenFrom(res, seq, kept) == Row(res) /\ \A i \in DOMAIN res : \E k \in kept : res[i] = seq[k]

\* and a fold that selects takes its result from its input.
LEMMA FoldSelects ==
  ASSUME NEW kind, NEW p, NEW seq, NEW n \in Nat, NEW res, Folds(kind, p, <<>>, seq, n, res),
         NEW kept, Selects(kind, p, seq, n, kept)
  PROVE  TakenFrom(res, seq, kept)
<1>1. PICK r : /\ r[0] = <<>>
               /\ \A k \in 1 .. n : r[k] = Step(kind, p, r[k - 1], seq[k])
               /\ r[n] = res
  BY DEF Folds
<1>2. PICK P : P = {k \in 0 .. n : Row(r[k]) /\ \A i \in DOMAIN r[k] : \E j \in kept : r[k][i] = seq[j]}
  OBVIOUS
<1>3. 0 \in P
  BY <1>1, <1>2, RowOfNone
<1>4. ASSUME NEW k \in 1 .. n, k - 1 \in P PROVE k \in P
  <2>1. PICK a : a = r[k - 1]
    OBVIOUS
  <2>2. Row(a) /\ \A i \in DOMAIN a : \E j \in kept : a[i] = seq[j]
    BY <1>2, <1>4, <2>1
  <2>3. PICK m \in Nat : a = [i \in 1 .. m |-> a[i]]
    BY <2>2 DEF Row
  <2>4. PICK t : t = Append(a, seq[k])
    OBVIOUS
  <2>5. t = [i \in 1 .. m + 1 |-> IF i = m + 1 THEN seq[k] ELSE a[i]]
    BY <2>3, <2>4, RowAppend
  <2>6. t = [i \in 1 .. m + 1 |-> t[i]] /\ m + 1 \in Nat
    BY <2>5
  <2>7. ASSUME k \in kept, NEW i \in DOMAIN t PROVE \E j \in kept : t[i] = seq[j]
    <3>1. (i = m + 1 \/ i \in DOMAIN a) /\ t[i] = IF i = m + 1 THEN seq[k] ELSE a[i]
      BY <2>3, <2>5
    <3>2. QED BY <2>2, <2>7, <3>1
  <2>8. Row(t)
    BY <2>6 DEF Row
  <2>9. r[k] = a \/ (k \in kept /\ r[k] = t)
    BY <1>1, <2>1, <2>4 DEF Selects
  <2>10. QED BY <1>2, <2>2, <2>7, <2>8, <2>9
<1>5. n \in P
  BY <1>3, <1>4, Stepwise
<1>6. QED BY <1>1, <1>2, <1>5 DEF TakenFrom

\* The order chosen for a finite set lists members of it.
LEMMA SetToSeqRow ==
  ASSUME NEW S, IsFiniteSet(S)
  PROVE  \E n \in Nat : DOMAIN SetToSeq(S) = 1 .. n /\ \A i \in 1 .. n : SetToSeq(S)[i] \in S
<1>1. PICK n : n = Cardinality(S)
  OBVIOUS
<1>2. n \in Nat /\ ExistsBijection(1 .. n, S)
  BY <1>1, FS_CardinalityType
<1>3. \E f \in [1 .. n -> S] : IsInjective(f)
  BY <1>2 DEF ExistsBijection, Bijection, Injection
<1>4. SetToSeq(S) = CHOOSE f \in [1 .. n -> S] : IsInjective(f)
  BY <1>1 DEF SetToSeq
<1>5. SetToSeq(S) \in [1 .. n -> S]
  BY <1>3, <1>4
<1>6. QED BY <1>2, <1>5

-------------------------------------------------------------------------------
(* Replacing one list of a unit.                                           *)

\* The contents of a scope may be replaced by contents without scaled values,
LEMMA SetScope ==
  ASSUME NEW b, NEW u, Keeps(b, u), NEW s \in DOMAIN u.scopes, NEW c, PlainScope(c)
  PROVE  Keeps(b, [u EXCEPT !.scopes[s] = c])
<1>1. PICK w : w = [u EXCEPT !.scopes[s] = c]
  OBVIOUS
<1>2. PICK sc : sc = [u.scopes EXCEPT ![s] = c]
  OBVIOUS
<1>3. w = [name |-> u.name, scale |-> u.scale, tps |-> u.tps, ports |-> u.ports, insts |-> u.insts, subs |-> u.subs, calls |-> u.calls, scopes |-> sc, ams |-> u.ams]
  BY <1>1, <1>2 DEF Keeps, PlainUnit
<1>4. sc = [t \in DOMAIN u.scopes |-> sc[t]] /\ DOMAIN sc = DOMAIN u.scopes
  BY <1>2
<1>5. \A t \in DOMAIN sc : PlainScope(sc[t])
  BY <1>2 DEF Keeps, PlainUnit
<1>6. w.scopes = sc /\ w.name = u.name /\ w.scale = u.scale /\ w.tps = u.tps /\ w.ports = u.ports
      /\ w.insts = u.insts /\ w.subs = u.subs /\ w.calls = u.calls /\ w.ams = u.ams
  BY <1>3
<1>7. PlainUnit(w)
  BY <1>3, <1>4, <1>5, <1>6 DEF Keeps, PlainUnit
<1>8. QED BY <1>1, <1>4, <1>6, <1>7 DEF Keeps

\* so may its declarations,
LEMMA SetDecls ==
  ASSUME NEW b, NEW u, Keeps(b, u), NEW s \in DOMAIN u.scopes, NEW q, PlainRow("decl", q)
  PROVE  Keeps(b, [u EXCEPT !.scopes[s].decls = q])
<1>1. PICK c : c = [u.scopes[s] EXCEPT !.decls = q]
  OBVIOUS
<1>2. PlainScope(u.scopes[s])
  BY DEF Keeps, PlainUnit
<1>3. c = [cond |-> u.scopes[s].cond, decls |-> q, acts |-> u.scopes[s].acts, tables |-> u.scopes[s].tables]
  BY <1>1, <1>2 DEF PlainScope
<1>4. PlainScope(c)
  BY <1>2, <1>3 DEF PlainScope
<1>5. Keeps(b, [u EXCEPT !.scopes[s] = c])
  BY <1>4, SetScope
<1>6. [u EXCEPT !.scopes[s].decls = q] = [u EXCEPT !.scopes[s] = c]
  BY <1>1
<1>7. QED BY <1>5, <1>6

\* its assigns,
LEMMA SetActs ==
  ASSUME NEW b, NEW u, Keeps(b, u), NEW s \in DOMAIN u.scopes, NEW q, PlainRow("act", q)
  PROVE  Keeps(b, [u EXCEPT !.scopes[s].acts = q])
<1>1. PICK c : c = [u.scopes[s] EXCEPT !.acts = q]
  OBVIOUS
<1>2. PlainScope(u.scopes[s])
  BY DEF Keeps, PlainUnit
<1>3. c = [cond |-> u.scopes[s].cond, decls |-> u.scopes[s].decls, acts |-> q, tables |-> u.scopes[s].tables]
  BY <1>1, <1>2 DEF PlainScope
<1>4. PlainScope(c)
  BY <1>2, <1>3 DEF PlainScope
<1>5. Keeps(b, [u EXCEPT !.scopes[s] = c])
  BY <1>4, SetScope
<1>6. [u EXCEPT !.scopes[s].acts = q] = [u EXCEPT !.scopes[s] = c]
  BY <1>1
<1>7. QED BY <1>5, <1>6

\* its tables,
LEMMA SetTables ==
  ASSUME NEW b, NEW u, Keeps(b, u), NEW s \in DOMAIN u.scopes, NEW q, PlainRow("table", q)
  PROVE  Keeps(b, [u EXCEPT !.scopes[s].tables = q])
<1>1. PICK c : c = [u.scopes[s] EXCEPT !.tables = q]
  OBVIOUS
<1>2. PlainScope(u.scopes[s])
  BY DEF Keeps, PlainUnit
<1>3. c = [cond |-> u.scopes[s].cond, decls |-> u.scopes[s].decls, acts |-> u.scopes[s].acts, tables |-> q]
  BY <1>1, <1>2 DEF PlainScope
<1>4. PlainScope(c)
  BY <1>2, <1>3 DEF PlainScope
<1>5. Keeps(b, [u EXCEPT !.scopes[s] = c])
  BY <1>4, SetScope
<1>6. [u EXCEPT !.scopes[s].tables = q] = [u EXCEPT !.scopes[s] = c]
  BY <1>1
<1>7. QED BY <1>5, <1>6

\* the template parameters of the unit,
LEMMA SetTps ==
  ASSUME NEW b, NEW u, Keeps(b, u), NEW q, PlainRow("decl", q)
  PROVE  Keeps(b, [u EXCEPT !.tps = q])
<1>1. PICK w : w = [u EXCEPT !.tps = q]
  OBVIOUS
<1>2. w = [name |-> u.name, scale |-> u.scale, tps |-> q, ports |-> u.ports, insts |-> u.insts, subs |-> u.subs, calls |-> u.calls, scopes |-> u.scopes, ams |-> u.ams]
  BY <1>1 DEF Keeps, PlainUnit
<1>3. w.name = u.name /\ w.scale = u.scale /\ w.tps = q /\ w.ports = u.ports /\ w.insts = u.insts /\ w.subs = u.subs /\ w.calls = u.calls /\ w.scopes = u.scopes /\ w.ams = u.ams
  BY <1>2
<1>4. PlainUnit(w)
  BY <1>2, <1>3 DEF Keeps, PlainUnit
<1>5. QED BY <1>1, <1>3, <1>4 DEF Keeps

\* its ports,
LEMMA SetPorts ==
  ASSUME NEW b, NEW u, Keeps(b, u), NEW q, PlainRow("decl", q)
  PROVE  Keeps(b, [u EXCEPT !.ports = q])
<1>1. PICK w : w = [u EXCEPT !.ports = q]
  OBVIOUS
<1>2. w = [name |-> u.name, scale |-> u.scale, tps |-> u.tps, ports |-> q, insts |-> u.insts, subs |-> u.subs, calls |-> u.calls, scopes |-> u.scopes, ams |-> u.ams]
  BY <1>1 DEF Keeps, PlainUnit
<1>3. w.name = u.name /\ w.scale = u.scale /\ w.tps = u.tps /\ w.ports = q /\ w.insts = u.insts /\ w.subs = u.subs /\ w.calls = u.calls /\ w.scopes = u.scopes /\ w.ams = u.ams
  BY <1>2
<1>4. PlainUnit(w)
  BY <1>2, <1>3 DEF Keeps, PlainUnit
<1>5. QED BY <1>1, <1>3, <1>4 DEF Keeps

\* its instances,
LEMMA SetInsts ==
  ASSUME NEW b, NEW u, Keeps(b, u), NEW q, PlainRow("inst", q)
  PROVE  Keeps(b, [u EXCEPT !.insts = q])
<1>1. PICK w : w = [u EXCEPT !.insts = q]
  OBVIOUS
<1>2. w = [name |-> u.name, scale |-> u.scale, tps |-> u.tps, ports |-> u.ports, insts |-> q, subs |-> u.subs, calls |-> u.calls, scopes |-> u.scopes, ams |-> u.ams]
  BY <1>1 DEF Keeps, PlainUnit
<1>3. w.name = u.name /\ w.scale = u.scale /\ w.tps = u.tps /\ w.ports = u.ports /\ w.insts = q /\ w.subs = u.subs /\ w.calls = u.calls /\ w.scopes = u.scopes /\ w.ams = u.ams
  BY <1>2
<1>4. PlainUnit(w)
  BY <1>2, <1>3 DEF Keeps, PlainUnit
<1>5. QED BY <1>1, <1>3, <1>4 DEF Keeps

\* its subprograms,
LEMMA SetSubs ==
  ASSUME NEW b, NEW u, Keeps(b, u), NEW q, PlainRow("sub", q), DOMAIN u.subs \subseteq DOMAIN q
  PROVE  Keeps(b, [u EXCEPT !.subs = q])
<1>1. PICK w : w = [u EXCEPT !.subs = q]
  OBVIOUS
<1>2. w = [name |-> u.name, scale |-> u.scale, tps |-> u.tps, ports |-> u.ports, insts |-> u.insts, subs |-> q, calls |-> u.calls, scopes |-> u.scopes, ams |-> u.ams]
  BY <1>1 DEF Keeps, PlainUnit
<1>3. w.name = u.name /\ w.scale = u.scale /\ w.tps = u.tps /\ w.ports = u.ports /\ w.insts = u.insts /\ w.subs = q /\ w.calls = u.calls /\ w.scopes = u.scopes /\ w.ams = u.ams
  BY <1>2
<1>4. PlainUnit(w)
  BY <1>2, <1>3 DEF Keeps, PlainUnit
<1>5. QED BY <1>1, <1>3, <1>4 DEF Keeps

\* and its calls, which hold no value.
LEMMA SetCalls ==
  ASSUME NEW b, NEW u, Keeps(b, u), NEW q
  PROVE  Keeps(b, [u EXCEPT !.calls = q])
<1>1. PICK w : w = [u EXCEPT !.calls = q]
  OBVIOUS
<1>2. w = [name |-> u.name, scale |-> u.scale, tps |-> u.tps, ports |-> u.ports, insts |-> u.insts, subs |-> u.subs, calls |-> q, scopes |-> u.scopes, ams |-> u.ams]
  BY <1>1 DEF Keeps, PlainUnit
<1>3. w.name = u.name /\ w.scale = u.scale /\ w.tps = u.tps /\ w.ports = u.ports /\ w.insts = u.insts /\ w.subs = u.subs /\ w.calls = q /\ w.scopes = u.scopes /\ w.ams = u.ams
  BY <1>2
<1>4. PlainUnit(w)
  BY <1>2, <1>3 DEF Keeps, PlainUnit
<1>5. QED BY <1>1, <1>3, <1>4 DEF Keeps

-------------------------------------------------------------------------------
(* The operations of step 1 keep what they move.                           *)

\* A list of one element.
LEMMA PlainRowOfOne ==
  ASSUME NEW kind, NEW e, Plain(kind, e)
  PROVE  PlainRow(kind, <<e>>)
<1>1. <<e>> = [i \in 1 .. 1 |-> <<e>>[i]] /\ <<e>>[1] = e
  OBVIOUS
<1>2. Row(<<e>>)
  BY <1>1 DEF Row
<1>3. \A i \in DOMAIN <<e>> : <<e>>[i] = e
  OBVIOUS
<1>4. QED BY <1>2, <1>3 DEF PlainRow

\* The values the fixes write themselves have not been scaled.
LEMMA PlainValues ==
  /\ IsWritten(NoValue) /\ IsWritten(DefaultX)
  /\ \A id : IsWritten(Literal(id))
<1>1. IsFiniteSet({})
  BY FS_EmptySet
<1>2. QED BY <1>1 DEF IsWritten, NoValue, DefaultX, Literal, Value

\* A declaration is plain when its value is,
LEMMA PlainDeclaration ==
  ASSUME NEW obj, NEW name, NEW dir, NEW type, NEW val, NEW var, IsWritten(val)
  PROVE  PlainDecl(Declaration(obj, name, dir, type, val, var))
BY DEF PlainDecl, Declaration

\* so is an assign,
LEMMA PlainAssign ==
  ASSUME NEW lhs, NEW rhs, IsWritten(rhs)
  PROVE  Plain("act", Assign(lhs, rhs))
BY PlainValues DEF Plain, Assign

\* and a list in which one value is replaced.
LEMMA PlainSetVal ==
  ASSUME NEW q, PlainRow("decl", q), NEW n, NEW v, IsWritten(v)
  PROVE  PlainRow("decl", [q EXCEPT ![n].val = v])
<1>1. CASE n \in DOMAIN q
  <2>1. PICK d : d = q[n]
    OBVIOUS
  <2>2. PlainDecl(d)
    BY <1>1, <2>1 DEF PlainRow, Plain
  <2>3. PICK e : e = [d EXCEPT !.val = v]
    OBVIOUS
  <2>4. e = [obj |-> d.obj, name |-> d.name, dir |-> d.dir, type |-> d.type, val |-> v, var |-> d.var]
    BY <2>2, <2>3 DEF PlainDecl
  <2>5. Plain("decl", e)
    BY <2>4 DEF Plain, PlainDecl
  <2>6. PlainRow("decl", [q EXCEPT ![n] = e])
    BY <2>5, PlainUpdate
  <2>7. [q EXCEPT ![n].val = v] = [q EXCEPT ![n] = e]
    BY <2>1, <2>3
  <2>8. QED BY <2>6, <2>7
<1>2. CASE n \notin DOMAIN q
  <2>1. PICK m \in Nat : q = [i \in 1 .. m |-> q[i]]
    BY DEF PlainRow, Row
  <2>2. [q EXCEPT ![n].val = v] = q
    BY <1>2, <2>1
  <2>3. QED BY <2>2
<1>3. QED BY <1>1, <1>2

\* A declaration is added to a scope.
LEMMA DeclareKeeps ==
  ASSUME NEW b, NEW u, Keeps(b, u), NEW s \in DOMAIN u.scopes, NEW d, PlainDecl(d)
  PROVE  Keeps(b, Declare(u, s, d))
<1>1. PICK q : q = u.scopes[s].decls
  OBVIOUS
<1>2. PlainRow("decl", q) /\ Plain("decl", d)
  BY <1>1 DEF Keeps, PlainUnit, PlainScope, Plain
<1>3. PlainRow("decl", Append(q, d))
  BY <1>2, PlainAppend
<1>4. Keeps(b, [u EXCEPT !.scopes[s].decls = Append(q, d)])
  BY <1>3, SetDecls
<1>5. Declare(u, s, d) = [u EXCEPT !.scopes[s].decls = Append(q, d)]
  BY <1>1 DEF Declare
<1>6. QED BY <1>4, <1>5

\* An assign is added to a scope.
LEMMA AddActKeeps ==
  ASSUME NEW b, NEW u, Keeps(b, u), NEW s \in DOMAIN u.scopes, NEW a, Plain("act", a)
  PROVE  Keeps(b, AddAct(u, s, a))
<1>1. PICK q : q = u.scopes[s].acts
  OBVIOUS
<1>2. PlainRow("act", q)
  BY <1>1 DEF Keeps, PlainUnit, PlainScope
<1>3. PlainRow("act", Append(q, a))
  BY <1>2, PlainAppend
<1>4. Keeps(b, [u EXCEPT !.scopes[s].acts = Append(q, a)])
  BY <1>3, SetActs
<1>5. AddAct(u, s, a) = [u EXCEPT !.scopes[s].acts = Append(q, a)]
  BY <1>1 DEF AddAct
<1>6. QED BY <1>4, <1>5

\* _fixImplicitDeclaredNets declares nets without a value.
LEMMA ImplyKeeps ==
  ASSUME NEW b, NEW u, Keeps(b, u), NEW s \in DOMAIN u.scopes, NEW n, NEW type
  PROVE  Keeps(b, _fixImplicitDeclaredNets(u, s, n, type))
<1>1. CASE n \in ScopeSees(u, s)
  BY <1>1 DEF _fixImplicitDeclaredNets
<1>2. CASE n \notin ScopeSees(u, s)
  <2>1. PICK d : d = Declaration("Signal", n, Nil, type, NoValue, FALSE)
    OBVIOUS
  <2>2. PICK q : q = u.scopes[s].decls
    OBVIOUS
  <2>3. Plain("decl", d)
    BY <2>1, PlainDeclaration, PlainValues DEF Plain
  <2>4. PlainRow("decl", q)
    BY <2>2 DEF Keeps, PlainUnit, PlainScope
  <2>5. PlainRow("decl", <<d>> \o q)
    BY <2>3, <2>4, PlainRowOfOne, PlainConcat
  <2>6. Keeps(b, [u EXCEPT !.scopes[s].decls = <<d>> \o q])
    BY <2>5, SetDecls
  <2>7. _fixImplicitDeclaredNets(u, s, n, type) = [u EXCEPT !.scopes[s].decls = <<d>> \o q]
    BY <1>2, <2>1, <2>2 DEF _fixImplicitDeclaredNets
  <2>8. QED BY <2>6, <2>7
<1>3. QED BY <1>1, <1>2

\* visitAssign implies the nets of one assign.
LEMMA AssignKeeps ==
  ASSUME NEW b, NEW u, Keeps(b, u), NEW s \in DOMAIN b.scopes, NEW a, Plain("act", a)
  PROVE  Keeps(b, visitAssign(u, s, a))
<1>1. visitAssign(u, s, a) =
        ImpliedNets(_fixImplicitDeclaredNets(u, s, a.lhs,
                     IF a.rhs.id = "ref" /\ a.rhs.syms \subseteq PortNames(u)
                     THEN DeclarationIn(u, s, CHOOSE n \in a.rhs.syms : TRUE).type ELSE Bit),
                    SetToSeq(a.rhs.syms), s,
                    IF {a.lhs} \cap ScopeSees(u, s) # {} THEN DeclarationIn(u, s, a.lhs).type ELSE Bit)
  BY Zenon DEF visitAssign, ImpliedNets
<1>2. PICK base, lhsType : Keeps(b, base) /\ visitAssign(u, s, a) = ImpliedNets(base, SetToSeq(a.rhs.syms), s, lhsType)
  <2>1. s \in DOMAIN u.scopes
    BY DEF Keeps
  <2>2. \A t : Keeps(b, _fixImplicitDeclaredNets(u, s, a.lhs, t))
    BY <2>1, ImplyKeeps
  <2>3. QED BY <1>1, <2>2, Zenon
<1>3. PICK seq : seq = SetToSeq(a.rhs.syms)
  OBVIOUS
<1>4. PICK n \in Nat : DOMAIN seq = 1 .. n
  BY <1>3, SetToSeqRow DEF Plain, IsWritten
<1>5. Folds("imply", <<s, lhsType>>, base, seq, n, visitAssign(u, s, a))
  BY <1>2, <1>3, <1>4, ImpliedNetsSteps
<1>6. ASSUME NEW w, NEW k \in 1 .. n, Keeps(b, w)
      PROVE  Keeps(b, Step("imply", <<s, lhsType>>, w, seq[k]))
  <2>1. s \in DOMAIN w.scopes
    BY <1>6 DEF Keeps
  <2>2. Keeps(b, _fixImplicitDeclaredNets(w, s, seq[k], lhsType))
    BY <1>6, <2>1, ImplyKeeps
  <2>3. QED BY <2>2 DEF Step
<1>7. QED BY <1>2, <1>5, <1>6, FoldKeeps

\* A value moves to the declaration it initialises.
LEMMA SetValueKeeps ==
  ASSUME NEW b, NEW u, Keeps(b, u), NEW s \in DOMAIN u.scopes, NEW n, NEW v, IsWritten(v)
  PROVE  Keeps(b, SetValue(u, s, n, v))
<1>1. ASSUME NEW t \in DOMAIN u.scopes, NEW i
      PROVE  Keeps(b, [u EXCEPT !.scopes[t].decls[i].val = v])
  <2>1. PICK q : q = u.scopes[t].decls
    OBVIOUS
  <2>2. PlainRow("decl", q)
    BY <2>1 DEF Keeps, PlainUnit, PlainScope
  <2>3. PlainRow("decl", [q EXCEPT ![i].val = v])
    BY <2>2, PlainSetVal
  <2>4. Keeps(b, [u EXCEPT !.scopes[t].decls = [q EXCEPT ![i].val = v]])
    BY <2>3, SetDecls
  <2>5. [u EXCEPT !.scopes[t].decls[i].val = v] = [u EXCEPT !.scopes[t].decls = [q EXCEPT ![i].val = v]]
    BY <2>1
  <2>6. QED BY <2>4, <2>5
<1>2. ASSUME NEW i PROVE Keeps(b, [u EXCEPT !.ports[i].val = v])
  <2>1. PICK q : q = u.ports
    OBVIOUS
  <2>2. PlainRow("decl", q)
    BY <2>1 DEF Keeps, PlainUnit
  <2>3. PlainRow("decl", [q EXCEPT ![i].val = v])
    BY <2>2, PlainSetVal
  <2>4. Keeps(b, [u EXCEPT !.ports = [q EXCEPT ![i].val = v]])
    BY <2>3, SetPorts
  <2>5. [u EXCEPT !.ports[i].val = v] = [u EXCEPT !.ports = [q EXCEPT ![i].val = v]]
    BY <2>1
  <2>6. QED BY <2>4, <2>5
<1>3. Top \in DOMAIN u.scopes
  BY DEF Keeps, PlainUnit
<1>4. QED BY <1>1, <1>2, <1>3, Zenon DEF SetValue

\* A constant assign becomes the value of its target or stays.
LEMMA FoldActKeeps ==
  ASSUME NEW b, NEW u, Keeps(b, u), NEW s \in DOMAIN b.scopes, NEW a, Plain("act", a)
  PROVE  Keeps(b, Fold(u, s, a))
<1>1. s \in DOMAIN u.scopes
  BY DEF Keeps
<1>2. Keeps(b, AddAct(u, s, a))
  BY <1>1, AddActKeeps
<1>3. IsWritten(a.rhs)
  BY DEF Plain
<1>4. Keeps(b, SetValue(u, s, a.lhs, a.rhs))
  BY <1>1, <1>3, SetValueKeeps
<1>5. QED BY <1>2, <1>4, Zenon DEF Fold

\* The indices of a plain list and its elements.
LEMMA PlainRowDomain ==
  ASSUME NEW kind, NEW q, PlainRow(kind, q)
  PROVE  \E n \in Nat : DOMAIN q = 1 .. n /\ \A i \in 1 .. n : Plain(kind, q[i])
<1>1. PICK n \in Nat : q = [i \in 1 .. n |-> q[i]]
  BY DEF PlainRow, Row
<1>2. DOMAIN q = 1 .. n
  BY <1>1
<1>3. QED BY <1>2 DEF PlainRow

\* visitGlobalAction moves the values of constant assigns.
LEMMA GlobalActionKeeps ==
  ASSUME NEW b, NEW u, Keeps(b, u), NEW s \in DOMAIN b.scopes
  PROVE  Keeps(b, visitGlobalAction(u, s))
<1>1. PICK v : v = VisitedAssigns(u, u.scopes[s].acts, s)
  OBVIOUS
<1>2. Keeps(b, v)
  <2>1. PICK acts : acts = u.scopes[s].acts
    OBVIOUS
  <2>2. PlainRow("act", acts)
    BY <2>1 DEF Keeps, PlainUnit, PlainScope
  <2>3. PICK n \in Nat : DOMAIN acts = 1 .. n /\ \A i \in 1 .. n : Plain("act", acts[i])
    BY <2>2, PlainRowDomain
  <2>4. Folds("assign", s, u, acts, n, v)
    BY <1>1, <2>1, <2>3, VisitedAssignsSteps
  <2>5. ASSUME NEW w, NEW k \in 1 .. n, Keeps(b, w) PROVE Keeps(b, Step("assign", s, w, acts[k]))
    <3>1. Keeps(b, visitAssign(w, s, acts[k]))
      BY <2>3, <2>5, AssignKeeps
    <3>2. QED BY <3>1 DEF Step
  <2>6. QED BY <2>4, <2>5, FoldKeeps
<1>3. PICK emptied : emptied = [v EXCEPT !.scopes[s].acts = <<>>]
  OBVIOUS
<1>4. Keeps(b, emptied)
  <2>1. s \in DOMAIN v.scopes
    BY <1>2 DEF Keeps
  <2>2. QED BY <1>2, <1>3, <2>1, PlainRowOfNone, SetActs
<1>5. PICK res : res = Folded(emptied, v.scopes[s].acts, s)
  OBVIOUS
<1>6. Keeps(b, res)
  <2>1. PICK acts : acts = v.scopes[s].acts
    OBVIOUS
  <2>2. PlainRow("act", acts)
    BY <1>2, <2>1 DEF Keeps, PlainUnit, PlainScope
  <2>3. PICK n \in Nat : DOMAIN acts = 1 .. n /\ \A i \in 1 .. n : Plain("act", acts[i])
    BY <2>2, PlainRowDomain
  <2>4. Folds("fold", s, emptied, acts, n, res)
    BY <1>5, <2>1, <2>3, FoldedSteps
  <2>5. ASSUME NEW w, NEW k \in 1 .. n, Keeps(b, w) PROVE Keeps(b, Step("fold", s, w, acts[k]))
    <3>1. Keeps(b, Fold(w, s, acts[k]))
      BY <2>3, <2>5, FoldActKeeps
    <3>2. QED BY <3>1 DEF Step
  <2>6. QED BY <1>4, <2>4, <2>5, FoldKeeps
<1>7. visitGlobalAction(u, s) = res
  BY <1>1, <1>3, <1>5, Zenon DEF visitGlobalAction, VisitedAssigns, Folded
<1>8. QED BY <1>6, <1>7

\* The plain elements of a list of declarations.
LEMMA PlainIsDecl ==
  ASSUME NEW x
  PROVE  Plain("decl", x) <=> PlainDecl(x)
BY DEF Plain, PlainDecl

\* The fixes of the type of a declaration leave its value.
LEMMA TypeFixesKeep ==
  ASSUME NEW d, PlainDecl(d), NEW lb
  PROVE  PlainDecl(_fixMissingDeclarationType(d)) /\ PlainDecl(_fixAMSDisciplines(d, lb))
<1>1. ASSUME NEW t, NEW x
      PROVE  PlainDecl([d EXCEPT !.type = t]) /\ PlainDecl([d EXCEPT !.type = t, !.var = x])
  <2>1. [d EXCEPT !.type = t] =
          Declaration(d.obj, d.name, d.dir, t, d.val, d.var)
    BY DEF PlainDecl, Declaration
  <2>2. [d EXCEPT !.type = t, !.var = x] =
          Declaration(d.obj, d.name, d.dir, t, d.val, x)
    <3>1. PICK e : e = [d EXCEPT !.type = t]
      OBVIOUS
    <3>2. e = [obj |-> d.obj, name |-> d.name, dir |-> d.dir, type |-> t, val |-> d.val, var |-> d.var]
      BY <2>1, <3>1 DEF Declaration
    <3>3. [e EXCEPT !.var = x] = [obj |-> d.obj, name |-> d.name, dir |-> d.dir, type |-> t, val |-> d.val, var |-> x]
      BY <3>2
    <3>4. [d EXCEPT !.type = t, !.var = x] = [e EXCEPT !.var = x]
      BY <3>1
    <3>5. QED BY <3>3, <3>4 DEF Declaration
  <2>3. IsWritten(d.val)
    BY DEF PlainDecl
  <2>4. QED BY <2>1, <2>2, <2>3, PlainDeclaration
<1>2. PlainDecl([d EXCEPT !.type.of = "ams_logic"]) /\ PlainDecl([d EXCEPT !.type.base = "discipline"])
  <2>1. /\ [d EXCEPT !.type.of = "ams_logic"] = [d EXCEPT !.type = [d.type EXCEPT !.of = "ams_logic"]]
        /\ [d EXCEPT !.type.base = "discipline"] = [d EXCEPT !.type = [d.type EXCEPT !.base = "discipline"]]
    OBVIOUS
  <2>2. QED BY <1>1, <2>1
<1>3. PlainDecl(_fixMissingDeclarationType(d))
  BY <1>1 DEF _fixMissingDeclarationType
<1>4. PICK t : t = getSemanticType(d.type.span, d.type.signed)
  OBVIOUS
<1>5. _fixAMSDisciplines(d, lb) \in {d, [d EXCEPT !.type = t, !.var = TRUE], [d EXCEPT !.type = t],
                                     [d EXCEPT !.type.of = "ams_logic"], [d EXCEPT !.type.base = "discipline"]}
  BY <1>4 DEF _fixAMSDisciplines
<1>6. PlainDecl(_fixAMSDisciplines(d, lb))
  <2>1. PlainDecl([d EXCEPT !.type = t, !.var = TRUE]) /\ PlainDecl([d EXCEPT !.type = t])
    BY <1>1
  <2>2. QED BY <1>2, <1>5, <2>1
<1>7. QED BY <1>3, <1>6

\* Two fields of a declaration replaced at once.
LEMMA VarAndValue ==
  ASSUME NEW e, PlainDecl(e), NEW x, NEW v
  PROVE  [e EXCEPT !.var = x, !.val = v] = Declaration(e.obj, e.name, e.dir, e.type, v, x)
<1>1. PICK f : f = [e EXCEPT !.var = x]
  OBVIOUS
<1>2. f = [obj |-> e.obj, name |-> e.name, dir |-> e.dir, type |-> e.type, val |-> e.val, var |-> x]
  BY <1>1 DEF PlainDecl
<1>3. [f EXCEPT !.val = v] = [obj |-> e.obj, name |-> e.name, dir |-> e.dir, type |-> e.type, val |-> v, var |-> x]
  BY <1>2
<1>4. [e EXCEPT !.var = x, !.val = v] = [f EXCEPT !.val = v]
  BY <1>1
<1>5. QED BY <1>3, <1>4 DEF Declaration

\* visitDeclaration gives a declaration no scaled value.
LEMMA DeclarationKeeps ==
  ASSUME NEW u, NEW s, NEW d, PlainDecl(d), NEW lb
  PROVE  PlainDecl(visitDeclaration(u, s, d, lb))
<1>1. PICK e : e = _fixAMSDisciplines(_fixMissingDeclarationType(d), lb)
  OBVIOUS
<1>2. PlainDecl(e)
  BY <1>1, TypeFixesKeep
<1>3. visitDeclaration(u, s, d, lb) \in
        {e, [e EXCEPT !.var = FALSE, !.val = IF @ = NoValue THEN DefaultX ELSE @], [e EXCEPT !.val = NoValue]}
  BY <1>1 DEF visitDeclaration
<1>4. ASSUME NEW v, IsWritten(v)
      PROVE  PlainDecl([e EXCEPT !.val = v]) /\ PlainDecl([e EXCEPT !.var = FALSE, !.val = v])
  <2>1. [e EXCEPT !.val = v] =
          Declaration(e.obj, e.name, e.dir, e.type, v, e.var)
    BY <1>2 DEF PlainDecl, Declaration
  <2>2. [e EXCEPT !.var = FALSE, !.val = v] =
          Declaration(e.obj, e.name, e.dir, e.type, v, FALSE)
    BY <1>2, VarAndValue
  <2>3. IsWritten(v)
    BY <1>4
  <2>4. \A x : PlainDecl(Declaration(e.obj, e.name, e.dir, e.type, v, x))
    BY <2>3, PlainDeclaration
  <2>5. PlainDecl([e EXCEPT !.val = v])
    BY <2>1, <2>4
  <2>6. PlainDecl([e EXCEPT !.var = FALSE, !.val = v])
    BY <2>2, <2>4, Zenon
  <2>7. QED BY <2>5, <2>6
<1>5. PlainDecl([e EXCEPT !.val = NoValue])
  BY <1>4, PlainValues
<1>6. PlainDecl([e EXCEPT !.var = FALSE, !.val = IF @ = NoValue THEN DefaultX ELSE @])
  <2>1. PICK v : v = IF e.val = NoValue THEN DefaultX ELSE e.val
    OBVIOUS
  <2>2. IsWritten(v)
    BY <1>2, <2>1, PlainValues DEF PlainDecl
  <2>3. [e EXCEPT !.var = FALSE, !.val = IF @ = NoValue THEN DefaultX ELSE @] = [e EXCEPT !.var = FALSE, !.val = v]
    BY <1>2, <2>1 DEF PlainDecl
  <2>4. QED BY <1>4, <2>2, <2>3
<1>7. QED BY <1>2, <1>3, <1>5, <1>6

\* The declarations of a scope,
LEMMA DeclarationsKeep ==
  ASSUME NEW b, NEW u, Keeps(b, u), NEW s \in DOMAIN b.scopes, NEW lb
  PROVE  Keeps(b, visitDeclarations(u, s, lb))
<1>1. PICK q : q = u.scopes[s].decls
  OBVIOUS
<1>2. s \in DOMAIN u.scopes /\ Top \in DOMAIN u.scopes /\ PlainRow("decl", q)
  BY <1>1 DEF Keeps, PlainUnit, PlainScope
<1>3. PICK r : r = [n \in DOMAIN q |-> visitDeclaration(u, s, q[n], lb)]
  OBVIOUS
<1>4. PlainRow("decl", r)
  <2>1. r = [i \in DOMAIN q |-> r[i]]
    BY <1>3
  <2>2. \A i \in DOMAIN q : Plain("decl", r[i])
    BY <1>2, <1>3, DeclarationKeeps DEF PlainRow, Plain
  <2>3. Row(q)
    BY <1>2 DEF PlainRow
  <2>4. QED BY <2>1, <2>2, <2>3, PlainMap
<1>5. PICK drivers : drivers = SelectedDrivers(<<>>, q, u, s, lb)
  OBVIOUS
<1>6. Row(drivers) /\ \A i \in DOMAIN drivers : PlainDecl(drivers[i])
  <2>1. PICK n \in Nat : DOMAIN q = 1 .. n /\ \A i \in 1 .. n : Plain("decl", q[i])
    BY <1>2, PlainRowDomain
  <2>2. Folds("drivers", <<u, s, lb>>, <<>>, q, n, drivers)
    BY <1>5, <2>1, SelectedDriversSteps
  <2>3. Selects("drivers", <<u, s, lb>>, q, n, 1 .. n)
    BY DEF Selects, Step
  <2>4. TakenFrom(drivers, q, 1 .. n)
    BY <2>2, <2>3, FoldSelects
  <2>5. ASSUME NEW k \in 1 .. n PROVE PlainDecl(q[k])
    <3>1. Plain("decl", q[k])
      BY <2>1
    <3>2. QED BY <3>1, PlainIsDecl
  <2>6. QED BY <2>4, <2>5 DEF TakenFrom
<1>7. PICK new : new = [n \in DOMAIN drivers |-> Assign(drivers[n].name, drivers[n].val)]
  OBVIOUS
<1>8. PlainRow("act", new)
  <2>1. new = [i \in DOMAIN drivers |-> new[i]]
    BY <1>7
  <2>2. \A i \in DOMAIN drivers : Plain("act", new[i])
    BY <1>6, <1>7, PlainAssign DEF PlainDecl
  <2>3. QED BY <1>6, <2>1, <2>2, PlainMap
<1>9. PICK v : v = [u EXCEPT !.scopes[s].decls = r]
  OBVIOUS
<1>10. Keeps(b, v)
  BY <1>2, <1>4, <1>9, SetDecls
<1>11. PICK acts : acts = v.scopes[Top].acts
  OBVIOUS
<1>12. Top \in DOMAIN v.scopes /\ PlainRow("act", acts)
  BY <1>10, <1>11 DEF Keeps, PlainUnit, PlainScope
<1>13. PlainRow("act", acts \o new)
  BY <1>8, <1>12, PlainConcat
<1>14. Keeps(b, [v EXCEPT !.scopes[Top].acts = acts \o new])
  BY <1>10, <1>12, <1>13, SetActs
<1>15. visitDeclarations(u, s, lb) = [u EXCEPT !.scopes[s].decls = r, !.scopes[Top].acts = @ \o new]
  <2>1. visitDeclarations(u, s, lb) =
          [u EXCEPT !.scopes[s].decls = [n \in DOMAIN u.scopes[s].decls |-> visitDeclaration(u, s, u.scopes[s].decls[n], lb)],
                    !.scopes[Top].acts = @ \o [n \in DOMAIN SelectedDrivers(<<>>, u.scopes[s].decls, u, s, lb) |->
                       Assign(SelectedDrivers(<<>>, u.scopes[s].decls, u, s, lb)[n].name,
                              SelectedDrivers(<<>>, u.scopes[s].decls, u, s, lb)[n].val)]]
    BY Zenon DEF visitDeclarations, SelectedDrivers, Selected
  <2>2. QED BY <1>1, <1>3, <1>5, <1>7, <2>1
<1>16. [u EXCEPT !.scopes[s].decls = r, !.scopes[Top].acts = @ \o new] = [v EXCEPT !.scopes[Top].acts = acts \o new]
  BY <1>9, <1>11
<1>17. QED BY <1>14, <1>15, <1>16

\* of a generate,
LEMMA GenerateKeeps ==
  ASSUME NEW b, NEW u, Keeps(b, u), NEW s \in DOMAIN b.scopes, NEW lb
  PROVE  Keeps(b, visitGenerate(u, s, lb))
<1>1. Keeps(b, visitGlobalAction(u, s))
  BY GlobalActionKeeps
<1>2. Keeps(b, visitDeclarations(visitGlobalAction(u, s), s, lb))
  BY <1>1, DeclarationsKeep
<1>3. QED BY <1>2, GlobalActionKeeps DEF visitGenerate

\* Two fields of a subprogram replaced at once.
LEMMA StaticAndDecls ==
  ASSUME NEW sub, Plain("sub", sub), NEW x, NEW q
  PROVE  [[sub EXCEPT !.decls = q] EXCEPT !.static = x] =
           [obj |-> sub.obj, name |-> sub.name, static |-> x, result |-> sub.result, params |-> sub.params, decls |-> q]
<1>1. sub = [obj |-> sub.obj, name |-> sub.name, static |-> sub.static, result |-> sub.result,
             params |-> sub.params, decls |-> sub.decls]
  BY DEF Plain
<1>2. PICK f : f = [sub EXCEPT !.decls = q]
  OBVIOUS
<1>3. f = [obj |-> sub.obj, name |-> sub.name, static |-> sub.static, result |-> sub.result,
           params |-> sub.params, decls |-> q]
  BY <1>1, <1>2
<1>4. [f EXCEPT !.static = x] =
        [obj |-> sub.obj, name |-> sub.name, static |-> x, result |-> sub.result, params |-> sub.params, decls |-> q]
  BY <1>3
<1>5. QED BY <1>2, <1>4

\* and of a subprogram.
LEMMA SubprogramKeeps ==
  ASSUME NEW b, NEW u, Keeps(b, u), NEW n \in DOMAIN u.subs, NEW lb
  PROVE  Keeps(b, visitSubprogram(u, n, lb))
<1>1. PICK sub : sub = u.subs[n]
  OBVIOUS
<1>2. Plain("sub", sub) /\ PlainRow("sub", u.subs)
  BY <1>1 DEF Keeps, PlainUnit, PlainRow
<1>3. PICK decls : decls = [m \in DOMAIN sub.decls |-> visitDeclaration(u, Top, sub.decls[m], lb)]
  OBVIOUS
<1>4. PlainRow("decl", decls)
  <2>1. decls = [i \in DOMAIN sub.decls |-> decls[i]]
    BY <1>3
  <2>2. \A i \in DOMAIN sub.decls : Plain("decl", decls[i])
    BY <1>2, <1>3, DeclarationKeeps DEF Plain
  <2>3. Row(sub.decls)
    BY <1>2 DEF Plain
  <2>4. QED BY <2>1, <2>2, <2>3, PlainMap
<1>5. ASSUME NEW w, Keeps(b, w), w.subs = u.subs, NEW e, Plain("sub", e)
      PROVE  Keeps(b, [w EXCEPT !.subs[n] = e])
  <2>1. PICK q : q = [u.subs EXCEPT ![n] = e]
    OBVIOUS
  <2>2. PlainRow("sub", q) /\ DOMAIN q = DOMAIN u.subs
    BY <1>2, <1>5, <2>1, PlainUpdate
  <2>3. Keeps(b, [w EXCEPT !.subs = q])
    BY <1>5, <2>2, SetSubs
  <2>4. [w EXCEPT !.subs[n] = e] = [w EXCEPT !.subs = q]
    BY <1>5, <2>1
  <2>5. QED BY <2>3, <2>4
<1>6. CASE ~sub.static
  <2>1. PICK e : e = [sub EXCEPT !.decls = decls]
    OBVIOUS
  <2>2. Plain("sub", e)
    BY <1>2, <1>4, <2>1 DEF Plain, PlainRow
  <2>3. Keeps(b, [u EXCEPT !.subs[n] = e])
    BY <1>5, <2>2
  <2>4. visitSubprogram(u, n, lb) = [u EXCEPT !.subs[n].decls = decls]
    BY <1>1, <1>3, <1>6 DEF visitSubprogram
  <2>5. [u EXCEPT !.subs[n].decls = decls] = [u EXCEPT !.subs[n] = e]
    BY <1>1, <2>1
  <2>6. QED BY <2>3, <2>4, <2>5
<1>7. CASE sub.static
  <2>1. PICK e : e = [obj |-> sub.obj, name |-> sub.name, static |-> FALSE, result |-> sub.result,
                      params |-> sub.params, decls |-> <<>>]
    OBVIOUS
  <2>2. Plain("sub", e)
    <3>1. e.decls = <<>> /\ e = [obj |-> e.obj, name |-> e.name, static |-> e.static, result |-> e.result,
                                 params |-> e.params, decls |-> e.decls]
      BY <2>1
    <3>2. \A i \in DOMAIN <<>> : PlainDecl(<<>>[i])
      OBVIOUS
    <3>3. QED BY <3>1, <3>2, RowOfNone DEF Plain
  <2>3. PICK q : q = u.scopes[Top].decls
    OBVIOUS
  <2>4. Top \in DOMAIN u.scopes /\ PlainRow("decl", q)
    BY <2>3 DEF Keeps, PlainUnit, PlainScope
  <2>5. PlainRow("decl", q \o decls)
    BY <1>4, <2>4, PlainConcat
  <2>6. PICK w : w = [u EXCEPT !.scopes[Top].decls = q \o decls]
    OBVIOUS
  <2>7. Keeps(b, w)
    BY <2>4, <2>5, <2>6, SetDecls
  <2>8. w.subs = u.subs
    BY <2>6 DEF Keeps, PlainUnit
  <2>9. Keeps(b, [w EXCEPT !.subs[n] = e])
    BY <1>5, <2>2, <2>7, <2>8
  <2>10. visitSubprogram(u, n, lb) = [u EXCEPT !.scopes[Top].decls = q \o decls, !.subs[n].decls = <<>>, !.subs[n].static = FALSE]
    BY <1>1, <1>3, <1>7, <2>3 DEF visitSubprogram
  <2>11. [u EXCEPT !.scopes[Top].decls = q \o decls, !.subs[n].decls = <<>>, !.subs[n].static = FALSE]
           = [w EXCEPT !.subs[n].decls = <<>>, !.subs[n].static = FALSE]
    BY <2>6
  <2>12. [w EXCEPT !.subs[n].decls = <<>>, !.subs[n].static = FALSE] = [w EXCEPT !.subs[n] = e]
    <3>1. w.subs[n] = sub /\ n \in DOMAIN w.subs
      BY <1>1, <2>8
    <3>2. [[sub EXCEPT !.decls = <<>>] EXCEPT !.static = FALSE] = e
      BY <1>2, <2>1, StaticAndDecls
    <3>3. PICK q1, q2 : q1 = [w.subs EXCEPT ![n].decls = <<>>] /\ q2 = [q1 EXCEPT ![n].static = FALSE]
      OBVIOUS
    <3>4. q2 = [w.subs EXCEPT ![n] = e]
      BY <3>1, <3>2, <3>3
    <3>5. [w EXCEPT !.subs[n].decls = <<>>, !.subs[n].static = FALSE] = [w EXCEPT !.subs = q2]
      BY <2>7, <3>3 DEF Keeps, PlainUnit
    <3>6. QED BY <3>4, <3>5
  <2>13. QED BY <2>9, <2>10, <2>11, <2>12
<1>8. sub.static \/ ~sub.static
  OBVIOUS
<1>9. QED BY <1>6, <1>7, <1>8

\* A type is replaced in a list of declarations.
LEMMA PlainSetType ==
  ASSUME NEW q, PlainRow("decl", q), NEW n, NEW t
  PROVE  PlainRow("decl", [q EXCEPT ![n].type = t])
<1>1. CASE n \in DOMAIN q
  <2>1. PICK d : d = q[n]
    OBVIOUS
  <2>2. PlainDecl(d)
    BY <1>1, <2>1 DEF PlainRow, Plain
  <2>3. PICK e : e = [d EXCEPT !.type = t]
    OBVIOUS
  <2>4. e = [obj |-> d.obj, name |-> d.name, dir |-> d.dir, type |-> t, val |-> d.val, var |-> d.var]
    BY <2>2, <2>3 DEF PlainDecl
  <2>5. Plain("decl", e)
    BY <2>2, <2>4 DEF Plain, PlainDecl
  <2>6. PlainRow("decl", [q EXCEPT ![n] = e])
    BY <2>5, PlainUpdate
  <2>7. [q EXCEPT ![n].type = t] = [q EXCEPT ![n] = e]
    BY <2>1, <2>3
  <2>8. QED BY <2>6, <2>7
<1>2. CASE n \notin DOMAIN q
  <2>1. PICK m \in Nat : q = [i \in 1 .. m |-> q[i]]
    BY DEF PlainRow, Row
  <2>2. [q EXCEPT ![n].type = t] = q
    BY <1>2, <2>1
  <2>3. QED BY <2>2
<1>3. QED BY <1>1, <1>2

\* A second declaration of a name is joined with the first one,
LEMMA JoinDoubleKeeps ==
  ASSUME NEW q, PlainRow("decl", q), NEW d, PlainDecl(d)
  PROVE  PlainRow("decl", JoinDouble(q, d))
<1>1. PICK n : n = Position(q, d.name)
  OBVIOUS
<1>2. PlainRow("decl", Append(q, d))
  BY PlainAppend DEF Plain
<1>3. PICK r : r = [q EXCEPT ![n].type = IF @ = Bit THEN d.type ELSE @]
  OBVIOUS
<1>4. PICK t : t = IF q[n].type = Bit THEN d.type ELSE q[n].type
  OBVIOUS
<1>5. PlainRow("decl", r)
  <2>1. r = [q EXCEPT ![n].type = t]
    BY <1>3, <1>4
  <2>2. QED BY <2>1, PlainSetType
<1>6. PlainRow("decl", [r EXCEPT ![n].val = IF @ = NoValue THEN d.val ELSE @])
  <2>1. PICK v : v = IF r[n].val = NoValue THEN d.val ELSE r[n].val
    OBVIOUS
  <2>2. [r EXCEPT ![n].val = IF @ = NoValue THEN d.val ELSE @] = [r EXCEPT ![n].val = v]
    BY <2>1
  <2>3. CASE n \in DOMAIN r
    <3>1. PlainDecl(r[n])
      BY <1>5, <2>3 DEF PlainRow, Plain
    <3>2. IsWritten(v)
      BY <2>1, <3>1 DEF PlainDecl
    <3>3. QED BY <1>5, <2>2, <3>2, PlainSetVal
  <2>4. CASE n \notin DOMAIN r
    <3>1. PICK m \in Nat : r = [i \in 1 .. m |-> r[i]]
      BY <1>5 DEF PlainRow, Row
    <3>2. [r EXCEPT ![n].val = v] = r
      BY <2>4, <3>1
    <3>3. QED BY <1>5, <2>2, <3>2
  <2>5. QED BY <2>3, <2>4
<1>7. JoinDouble(q, d) \in {Append(q, d), [q EXCEPT ![n].type = IF @ = Bit THEN d.type ELSE @,
                                                   ![n].val = IF @ = NoValue THEN d.val ELSE @]}
  BY <1>1 DEF JoinDouble
<1>8. [q EXCEPT ![n].type = IF @ = Bit THEN d.type ELSE @, ![n].val = IF @ = NoValue THEN d.val ELSE @]
        = [r EXCEPT ![n].val = IF @ = NoValue THEN d.val ELSE @]
  BY <1>3
<1>9. QED BY <1>2, <1>6, <1>7, <1>8

\* in a whole list of declarations.
LEMMA JoinDoublesKeeps ==
  ASSUME NEW q, PlainRow("decl", q)
  PROVE  PlainRow("decl", JoinDoubles(q))
<1>1. PICK res : res = JoinedDoubles(<<>>, q)
  OBVIOUS
<1>2. PICK n \in Nat : DOMAIN q = 1 .. n /\ \A i \in 1 .. n : Plain("decl", q[i])
  BY PlainRowDomain
<1>3. Folds("double", 0, <<>>, q, n, res)
  BY <1>1, <1>2, JoinedDoublesSteps
<1>4. ASSUME NEW a, NEW k \in 1 .. n, PlainRow("decl", a) PROVE PlainRow("decl", Step("double", 0, a, q[k]))
  <2>1. Plain("decl", q[k])
    BY <1>2
  <2>2. PlainRow("decl", JoinDouble(a, q[k]))
    BY <1>4, <2>1, PlainIsDecl, JoinDoubleKeeps
  <2>3. QED BY <2>2 DEF Step
<1>5. PlainRow("decl", res)
  BY <1>3, <1>4, PlainRowOfNone, FoldRow
<1>6. JoinDoubles(q) = res
  BY <1>1, Zenon DEF JoinDoubles, JoinedDoubles
<1>7. QED BY <1>5, <1>6

\* Keeps is reflexive
LEMMA KeepsItself ==
  ASSUME NEW u, PlainUnit(u)
  PROVE  Keeps(u, u)
BY DEF Keeps

\* and transitive.
LEMMA KeepsTransitively ==
  ASSUME NEW b, NEW u, Keeps(b, u), NEW w, Keeps(u, w)
  PROVE  Keeps(b, w)
BY DEF Keeps

\* The subprograms of a unit are visited.
LEMMA SubprogramsKeep ==
  ASSUME NEW b, NEW u, Keeps(b, u), NEW lb
  PROVE  Keeps(b, visitSubprograms(u, lb))
<1>1. PICK seq : seq = [n \in DOMAIN u.subs |-> n]
  OBVIOUS
<1>2. PICK n \in Nat : DOMAIN u.subs = 1 .. n
  BY PlainRowDomain DEF Keeps, PlainUnit
<1>3. DOMAIN seq = 1 .. n
  BY <1>1, <1>2
<1>4. PICK res : res = VisitedSubprograms(u, seq, lb)
  OBVIOUS
<1>5. Folds("subprogram", lb, u, seq, n, res)
  BY <1>3, <1>4, VisitedSubprogramsSteps
<1>6. Keeps(u, u)
  BY KeepsItself DEF Keeps
<1>7. ASSUME NEW w, NEW k \in 1 .. n, Keeps(u, w) PROVE Keeps(u, Step("subprogram", lb, w, seq[k]))
  <2>1. seq[k] \in DOMAIN w.subs
    BY <1>1, <1>2, <1>7 DEF Keeps
  <2>2. Keeps(u, visitSubprogram(w, seq[k], lb))
    BY <1>7, <2>1, SubprogramKeeps
  <2>3. QED BY <2>2 DEF Step
<1>8. Keeps(u, res)
  BY <1>5, <1>6, <1>7, FoldKeeps
<1>9. visitSubprograms(u, lb) = res
  BY <1>1, <1>4, Zenon DEF visitSubprograms, VisitedSubprograms
<1>10. QED BY <1>8, <1>9, KeepsTransitively

\* visitContents leaves the values of a unit unscaled,
LEMMA ContentsKeep ==
  ASSUME NEW b, NEW u, Keeps(b, u), NEW lb
  PROVE  Keeps(b, visitContents(u, lb))
<1>1. Top \in DOMAIN u.scopes /\ Top \in DOMAIN b.scopes /\ DOMAIN u.scopes = DOMAIN b.scopes
  BY DEF Keeps, PlainUnit
<1>2. PICK joined : joined = [u EXCEPT !.scopes[Top].decls = JoinDoubles(@)]
  OBVIOUS
<1>3. Keeps(b, joined)
  <2>1. PICK q : q = u.scopes[Top].decls
    OBVIOUS
  <2>2. PlainRow("decl", JoinDoubles(q))
    BY <1>1, <2>1, JoinDoublesKeeps DEF Keeps, PlainUnit, PlainScope
  <2>3. Keeps(b, [u EXCEPT !.scopes[Top].decls = JoinDoubles(q)])
    BY <1>1, <2>2, SetDecls
  <2>4. QED BY <1>2, <2>1, <2>3
<1>4. PICK visited : visited = visitDeclarations(visitGlobalAction(joined, Top), Top, lb)
  OBVIOUS
<1>5. Keeps(b, visited)
  <2>1. Keeps(b, visitGlobalAction(joined, Top))
    BY <1>1, <1>3, GlobalActionKeeps
  <2>2. QED BY <1>1, <1>4, <2>1, DeclarationsKeep
<1>6. PICK others : others = SetToSeq((DOMAIN u.scopes) \ {Top})
  OBVIOUS
<1>7. PICK n \in Nat : DOMAIN others = 1 .. n /\ \A i \in 1 .. n : others[i] \in (DOMAIN u.scopes) \ {Top}
  <2>1. IsFiniteSet((DOMAIN u.scopes) \ {Top})
    BY FS_Difference DEF Keeps, PlainUnit
  <2>2. QED BY <1>6, <2>1, SetToSeqRow
<1>8. PICK generates : generates = VisitedGenerates(visited, others, lb)
  OBVIOUS
<1>9. Keeps(b, generates)
  <2>1. Folds("generate", lb, visited, others, n, generates)
    BY <1>7, <1>8, VisitedGeneratesSteps
  <2>2. ASSUME NEW w, NEW k \in 1 .. n, Keeps(b, w) PROVE Keeps(b, Step("generate", lb, w, others[k]))
    <3>1. others[k] \in DOMAIN b.scopes
      BY <1>1, <1>7
    <3>2. Keeps(b, visitGenerate(w, others[k], lb))
      BY <2>2, <3>1, GenerateKeeps
    <3>3. QED BY <3>2 DEF Step
  <2>3. QED BY <1>5, <2>1, <2>2, FoldKeeps
<1>10. PICK x : x = visitGlobalAction(visitSubprograms(generates, lb), Top)
  OBVIOUS
<1>11. Keeps(b, x)
  BY <1>1, <1>9, <1>10, SubprogramsKeep, GlobalActionKeeps
<1>12. Keeps(b, visitCalls(x))
  BY <1>11, SetCalls DEF visitCalls
<1>13. visitContents(u, lb) = visitCalls(x)
  BY <1>2, <1>4, <1>6, <1>8, <1>10, Zenon DEF visitContents, VisitedGenerates
<1>14. QED BY <1>12, <1>13
\* so do the port assigns of an instance,
LEMMA PortAssignsKeep ==
  ASSUME NEW b, NEW u, Keeps(b, u), NEW inst, Row(inst.ports), NEW views
  PROVE  Keeps(b, visitPortAssigns(u, inst, views))
<1>1. PICK seq : seq = inst.ports
  OBVIOUS
<1>2. PICK n \in Nat : DOMAIN seq = 1 .. n
  <2>1. PICK n \in Nat : seq = [i \in 1 .. n |-> seq[i]]
    BY <1>1 DEF Row
  <2>2. QED BY <2>1
<1>3. PICK view : view = views[inst.unit]
  OBVIOUS
<1>4. PICK res : res = BoundFormals(u, seq, view)
  OBVIOUS
<1>5. Folds("formal", view, u, seq, n, res)
  BY <1>2, <1>4, BoundFormalsSteps
<1>6. ASSUME NEW w, NEW k \in 1 .. n, Keeps(b, w) PROVE Keeps(b, Step("formal", view, w, seq[k]))
  <2>1. Top \in DOMAIN w.scopes
    BY <1>6 DEF Keeps, PlainUnit
  <2>2. \A t : Keeps(b, _fixImplicitDeclaredNets(w, Top, seq[k].actual, t))
    BY <1>6, <2>1, ImplyKeeps
  <2>3. QED BY <2>2 DEF Step
<1>7. Keeps(b, res)
  BY <1>5, <1>6, FoldKeeps
<1>8. visitPortAssigns(u, inst, views) = res
  <2>1. visitPortAssigns(u, inst, views) = BoundFormals(u, inst.ports, views[inst.unit])
    BY Zenon DEF visitPortAssigns, BoundFormals
  <2>2. QED BY <1>1, <1>3, <1>4, <2>1
<1>9. QED BY <1>7, <1>8

\* the binding of its parameters,
LEMMA InstanceKeeps ==
  ASSUME NEW x, Plain("inst", x), NEW view
  PROVE  Plain("inst", visitInstance(x, view))
<1>1. x = [unit |-> x.unit, name |-> x.name, params |-> x.params, ports |-> x.ports]
  BY DEF Plain
<1>2. PICK ports, params : ports = WithFormals(x.ports, view.ports) /\ params = WithFormals(x.params, view.tps)
  OBVIOUS
<1>3. visitInstance(x, view) = [x EXCEPT !.ports = ports, !.params = params]
  BY <1>1, <1>2 DEF visitInstance
<1>4. visitInstance(x, view) = [unit |-> x.unit, name |-> x.name, params |-> params, ports |-> ports]
  <2>1. PICK y : y = [x EXCEPT !.ports = ports]
    OBVIOUS
  <2>2. y = [unit |-> x.unit, name |-> x.name, params |-> x.params, ports |-> ports]
    BY <1>1, <2>1
  <2>3. [y EXCEPT !.params = params] = [unit |-> x.unit, name |-> x.name, params |-> params, ports |-> ports]
    BY <2>2
  <2>4. QED BY <1>3, <2>1, <2>3
<1>5. Row(ports)
  <2>1. PICK q : q = x.ports
    OBVIOUS
  <2>2. PICK n \in Nat : q = [i \in 1 .. n |-> q[i]]
    BY <2>1 DEF Plain, Row
  <2>3. ports = [i \in 1 .. n |-> ports[i]]
    BY <1>2, <2>1, <2>2 DEF WithFormals
  <2>4. QED BY <2>3 DEF Row
<1>6. QED BY <1>4, <1>5 DEF Plain

\* the instances of the unit,
LEMMA InstancesKeep ==
  ASSUME NEW b, NEW u, Keeps(b, u), NEW views
  PROVE  Keeps(b, visitInstances(u, views))
<1>1. PICK q : q = u.insts
  OBVIOUS
<1>2. PlainRow("inst", q)
  BY <1>1 DEF Keeps, PlainUnit
<1>3. PICK r : r = [i \in DOMAIN q |-> visitInstance(q[i], views[q[i].unit])]
  OBVIOUS
<1>4. PlainRow("inst", r)
  <2>1. r = [i \in DOMAIN q |-> r[i]]
    BY <1>3
  <2>2. \A i \in DOMAIN q : Plain("inst", r[i])
    BY <1>2, <1>3, InstanceKeeps DEF PlainRow
  <2>3. QED BY <1>2, <2>1, <2>2, PlainMap DEF PlainRow
<1>5. PICK v : v = [u EXCEPT !.insts = r]
  OBVIOUS
<1>6. Keeps(b, v)
  BY <1>4, <1>5, SetInsts
<1>7. PICK insts : insts = v.insts
  OBVIOUS
<1>8. PICK n \in Nat : DOMAIN insts = 1 .. n /\ \A i \in 1 .. n : Plain("inst", insts[i])
  BY <1>6, <1>7, PlainRowDomain DEF Keeps, PlainUnit
<1>9. PICK res : res = BoundInstances(v, insts, views)
  OBVIOUS
<1>10. Folds("instance", views, v, insts, n, res)
  BY <1>8, <1>9, BoundInstancesSteps
<1>11. ASSUME NEW w, NEW k \in 1 .. n, Keeps(b, w) PROVE Keeps(b, Step("instance", views, w, insts[k]))
  <2>1. Row(insts[k].ports)
    BY <1>8 DEF Plain
  <2>2. Keeps(b, visitPortAssigns(w, insts[k], views))
    BY <1>11, <2>1, PortAssignsKeep
  <2>3. QED BY <2>2 DEF Step
<1>12. Keeps(b, res)
  BY <1>6, <1>10, <1>11, FoldKeeps
<1>13. visitInstances(u, views) = res
  <2>1. [u EXCEPT !.insts = [i \in DOMAIN @ |-> visitInstance(@[i], views[@[i].unit])]] = v
    BY <1>1, <1>3, <1>5
  <2>2. QED BY <1>7, <1>9, <2>1, Zenon DEF visitInstances, BoundInstances
<1>14. QED BY <1>12, <1>13

\* the fixes of a port that misses its direction or its type,
LEMMA MissingPortKeeps ==
  ASSUME NEW d, PlainDecl(d), NEW formals, NEW f
  PROVE  PlainDecl(_fixMissingPort(d, formals, f))
<1>1. PICK t, x : /\ t = IF d.type = NoType THEN f.type ELSE d.type
                  /\ x = IF d.dir # Nil THEN d.dir ELSE IF formals = {} THEN "inout" ELSE f.dir
  OBVIOUS
<1>2. PICK e : e = [d EXCEPT !.type = t]
  OBVIOUS
<1>3. e = [obj |-> d.obj, name |-> d.name, dir |-> d.dir, type |-> t, val |-> d.val, var |-> d.var]
  BY <1>2 DEF PlainDecl
<1>4. [e EXCEPT !.dir = x] = [obj |-> d.obj, name |-> d.name, dir |-> x, type |-> t, val |-> d.val, var |-> d.var]
  BY <1>3
<1>5. _fixMissingPort(d, formals, f) = [e EXCEPT !.dir = x]
  BY <1>1, <1>2 DEF _fixMissingPort, PlainDecl
<1>6. QED BY <1>4, <1>5 DEF PlainDecl

\* the visit of a port,
LEMMA PortKeeps ==
  ASSUME NEW d, PlainDecl(d), NEW lb
  PROVE  PlainDecl(visitPort(d, lb))
<1>1. PICK q : q = _fixAMSDisciplines(d, lb)
  OBVIOUS
<1>2. PlainDecl(q)
  BY <1>1, TypeFixesKeep
<1>3. \A x : PlainDecl(Declaration(q.obj, q.name, q.dir, q.type, DefaultX, x))
  BY PlainValues, PlainDeclaration
<1>4. [q EXCEPT !.var = FALSE, !.val = DefaultX] = Declaration(q.obj, q.name, q.dir, q.type, DefaultX, FALSE)
  BY <1>2, VarAndValue
<1>5. visitPort(d, lb) = IF q.var THEN [q EXCEPT !.var = FALSE, !.val = DefaultX] ELSE q
  BY <1>1, Zenon DEF visitPort
<1>6. QED BY <1>2, <1>3, <1>4, <1>5, Zenon

\* of all of them,
LEMMA PortsKeep ==
  ASSUME NEW b, NEW u, Keeps(b, u), NEW lb, NEW views, NEW first
  PROVE  Keeps(b, visitPorts(u, lb, views, first))
<1>1. PICK q : q = u.ports
  OBVIOUS
<1>2. PlainRow("decl", q)
  BY <1>1 DEF Keeps, PlainUnit
<1>3. PICK r : r = [n \in DOMAIN q |->
                 visitPort(IF Incomplete(q[n]) /\ (q[n].type # NoType \/ BoundTo(u, q[n].name, views) # {})
                           THEN _fixMissingPort(q[n], BoundTo(u, q[n].name, views),
                                  IF BoundTo(u, q[n].name, views) = {} THEN q[n] ELSE first[q[n].name])
                           ELSE q[n], lb)]
  OBVIOUS
<1>4. PlainRow("decl", r)
  <2>1. r = [i \in DOMAIN q |-> r[i]] /\ DOMAIN r = DOMAIN q
    BY <1>3
  <2>2. ASSUME NEW i \in DOMAIN q PROVE Plain("decl", r[i])
    <3>1. PICK d, formals, f : d = q[i] /\ formals = BoundTo(u, d.name, views)
                               /\ f = IF formals = {} THEN d ELSE first[d.name]
      OBVIOUS
    <3>2. PlainDecl(d)
      BY <1>2, <3>1 DEF PlainRow, Plain
    <3>3. PlainDecl(_fixMissingPort(d, formals, f))
      BY <3>2, MissingPortKeeps
    <3>4. r[i] \in {visitPort(_fixMissingPort(d, formals, f), lb), visitPort(d, lb)}
      BY <1>3, <3>1
    <3>5. PlainDecl(visitPort(_fixMissingPort(d, formals, f), lb)) /\ PlainDecl(visitPort(d, lb))
      BY <3>2, <3>3, PortKeeps
    <3>6. QED BY <3>4, <3>5, PlainIsDecl
  <2>3. QED BY <1>2, <2>1, <2>2, PlainMap DEF PlainRow
<1>5. Keeps(b, [u EXCEPT !.ports = r])
  BY <1>4, SetPorts
<1>6. visitPorts(u, lb, views, first) = [u EXCEPT !.ports = r]
  BY <1>1, <1>3, Zenon DEF visitPorts
<1>7. QED BY <1>5, <1>6

\* The declarations of some names are declarations of the list.
LEMMA OfNamesKeeps ==
  ASSUME NEW q, PlainRow("decl", q), NEW names
  PROVE  PlainRow("decl", OfNames(q, names))
<1>1. PICK res : res = SelectedNames(<<>>, q, names)
  OBVIOUS
<1>2. PICK n \in Nat : DOMAIN q = 1 .. n /\ \A i \in 1 .. n : Plain("decl", q[i])
  BY PlainRowDomain
<1>3. Folds("names", names, <<>>, q, n, res)
  BY <1>1, <1>2, SelectedNamesSteps
<1>4. Selects("names", names, q, n, 1 .. n)
  BY DEF Selects, Step
<1>5. TakenFrom(res, q, 1 .. n)
  BY <1>3, <1>4, FoldSelects
<1>6. OfNames(q, names) = res
  BY <1>1, Zenon DEF OfNames, Selected, SelectedNames
<1>7. QED BY <1>2, <1>5, <1>6 DEF TakenFrom, PlainRow

\* the local parameters that move to the contents,
LEMMA LocalParamKeeps ==
  ASSUME NEW b, NEW u, Keeps(b, u)
  PROVE  Keeps(b, _fixLocalParam(u))
<1>1. PICK decls, tps, needed : decls = u.scopes[Top].decls /\ tps = u.tps /\ needed = Needed(u)
  OBVIOUS
<1>2. Top \in DOMAIN u.scopes /\ PlainRow("decl", decls) /\ PlainRow("decl", tps)
  BY <1>1 DEF Keeps, PlainUnit, PlainScope
<1>3. PICK moved : moved = OfNames(decls, needed)
  OBVIOUS
<1>4. PlainRow("decl", moved)
  BY <1>2, <1>3, OfNamesKeeps
<1>5. PICK new : new = [n \in DOMAIN moved |-> [moved[n] EXCEPT !.obj = "ValueTP"]]
  OBVIOUS
<1>6. PlainRow("decl", new)
  <2>1. new = [i \in DOMAIN moved |-> new[i]]
    BY <1>5
  <2>2. ASSUME NEW i \in DOMAIN moved PROVE Plain("decl", new[i])
    <3>1. PICK d : d = moved[i]
      OBVIOUS
    <3>2. PlainDecl(d)
      BY <1>4, <3>1 DEF PlainRow, Plain
    <3>3. [d EXCEPT !.obj = "ValueTP"] =
            [obj |-> "ValueTP", name |-> d.name, dir |-> d.dir, type |-> d.type, val |-> d.val, var |-> d.var]
      BY <3>2 DEF PlainDecl
    <3>4. new[i] = [d EXCEPT !.obj = "ValueTP"]
      BY <1>5, <3>1
    <3>5. QED BY <3>2, <3>3, <3>4 DEF PlainDecl, Plain
  <2>3. QED BY <1>4, <2>1, <2>2, PlainMap DEF PlainRow
<1>7. PlainRow("decl", new \o tps)
  BY <1>2, <1>6, PlainConcat
<1>8. PICK v : v = [u EXCEPT !.tps = new \o tps]
  OBVIOUS
<1>9. Keeps(b, v)
  BY <1>7, <1>8, SetTps
<1>10. v.scopes = u.scopes /\ Top \in DOMAIN v.scopes
  BY <1>2, <1>8 DEF Keeps, PlainUnit
<1>11. PICK rest : rest = OfNames(decls, NamesIn(decls) \ needed)
  OBVIOUS
<1>12. PlainRow("decl", rest)
  BY <1>2, <1>11, OfNamesKeeps
<1>13. Keeps(b, [v EXCEPT !.scopes[Top].decls = rest])
  BY <1>9, <1>10, <1>12, SetDecls
<1>14. _fixLocalParam(u) = [u EXCEPT !.tps = new \o @, !.scopes[Top].decls = OfNames(@, NamesIn(@) \ needed)]
  BY <1>1, <1>3, <1>5, Zenon DEF _fixLocalParam
<1>15. [u EXCEPT !.tps = new \o @, !.scopes[Top].decls = OfNames(@, NamesIn(@) \ needed)]
         = [v EXCEPT !.scopes[Top].decls = rest]
  BY <1>1, <1>8, <1>10, <1>11
<1>16. QED BY <1>13, <1>14, <1>15

\* and the template parameters.
LEMMA TemplateParametersKeep ==
  ASSUME NEW b, NEW u, Keeps(b, u)
  PROVE  Keeps(b, visitTemplateParameters(u))
<1>1. PICK v : v = _fixLocalParam(u)
  OBVIOUS
<1>2. Keeps(b, v)
  BY <1>1, LocalParamKeeps
<1>3. PICK q : q = v.tps
  OBVIOUS
<1>4. PlainRow("decl", q)
  BY <1>2, <1>3 DEF Keeps, PlainUnit
<1>5. PICK r : r = [n \in DOMAIN q |-> _fixMissingDeclarationType(q[n])]
  OBVIOUS
<1>6. PlainRow("decl", r)
  <2>1. r = [i \in DOMAIN q |-> r[i]]
    BY <1>5
  <2>2. \A i \in DOMAIN q : Plain("decl", r[i])
    BY <1>4, <1>5, TypeFixesKeep, PlainIsDecl DEF PlainRow
  <2>3. QED BY <1>4, <2>1, <2>2, PlainMap DEF PlainRow
<1>7. Keeps(b, [v EXCEPT !.tps = r])
  BY <1>2, <1>6, SetTps
<1>8. visitTemplateParameters(u) = [v EXCEPT !.tps = r]
  BY <1>1, <1>3, <1>5, Zenon DEF visitTemplateParameters
<1>9. QED BY <1>7, <1>8

\* The whole visit of step 1 leaves the values of a unit unscaled.
LEMMA ViewKeeps ==
  ASSUME NEW u, PlainUnit(u), NEW lb, NEW views, NEW first
  PROVE  Keeps(u, visitView(u, lb, views, first))
<1>1. PICK v : v = visitTemplateParameters(u)
  OBVIOUS
<1>2. Keeps(u, v)
  BY <1>1, KeepsItself, TemplateParametersKeep
<1>3. PICK w : w = IF \E p \in ToSet(v.ports) : Incomplete(p) /\ BoundTo(v, p.name, views) # {}
                   THEN visitInstances(visitContents(v, lb), views) ELSE v
  OBVIOUS
<1>4. Keeps(u, visitInstances(visitContents(v, lb), views))
  BY <1>2, ContentsKeep, InstancesKeep
<1>5. Keeps(u, w)
  BY <1>2, <1>3, <1>4
<1>6. Keeps(u, visitPorts(w, lb, views, first))
  BY <1>5, PortsKeep
<1>7. Keeps(u, visitContents(visitPorts(w, lb, views, first), lb))
  BY <1>6, ContentsKeep
<1>8. Keeps(u, visitInstances(visitContents(visitPorts(w, lb, views, first), lb), views))
  BY <1>7, InstancesKeep
<1>9. visitView(u, lb, views, first) = visitInstances(visitContents(visitPorts(w, lb, views, first), lb), views)
  BY <1>1, <1>3, Zenon DEF visitView
<1>10. QED BY <1>8, <1>9

-------------------------------------------------------------------------------
(* What the parser makes of a module.                                      *)

\* The rows of the command lines are rows.
LEMMA IsRowIsRow ==
  ASSUME NEW q, IsRow(q)
  PROVE  Row(q)
<1>1. PICK n : n = Cardinality(DOMAIN q)
  OBVIOUS
<1>2. n \in Nat
  BY <1>1, FS_CardinalityType DEF IsRow
<1>3. q = [i \in 1 .. n |-> q[i]]
  BY <1>1 DEF IsRow
<1>4. QED BY <1>2, <1>3 DEF Row

\* The indices of a row.
LEMMA RowDomain ==
  ASSUME NEW q, Row(q)
  PROVE  \E n \in Nat : DOMAIN q = 1 .. n
<1>1. PICK n \in Nat : q = [i \in 1 .. n |-> q[i]]
  BY DEF Row
<1>2. QED BY <1>1

\* What the parser builds from an item holds no scaled value: a port,
LEMMA PortDeclarationIsPlain ==
  ASSUME NEW i, IsWritten(i.val)
  PROVE  PlainDecl(PortDeclaration(i))
<1>1. PlainDecl(parse_InputDeclaration(i)) /\ PlainDecl(parse_InoutDeclaration(i)) /\ PlainDecl(parse_OutputDeclaration(i))
  BY PlainDeclaration, PlainValues DEF parse_InputDeclaration, parse_InoutDeclaration, parse_OutputDeclaration
<1>2. PlainDecl(OutputRegDeclaration(i))
  <2>1. PICK v, x : v = (IF i.val.syms = {} THEN i.val ELSE NoValue) /\ x = (v = NoValue)
    OBVIOUS
  <2>2. IsWritten(v)
    BY <2>1, PlainValues
  <2>3. OutputRegDeclaration(i) = Declaration("Port", i.name, "out", getSemanticType(i.span, i.signed), v, x)
    BY <2>1, Zenon DEF OutputRegDeclaration
  <2>4. QED BY <2>2, <2>3, PlainDeclaration
<1>3. QED BY <1>1, <1>2, Zenon DEF PortDeclaration

\* a parameter,
LEMMA ParameterIsPlain ==
  ASSUME NEW i, IsWritten(i.val)
  PROVE  PlainDecl(parse_ParameterDeclaration(i)) /\ PlainDecl(parse_LocalParameterDeclaration(i))
<1>1. PICK d : d = parse_ParameterDeclaration(i)
  OBVIOUS
<1>2. PlainDecl(d)
  <2>1. \A t, x : PlainDecl(Declaration("ValueTP", i.name, Nil, t, i.val, x))
    BY PlainDeclaration
  <2>2. QED BY <1>1, <2>1, Zenon DEF parse_ParameterDeclaration
<1>3. PICK t : t = IF d.type = NoType /\ i.val.syms = {} THEN Named("integer") ELSE d.type
  OBVIOUS
<1>4. PICK e : e = [d EXCEPT !.obj = "Const"]
  OBVIOUS
<1>5. e = [obj |-> "Const", name |-> d.name, dir |-> d.dir, type |-> d.type, val |-> d.val, var |-> d.var]
  BY <1>2, <1>4 DEF PlainDecl
<1>6. [e EXCEPT !.type = t] = [obj |-> "Const", name |-> d.name, dir |-> d.dir, type |-> t, val |-> d.val, var |-> d.var]
  BY <1>5
<1>7. parse_LocalParameterDeclaration(i) = [e EXCEPT !.type = t]
  BY <1>1, <1>2, <1>3, <1>4 DEF parse_LocalParameterDeclaration, PlainDecl
<1>8. QED BY <1>1, <1>2, <1>6, <1>7 DEF PlainDecl

\* a declaration of the contents,
LEMMA ContentsDeclarationIsPlain ==
  ASSUME NEW i, IsWritten(i.val),
         i.k \in {"reg", "integer", "time", "real", "net", "discipline", "event", "localparam"}
  PROVE  PlainDecl(ContentsDeclaration(i))
<1>1. \A t, x : PlainDecl(Declaration("Signal", i.name, Nil, t, i.val, x))
  BY PlainDeclaration
<1>2. \A t, x : PlainDecl(Declaration("Variable", i.name, Nil, t, NoValue, x))
  BY PlainDeclaration, PlainValues
<1>3. /\ PlainDecl(parse_RegDeclaration(i)) /\ PlainDecl(parse_IntegerDeclaration(i)) /\ PlainDecl(parse_TimeDeclaration(i))
      /\ PlainDecl(parse_RealDeclaration(i))
  BY <1>1, Zenon DEF parse_RegDeclaration, parse_IntegerDeclaration, parse_TimeDeclaration, parse_RealDeclaration, Variable
<1>4. PlainDecl(parse_NetDeclaration(i)) /\ PlainDecl(parse_ModuleInstance(i)) /\ PlainDecl(parse_EventDeclaration(i))
  BY <1>1, <1>2, Zenon DEF parse_NetDeclaration, parse_ModuleInstance, parse_EventDeclaration
<1>5. PlainDecl(parse_LocalParameterDeclaration(i))
  BY ParameterIsPlain
<1>6. QED BY <1>3, <1>4, <1>5 DEF ContentsDeclaration

\* a task or a function.
LEMMA SubprogramIsPlain ==
  ASSUME NEW i, Row(i.binds),
         \A n \in DOMAIN i.binds : i.binds[n].k \in {"tf", "reg", "integer"} /\ IsWritten(i.binds[n].val)
  PROVE  Plain("sub", parse_TaskDeclaration(i)) /\ Plain("sub", parse_FunctionDeclaration(i))
<1>1. PICK q : q = i.binds
  OBVIOUS
<1>2. PICK locals : locals = SelectedLocals(<<>>, q)
  OBVIOUS
<1>3. PICK n \in Nat : DOMAIN q = 1 .. n
  BY <1>1, RowDomain
<1>4. TakenFrom(locals, q, {k \in 1 .. n : IsLocal(q[k])})
  <2>1. Folds("locals", 0, <<>>, q, n, locals)
    BY <1>2, <1>3, SelectedLocalsSteps
  <2>2. PICK kept : kept = {k \in 1 .. n : IsLocal(q[k])}
    OBVIOUS
  <2>3. Selects("locals", 0, q, n, kept)
    BY <2>2 DEF Selects, Step
  <2>4. TakenFrom(locals, q, kept)
    BY <2>1, <2>3, FoldSelects
  <2>5. QED BY <2>2, <2>4
<1>5. PICK decls : decls = [m \in DOMAIN locals |-> parse_BlockItemDeclaration(locals[m])]
  OBVIOUS
<1>6. PlainRow("decl", decls)
  <2>1. decls = [m \in DOMAIN locals |-> decls[m]]
    BY <1>5
  <2>2. ASSUME NEW m \in DOMAIN locals PROVE Plain("decl", decls[m])
    <3>1. PICK x : x = locals[m]
      OBVIOUS
    <3>2. x.k \in {"reg", "integer"} /\ IsWritten(x.val)
      BY <1>1, <1>3, <1>4, <3>1 DEF TakenFrom, IsLocal
    <3>3. \A t, y : PlainDecl(Declaration("Signal", x.name, Nil, t, x.val, y))
      BY <3>2, PlainDeclaration
    <3>4. PlainDecl(Variable(x, getSemanticType(x.span, x.signed))) /\ PlainDecl(Variable(x, Named("integer")))
      BY <3>3, Zenon DEF Variable
    <3>5. decls[m] \in {Variable(x, getSemanticType(x.span, x.signed)), Variable(x, Named("integer"))}
      BY <1>5, <3>1, <3>2 DEF parse_BlockItemDeclaration
    <3>6. QED BY <3>4, <3>5, PlainIsDecl
  <2>3. QED BY <1>4, <2>1, <2>2, PlainMap DEF TakenFrom
<1>7. PICK params, static : /\ static = ~i.named
                           /\ params = [m \in DOMAIN Selected(i.binds, IsArgument) |->
                                          parse_TfDeclaration(Selected(i.binds, IsArgument)[m])]
  OBVIOUS
<1>8. Subprogram(i) = [obj |-> "Procedure", name |-> i.name, static |-> static, result |-> NoType,
                       params |-> params, decls |-> decls]
  <2>1. Subprogram(i) = [obj |-> "Procedure", name |-> i.name, static |-> ~i.named, result |-> NoType,
          params |-> [m \in DOMAIN Selected(i.binds, IsArgument) |-> parse_TfDeclaration(Selected(i.binds, IsArgument)[m])],
          decls |-> [m \in DOMAIN SelectedLocals(<<>>, i.binds) |-> parse_BlockItemDeclaration(SelectedLocals(<<>>, i.binds)[m])]]
    BY Zenon DEF Subprogram, Selected, SelectedLocals
  <2>2. QED BY <1>1, <1>2, <1>5, <1>7, <2>1
<1>9. PICK sub : sub = Subprogram(i)
  OBVIOUS
<1>10. Plain("sub", sub)
  BY <1>6, <1>8, <1>9 DEF Plain, PlainRow
<1>11. Plain("sub", parse_FunctionDeclaration(i))
  <2>1. PICK t, own, all : /\ t = getSemanticType(i.span, i.signed)
                           /\ own = Declaration("Variable", i.name, Nil, t, NoValue, FALSE)
                           /\ all = Append(decls, own)
    OBVIOUS
  <2>2. PlainRow("decl", all)
    BY <1>6, <2>1, PlainDeclaration, PlainValues, PlainIsDecl, PlainAppend
  <2>3. \A x : [[[[sub EXCEPT !.obj = "Function"] EXCEPT !.static = x] EXCEPT !.result = t] EXCEPT !.decls = all]
          = [obj |-> "Function", name |-> i.name, static |-> x, result |-> t, params |-> params, decls |-> all]
    <3>1. TAKE x
    <3>2. PICK s1 : s1 = [sub EXCEPT !.obj = "Function"]
      OBVIOUS
    <3>3. s1 = [obj |-> "Function", name |-> i.name, static |-> static, result |-> NoType, params |-> params, decls |-> decls]
      BY <1>8, <1>9, <3>2
    <3>4. PICK s2 : s2 = [s1 EXCEPT !.static = x]
      OBVIOUS
    <3>5. s2 = [obj |-> "Function", name |-> i.name, static |-> x, result |-> NoType, params |-> params, decls |-> decls]
      BY <3>3, <3>4
    <3>6. PICK s3 : s3 = [s2 EXCEPT !.result = t]
      OBVIOUS
    <3>7. s3 = [obj |-> "Function", name |-> i.name, static |-> x, result |-> t, params |-> params, decls |-> decls]
      BY <3>5, <3>6
    <3>8. [s3 EXCEPT !.decls = all] =
            [obj |-> "Function", name |-> i.name, static |-> x, result |-> t, params |-> params, decls |-> all]
      BY <3>7
    <3>9. QED BY <3>2, <3>4, <3>6, <3>8
  <2>4. parse_FunctionDeclaration(i)
          = [[[[sub EXCEPT !.obj = "Function"] EXCEPT !.static = FALSE] EXCEPT !.result = t] EXCEPT !.decls = all]
    <3>1. parse_FunctionDeclaration(i)
            = [sub EXCEPT !.obj = "Function", !.static = FALSE, !.result = t, !.decls = Append(@, own)]
      BY <1>9, <2>1, Zenon DEF parse_FunctionDeclaration
    <3>2. sub.decls = decls
      BY <1>8, <1>9
    <3>3. QED BY <2>1, <3>1, <3>2
  <2>5. \A x : Plain("sub", [obj |-> "Function", name |-> i.name, static |-> x, result |-> t, params |-> params, decls |-> all])
    BY <2>2 DEF Plain, PlainRow
  <2>6. QED BY <2>3, <2>4, <2>5, Zenon
<1>12. QED BY <1>9, <1>10, <1>11 DEF parse_TaskDeclaration

\* Parsing one item adds no scaled value to its unit.
LEMMA ItemKeeps ==
  ASSUME NEW b, NEW u, Keeps(b, u), NEW i, IsItem(i, DOMAIN b.scopes), NEW ansi
  PROVE  Keeps(b, ParseItem(u, i, ansi))
<1>1. i.k \in ItemKinds /\ i.scope \in DOMAIN u.scopes /\ Top \in DOMAIN u.scopes /\ IsWritten(i.val) /\ IsWritten(i.num)
  BY DEF IsItem, Keeps, PlainUnit
<1>2. /\ PlainRow("decl", u.ports) /\ PlainRow("decl", u.tps)
      /\ PlainRow("inst", u.insts) /\ PlainRow("sub", u.subs)
  BY DEF Keeps, PlainUnit
<1>3. CASE i.k \in PortKinds /\ ansi
  <2>1. PICK q : q = u.ports
    OBVIOUS
  <2>2. PlainRow("decl", Append(q, PortDeclaration(i)))
    BY <1>1, <1>2, <2>1, PortDeclarationIsPlain, PlainIsDecl, PlainAppend
  <2>3. Keeps(b, [u EXCEPT !.ports = Append(q, PortDeclaration(i))])
    BY <2>2, SetPorts
  <2>4. ParseItem(u, i, ansi) = [u EXCEPT !.ports = Append(q, PortDeclaration(i))]
    <3>1. ParseItem(u, i, ansi) = [u EXCEPT !.ports = Append(@, PortDeclaration(i))]
      BY <1>3, Zenon DEF ParseItem
    <3>2. QED BY <2>1, <3>1
  <2>5. QED BY <2>3, <2>4
<1>4. CASE i.k \in PortKinds /\ ~ansi
  <2>1. Keeps(b, Declare(u, Top, PortDeclaration(i)))
    BY <1>1, PortDeclarationIsPlain, DeclareKeeps
  <2>2. ParseItem(u, i, ansi) = Declare(u, Top, PortDeclaration(i))
    BY <1>4, Zenon DEF ParseItem
  <2>3. QED BY <2>1, <2>2
<1>5. CASE i.k = "param"
  <2>1. PICK q : q = u.tps
    OBVIOUS
  <2>2. PlainRow("decl", Append(q, parse_ParameterDeclaration(i)))
    BY <1>1, <1>2, <2>1, ParameterIsPlain, PlainIsDecl, PlainAppend
  <2>3. Keeps(b, [u EXCEPT !.tps = Append(q, parse_ParameterDeclaration(i))])
    BY <2>2, SetTps
  <2>4. ParseItem(u, i, ansi) = [u EXCEPT !.tps = Append(q, parse_ParameterDeclaration(i))]
    BY <1>5, <2>1 DEF ParseItem, PortKinds
  <2>5. QED BY <2>3, <2>4
<1>6. CASE i.k = "assign"
  <2>1. PICK a : a = [Assign(i.name, i.val) EXCEPT !.delay = i.num]
    OBVIOUS
  <2>2. a = [lhs |-> i.name, rhs |-> i.val, delay |-> i.num]
    BY <2>1 DEF Assign
  <2>3. Plain("act", a)
    BY <1>1, <2>2 DEF Plain
  <2>4. Keeps(b, AddAct(u, i.scope, a))
    BY <1>1, <2>3, AddActKeeps
  <2>5. ParseItem(u, i, ansi) = AddAct(u, i.scope, a)
    BY <1>6, <2>1 DEF ParseItem, PortKinds, _fillBaseContentsFromModuleOrGenerateItem
  <2>6. QED BY <2>4, <2>5
<1>7. CASE i.k \in {"always", "analog"}
  <2>1. PICK q : q = u.scopes[i.scope].tables
    OBVIOUS
  <2>2. PICK t : t = [k |-> i.k, delay |-> i.num, syms |-> i.val.syms]
    OBVIOUS
  <2>3. Plain("table", t)
    BY <1>1, <2>2 DEF Plain
  <2>4. PlainRow("table", q)
    BY <1>1, <2>1 DEF Keeps, PlainUnit, PlainScope
  <2>5. PlainRow("table", Append(q, t))
    BY <2>3, <2>4, PlainAppend
  <2>6. Keeps(b, [u EXCEPT !.scopes[i.scope].tables = Append(q, t)])
    BY <1>1, <2>5, SetTables
  <2>7. ParseItem(u, i, ansi) = [u EXCEPT !.scopes[i.scope].tables = Append(@, t)]
    BY <1>7, <2>2 DEF ParseItem, PortKinds, _fillBaseContentsFromModuleOrGenerateItem
  <2>8. [u EXCEPT !.scopes[i.scope].tables = Append(@, t)] = [u EXCEPT !.scopes[i.scope].tables = Append(q, t)]
    BY <2>1
  <2>9. QED BY <2>6, <2>7, <2>8
<1>8. CASE i.k = "instance"
  <2>1. PICK q, inst : q = u.insts /\ inst = parse_ModuleInstantiation(i)
    OBVIOUS
  <2>2. PICK ports : ports = [n \in DOMAIN i.binds |->
                       [formal |-> IF i.named THEN i.binds[n].formal ELSE Nil, actual |-> i.binds[n].actual]]
    OBVIOUS
  <2>3. Row(ports)
    <3>1. PICK binds : binds = i.binds
      OBVIOUS
    <3>2. PICK n \in Nat : DOMAIN binds = 1 .. n
      BY <3>1, IsRowIsRow, RowDomain DEF IsItem
    <3>3. ports = [k \in 1 .. n |-> ports[k]]
      BY <2>2, <3>1, <3>2
    <3>4. QED BY <3>3 DEF Row
  <2>4. inst = [unit |-> i.disc, name |-> i.name, params |-> parse_ParameterValueAssignment(i.params, i.named), ports |-> ports]
    BY <2>1, <2>2, Zenon DEF parse_ModuleInstantiation
  <2>5. Plain("inst", inst)
    BY <2>3, <2>4 DEF Plain
  <2>6. PlainRow("inst", Append(q, inst))
    BY <1>2, <2>1, <2>5, PlainAppend
  <2>7. Keeps(b, [u EXCEPT !.insts = Append(q, inst)])
    BY <2>6, SetInsts
  <2>8. ParseItem(u, i, ansi) = [u EXCEPT !.insts = Append(q, inst)]
    BY <1>8, <2>1 DEF ParseItem, PortKinds, _fillBaseContentsFromModuleOrGenerateItem
  <2>9. QED BY <2>7, <2>8
<1>9. CASE i.k \in {"function", "task"}
  <2>1. Row(i.binds) /\ \A n \in DOMAIN i.binds : i.binds[n].k \in {"tf", "reg", "integer"} /\ IsWritten(i.binds[n].val)
    BY <1>9, IsRowIsRow DEF IsItem
  <2>2. PICK q : q = u.subs
    OBVIOUS
  <2>3. PICK sub : sub = IF i.k = "function" THEN parse_FunctionDeclaration(i) ELSE parse_TaskDeclaration(i)
    OBVIOUS
  <2>4. Plain("sub", sub)
    BY <2>1, <2>3, SubprogramIsPlain
  <2>5. PlainRow("sub", Append(q, sub)) /\ DOMAIN q \subseteq DOMAIN Append(q, sub)
    BY <1>2, <2>2, <2>4, PlainAppend
  <2>6. Keeps(b, [u EXCEPT !.subs = Append(q, sub)])
    BY <2>2, <2>5, SetSubs
  <2>7. ParseItem(u, i, ansi) = [u EXCEPT !.subs = Append(q, sub)]
    BY <1>9, <2>2, <2>3 DEF ParseItem, PortKinds, _fillBaseContentsFromModuleOrGenerateItem
  <2>8. QED BY <2>6, <2>7
<1>10. CASE i.k = "call"
  <2>1. PICK q : q = Append(u.calls, parse_TaskEnable(i))
    OBVIOUS
  <2>2. Keeps(b, [u EXCEPT !.calls = q])
    BY SetCalls
  <2>3. ParseItem(u, i, ansi) = [u EXCEPT !.calls = q]
    BY <1>10, <2>1 DEF ParseItem, PortKinds, _fillBaseContentsFromModuleOrGenerateItem
  <2>4. QED BY <2>2, <2>3
<1>11. CASE i.k = "localparam"
  <2>1. Keeps(b, Declare(u, i.scope, ContentsDeclaration(i)))
    BY <1>1, <1>11, ContentsDeclarationIsPlain, DeclareKeeps
  <2>2. ParseItem(u, i, ansi) = Declare(u, i.scope, ContentsDeclaration(i))
    BY <1>11 DEF ParseItem, PortKinds, _fillBaseContentsFromModuleOrGenerateItem
  <2>3. QED BY <2>1, <2>2
<1>12. CASE i.k \in {"reg", "integer", "time", "real", "net", "discipline", "event"}
  <2>1. PICK d : d = ContentsDeclaration(i)
    OBVIOUS
  <2>2. PlainDecl(d)
    BY <1>1, <1>12, <2>1, ContentsDeclarationIsPlain
  <2>3. Keeps(b, Declare(u, i.scope, d))
    BY <1>1, <2>2, DeclareKeeps
  <2>4. Keeps(b, AddAct(u, i.scope, Assign(d.name, d.val)))
    <3>1. IsWritten(d.val)
      BY <2>2 DEF PlainDecl
    <3>2. QED BY <1>1, <3>1, PlainAssign, AddActKeeps
  <2>5. ParseItem(u, i, ansi) = _manageModuleItemDeclarations(u, i.scope, d, ansi)
    BY <1>12, <2>1 DEF ParseItem, PortKinds, _fillBaseContentsFromModuleOrGenerateItem
  <2>6. _manageModuleItemDeclarations(u, i.scope, d, ansi) \in
          {Declare(u, i.scope, d), AddAct(u, i.scope, Assign(d.name, d.val)), u}
    BY DEF _manageModuleItemDeclarations
  <2>7. QED BY <2>3, <2>4, <2>5, <2>6
<1>13. QED BY <1>1, <1>3, <1>4, <1>5, <1>6, <1>7, <1>8, <1>9, <1>10, <1>11, <1>12 DEF ItemKinds, PortKinds

\* A port of the header joined with its declaration.
LEMMA JoinPortKeeps ==
  ASSUME NEW b, NEW u, Keeps(b, u), NEW d, PlainDecl(d)
  PROVE  Keeps(b, JoinPorts(u, d))
<1>1. PICK n, q : n = PortNamed(u, d.name) /\ q = u.ports
  OBVIOUS
<1>2. Top \in DOMAIN u.scopes /\ PlainRow("decl", q)
  BY <1>1 DEF Keeps, PlainUnit
<1>3. Keeps(b, Declare(u, Top, d))
  BY <1>2, DeclareKeeps
<1>4. ASSUME NEW e, n \in DOMAIN q => PlainDecl(e)
      PROVE  Keeps(b, [u EXCEPT !.ports[n] = e])
  <2>1. PICK r : r = [q EXCEPT ![n] = e]
    OBVIOUS
  <2>2. PlainRow("decl", r)
    <3>1. CASE n \in DOMAIN q
      BY <1>2, <1>4, <2>1, <3>1, PlainIsDecl, PlainUpdate
    <3>2. CASE n \notin DOMAIN q
      <4>1. PICK m \in Nat : q = [i \in 1 .. m |-> q[i]]
        BY <1>2 DEF PlainRow, Row
      <4>2. r = q
        BY <2>1, <3>2, <4>1
      <4>3. QED BY <1>2, <4>2
    <3>3. QED BY <3>1, <3>2
  <2>3. Keeps(b, [u EXCEPT !.ports = r])
    BY <2>2, SetPorts
  <2>4. [u EXCEPT !.ports[n] = e] = [u EXCEPT !.ports = r]
    BY <1>1, <2>1
  <2>5. QED BY <2>3, <2>4
<1>5. PICK p : p = q[n]
  OBVIOUS
<1>6. n \in DOMAIN q => PlainDecl(p)
  BY <1>2, <1>5, PlainIsDecl DEF PlainRow
<1>7. PlainDecl(JoinPort(p, d))
  <2>1. PICK t : t = _composeAmsType(d.type, p.type)
    OBVIOUS
  <2>2. [d EXCEPT !.type = t] = [obj |-> d.obj, name |-> d.name, dir |-> d.dir, type |-> t, val |-> d.val, var |-> d.var]
    BY DEF PlainDecl
  <2>3. PlainDecl([d EXCEPT !.type = t])
    BY <2>2 DEF PlainDecl
  <2>4. JoinPort(p, d) \in {d, [d EXCEPT !.type = t]}
    BY <2>1 DEF JoinPort
  <2>5. QED BY <2>3, <2>4
<1>8. ASSUME PlainDecl(p) PROVE PlainDecl(JoinDeclaration(p, d))
  <2>1. PICK v : v = IF d.val # NoValue /\ ~(d.obj = "Signal" /\ d.val # NoValue /\ ~d.var) THEN d.val ELSE p.val
    OBVIOUS
  <2>2. IsWritten(v)
    BY <1>8, <2>1 DEF PlainDecl
  <2>3. PICK t, x : t = _composeAmsType(p.type, d.type) /\ x = (p.var \/ (d.obj = "Signal" /\ d.var /\ v = NoValue))
    OBVIOUS
  <2>4. PICK e : e = [p EXCEPT !.type = t]
    OBVIOUS
  <2>5. e = [obj |-> p.obj, name |-> p.name, dir |-> p.dir, type |-> t, val |-> p.val, var |-> p.var]
    BY <1>8, <2>4 DEF PlainDecl
  <2>6. PICK f : f = [e EXCEPT !.val = v]
    OBVIOUS
  <2>7. f = [obj |-> p.obj, name |-> p.name, dir |-> p.dir, type |-> t, val |-> v, var |-> p.var]
    BY <2>5, <2>6
  <2>8. \A y : [f EXCEPT !.var = y] = [obj |-> p.obj, name |-> p.name, dir |-> p.dir, type |-> t, val |-> v, var |-> y]
    BY <2>7
  <2>9. \A y : PlainDecl([f EXCEPT !.var = y])
    BY <2>2, <2>8 DEF PlainDecl
  <2>10. JoinDeclaration(p, d) = [f EXCEPT !.var = x]
    <3>1. JoinDeclaration(p, d) = [p EXCEPT !.type = t, !.val = v, !.var = @ \/ (d.obj = "Signal" /\ d.var /\ v = NoValue)]
      BY <2>1, <2>3, Zenon DEF JoinDeclaration
    <3>2. f.var = p.var
      BY <2>7
    <3>3. [p EXCEPT !.type = t, !.val = v, !.var = @ \/ (d.obj = "Signal" /\ d.var /\ v = NoValue)]
            = [f EXCEPT !.var = @ \/ (d.obj = "Signal" /\ d.var /\ v = NoValue)]
      BY <2>4, <2>6
    <3>4. [f EXCEPT !.var = @ \/ (d.obj = "Signal" /\ d.var /\ v = NoValue)] = [f EXCEPT !.var = x]
      BY <2>3, <3>2, Zenon
    <3>5. QED BY <3>1, <3>3, <3>4, Zenon
  <2>11. QED BY <2>9, <2>10, Zenon
<1>9. PICK v : v = [u EXCEPT !.ports[n] = JoinDeclaration(p, d)]
  OBVIOUS
<1>10. Keeps(b, v) /\ Keeps(b, [u EXCEPT !.ports[n] = JoinPort(p, d)])
  BY <1>4, <1>6, <1>7, <1>8, <1>9
<1>11. Keeps(b, AddAct(v, Top, Assign(d.name, d.val)))
  <2>1. Top \in DOMAIN v.scopes
    BY <1>10 DEF Keeps, PlainUnit
  <2>2. Plain("act", Assign(d.name, d.val))
    BY PlainAssign DEF PlainDecl
  <2>3. QED BY <1>10, <2>1, <2>2, AddActKeeps
<1>12. JoinPorts(u, d) \in {Declare(u, Top, d), [u EXCEPT !.ports[n] = JoinPort(p, d)], v,
                            AddAct(v, Top, Assign(d.name, d.val))}
  BY <1>1, <1>5, <1>9 DEF JoinPorts
<1>13. QED BY <1>3, <1>10, <1>11, <1>12

\* The unit the parser makes of a module.
LEMMA ParsedUnit ==
  ASSUME NEW src, IsPiece(src), src.k = "module", NEW scale
  PROVE  PlainUnit(ParseUnit(src, scale)) /\ ParseUnit(src, scale).scale = scale /\ ParseUnit(src, scale).ams = FALSE
<1>1. PICK start : start = parse_ModuleDeclarationStart(src.name, scale, src.conds)
  OBVIOUS
<1>2. PICK scopes : scopes = [s \in DOMAIN src.conds |-> Scope(src.conds[s])]
  OBVIOUS
<1>3. start = [name |-> src.name, scale |-> scale, tps |-> <<>>, ports |-> <<>>, insts |-> <<>>, subs |-> <<>>,
               calls |-> <<>>, scopes |-> scopes, ams |-> FALSE]
  BY <1>1, <1>2, Zenon DEF parse_ModuleDeclarationStart
<1>4. /\ start.scale = scale /\ start.scopes = scopes /\ start.ams = FALSE
      /\ start.tps = <<>> /\ start.ports = <<>> /\ start.insts = <<>> /\ start.subs = <<>>
  BY <1>3
<1>5. PlainUnit(start)
  <2>1. start = [name |-> start.name, scale |-> start.scale, tps |-> start.tps, ports |-> start.ports, insts |-> start.insts,
                 subs |-> start.subs, calls |-> start.calls, scopes |-> start.scopes, ams |-> start.ams]
    BY <1>3
  <2>2. scopes = [s \in DOMAIN scopes |-> scopes[s]] /\ DOMAIN scopes = DOMAIN src.conds
    BY <1>2
  <2>3. ASSUME NEW s \in DOMAIN scopes PROVE PlainScope(scopes[s])
    <3>1. scopes[s] = [cond |-> src.conds[s], decls |-> <<>>, acts |-> <<>>, tables |-> <<>>]
      BY <1>2, <2>2 DEF Scope
    <3>2. QED BY <3>1, PlainRowOfNone DEF PlainScope
  <2>4. IsFiniteSet(DOMAIN scopes) /\ Top \in DOMAIN scopes
    BY <2>2 DEF IsPiece
  <2>5. QED BY <1>4, <2>1, <2>2, <2>3, <2>4, PlainRowOfNone DEF PlainUnit
<1>6. PICK items : items = src.items
  OBVIOUS
<1>7. PICK body : body = ParseItems(start, items, src.ansi)
  OBVIOUS
<1>8. Keeps(start, body)
  <2>1. PICK n \in Nat : DOMAIN items = 1 .. n
    BY <1>6, IsRowIsRow, RowDomain DEF IsPiece
  <2>2. Folds("declare", src.ansi, start, items, n, body)
    BY <1>7, <2>1, ParseItemsSteps
  <2>3. DOMAIN start.scopes = DOMAIN src.conds
    BY <1>2, <1>4
  <2>4. ASSUME NEW w, NEW k \in 1 .. n, Keeps(start, w) PROVE Keeps(start, Step("declare", src.ansi, w, items[k]))
    <3>1. IsItem(items[k], DOMAIN start.scopes)
      BY <1>6, <2>1, <2>3 DEF IsPiece
    <3>2. Keeps(start, ParseItem(w, items[k], src.ansi))
      BY <2>4, <3>1, ItemKeeps
    <3>3. QED BY <3>2 DEF Step
  <2>5. QED BY <1>5, <2>2, <2>4, KeepsItself, FoldKeeps
<1>9. Keeps(start, parse_ModuleDeclaration(body, src.header))
  <2>1. PICK decls, header : decls = body.scopes[Top].decls /\ header = src.header
    OBVIOUS
  <2>2. Top \in DOMAIN body.scopes /\ PlainRow("decl", decls)
    BY <1>8, <2>1 DEF Keeps, PlainUnit, PlainScope
  <2>3. PICK ports : ports = [m \in DOMAIN header |-> parse_PortReference(header[m])]
    OBVIOUS
  <2>4. PlainRow("decl", ports)
    <3>1. ports = [m \in DOMAIN header |-> ports[m]]
      BY <2>3
    <3>2. \A m \in DOMAIN header : Plain("decl", ports[m])
      BY <2>3, PlainDeclaration, PlainValues, PlainIsDecl DEF parse_PortReference
    <3>3. Row(header)
      BY <2>1, IsRowIsRow DEF IsPiece
    <3>4. QED BY <3>1, <3>2, <3>3, PlainMap
  <2>5. PICK v, listed : v = [body EXCEPT !.ports = ports] /\ listed = [v EXCEPT !.scopes[Top].decls = <<>>]
    OBVIOUS
  <2>6. Keeps(start, v)
    BY <1>8, <2>4, <2>5, SetPorts
  <2>7. Keeps(start, listed)
    <3>1. Top \in DOMAIN v.scopes
      BY <2>6 DEF Keeps, PlainUnit
    <3>2. QED BY <2>5, <2>6, <3>1, PlainRowOfNone, SetDecls
  <2>8. PICK res : res = JoinedPorts(listed, decls)
    OBVIOUS
  <2>9. PICK n \in Nat : DOMAIN decls = 1 .. n /\ \A k \in 1 .. n : Plain("decl", decls[k])
    BY <2>2, PlainRowDomain
  <2>10. Folds("port", 0, listed, decls, n, res)
    BY <2>8, <2>9, JoinedPortsSteps
  <2>11. ASSUME NEW w, NEW k \in 1 .. n, Keeps(start, w) PROVE Keeps(start, Step("port", 0, w, decls[k]))
    <3>1. Plain("decl", decls[k])
      BY <2>9
    <3>2. Keeps(start, JoinPorts(w, decls[k]))
      BY <2>11, <3>1, PlainIsDecl, JoinPortKeeps
    <3>3. QED BY <3>2 DEF Step
  <2>12. Keeps(start, res)
    BY <2>7, <2>10, <2>11, FoldKeeps
  <2>13. parse_ModuleDeclaration(body, src.header) = res
    <3>1. parse_ModuleDeclaration(body, src.header)
            = JoinedPorts([body EXCEPT !.ports = [m \in DOMAIN src.header |-> parse_PortReference(src.header[m])],
                                       !.scopes[Top].decls = <<>>], body.scopes[Top].decls)
      BY Zenon DEF parse_ModuleDeclaration, JoinedPorts
    <3>2. [body EXCEPT !.ports = [m \in DOMAIN src.header |-> parse_PortReference(src.header[m])],
                       !.scopes[Top].decls = <<>>] = listed
      BY <2>1, <2>3, <2>5
    <3>3. QED BY <2>1, <2>8, <3>1, <3>2
  <2>14. QED BY <2>12, <2>13
<1>10. ParseUnit(src, scale) = IF src.ansi THEN body ELSE parse_ModuleDeclaration(body, src.header)
  <2>1. ParseUnit(src, scale) =
          IF src.ansi THEN ParseItems(parse_ModuleDeclarationStart(src.name, scale, src.conds), src.items, src.ansi)
          ELSE parse_ModuleDeclaration(ParseItems(parse_ModuleDeclarationStart(src.name, scale, src.conds), src.items, src.ansi),
                                       src.header)
    BY Zenon DEF ParseUnit, ParseItems
  <2>2. QED BY <1>1, <1>6, <1>7, <2>1
<1>11. Keeps(start, ParseUnit(src, scale))
  BY <1>8, <1>9, <1>10
<1>12. QED BY <1>4, <1>11 DEF Keeps

-------------------------------------------------------------------------------
(* The inductive invariant.                                                *)

\* A value that has been scaled once by the time scale of its unit, unless it
\* is no value or a time.
IsScaled(u, s, v) ==
  v.scales = IF v = NoValue \/ IsTime(u, s, v) THEN <<>>
             ELSE <<IF u.scale # Nil THEN u.scale ELSE DefaultScale>>

UnitIsScaled(u) ==
  \A s \in DOMAIN u.scopes :
    /\ \A a \in ToSet(u.scopes[s].acts) : IsScaled(u, s, a.delay)
    /\ \A t \in ToSet(u.scopes[s].tables) : IsScaled(u, s, t.delay)
    /\ \A d \in ToSet(u.scopes[s].decls) :
         IF d.type = Named("time") THEN IsScaled(u, s, d.val) ELSE d.val.scales = <<>>

IsUnit(u) ==
  u = [name |-> u.name, scale |-> u.scale, tps |-> u.tps, ports |-> u.ports, insts |-> u.insts, subs |-> u.subs,
       calls |-> u.calls, scopes |-> u.scopes, ams |-> u.ams]

\* What step 2 leaves of a unit.
Finished(u, declared) == IsUnit(u) /\ UnitIsScaled(u) /\ (HasTimes(u) /\ u.scale = Nil => declared)

\* q is what remains of a file after its first p pieces.
Remains(q, pieces, p) == \E n \in Nat : DOMAIN pieces = 1 .. p + n /\ q = [i \in 1 .. n |-> pieces[p + i]]

\* The queue holds files of the project, the first of them partly read: the
\* time scale of the parser is the one in force where it has got to.
FileInQueue(c, file, first, scale) ==
  /\ file = [ext |-> file.ext, pieces |-> file.pieces]
  /\ \E f \in DOMAIN c.files : \E p \in Nat :
       /\ Remains(file.pieces, c.files[f].pieces, p)
       /\ IF first THEN scale = ScaleAt(c, f, p + 1) ELSE p = 0

QueueFollows(c, q, scale) ==
  Row(q) /\ \A k \in DOMAIN q : FileInQueue(c, q[k], k = 1, scale)

\* A unit has the time scale in force where its module is written.
HasScaleOfPlace(c, n, scale) ==
  \E at \in ModulePlaces(c) : PieceAt(c, at).name = n /\ scale = ScaleAt(c, at[1], at[2])

UnitsFollow(c, us) ==
  /\ us = [n \in DOMAIN us |-> us[n]]
  /\ \A n \in DOMAIN us : HasScaleOfPlace(c, n, us[n].scale)

\* No value is scaled before step 2, and every unit is finished after it.
Progress(us, pass, visited, declared) ==
  \A n \in DOMAIN us :
    IF pass \in {"mark", "written"} \/ (pass = "step2" /\ n \in visited) THEN Finished(us[n], declared)
    ELSE PlainUnit(us[n])

IInv ==
  /\ cLine \in CommandLines
  /\ stage \in {"parse", "raw", "step1", "step2", "mark", "written"}
  /\ stage \notin {"step1", "step2", "mark"} => done = {}
  /\ stage = "parse" => QueueFollows(cLine, queue, timescale)
  /\ UnitsFollow(cLine, units)
  /\ Progress(units, stage, done, defaultScale)

-------------------------------------------------------------------------------
(* Step 2 scales every value of a unit once.                               *)

\* A list and what step 2 makes of it.
LEMMA ScaledScope ==
  ASSUME NEW u, PlainUnit(u), NEW s \in DOMAIN u.scopes, NEW sc, sc = u.scopes[s], NEW r, r = ScaleScope(u, s)
  PROVE  /\ DOMAIN r.decls = DOMAIN sc.decls /\ DOMAIN r.acts = DOMAIN sc.acts /\ DOMAIN r.tables = DOMAIN sc.tables
         /\ \A m \in DOMAIN sc.decls :
              /\ PlainDecl(sc.decls[m])
              /\ r.decls[m].name = sc.decls[m].name /\ r.decls[m].type = sc.decls[m].type
              /\ r.decls[m].val = IF sc.decls[m].type # Named("time") THEN sc.decls[m].val
                                  ELSE _scaleTimeValue(u, s, sc.decls[m].val)
         /\ \A m \in DOMAIN sc.acts :
              IsWritten(sc.acts[m].delay) /\ r.acts[m].delay = _scaleTimeValue(u, s, sc.acts[m].delay)
         /\ \A m \in DOMAIN sc.tables :
              IsWritten(sc.tables[m].delay) /\ r.tables[m].delay = _scaleTimeValue(u, s, sc.tables[m].delay)
<1>1. PlainScope(sc)
  BY DEF PlainUnit
<1>2. PICK D, A, T :
        /\ D = [m \in DOMAIN u.scopes[s].decls |-> IF u.scopes[s].decls[m].type # Named("time") THEN u.scopes[s].decls[m]
                                          ELSE [u.scopes[s].decls[m] EXCEPT !.val = _scaleTimeValue(u, s, @)]]
        /\ A = [m \in DOMAIN u.scopes[s].acts |-> [u.scopes[s].acts[m] EXCEPT !.delay = _scaleTimeValue(u, s, @)]]
        /\ T = [m \in DOMAIN u.scopes[s].tables |-> [u.scopes[s].tables[m] EXCEPT !.delay = _scaleTimeValue(u, s, @)]]
  OBVIOUS
<1>3. r = [cond |-> sc.cond, decls |-> D, acts |-> A, tables |-> T]
  <2>1. r = [sc EXCEPT !.decls = D, !.acts = A, !.tables = T]
    <3>1. r = [u.scopes[s] EXCEPT !.decls = D, !.acts = A, !.tables = T]
      BY <1>2, Zenon DEF ScaleScope
    <3>2. QED BY <3>1
  <2>2. sc = [cond |-> sc.cond, decls |-> sc.decls, acts |-> sc.acts, tables |-> sc.tables]
    BY <1>1 DEF PlainScope
  <2>3. PICK x : x = [sc EXCEPT !.decls = D]
    OBVIOUS
  <2>4. x = [cond |-> sc.cond, decls |-> D, acts |-> sc.acts, tables |-> sc.tables]
    BY <2>2, <2>3
  <2>5. PICK y : y = [x EXCEPT !.acts = A]
    OBVIOUS
  <2>6. y = [cond |-> sc.cond, decls |-> D, acts |-> A, tables |-> sc.tables]
    BY <2>4, <2>5
  <2>7. [y EXCEPT !.tables = T] = [cond |-> sc.cond, decls |-> D, acts |-> A, tables |-> T]
    BY <2>6
  <2>8. r = [y EXCEPT !.tables = T]
    BY <2>1, <2>3, <2>5
  <2>9. QED BY <2>7, <2>8
<1>4. r.decls = D /\ r.acts = A /\ r.tables = T
  BY <1>3
<1>5. DOMAIN D = DOMAIN sc.decls /\ DOMAIN A = DOMAIN sc.acts /\ DOMAIN T = DOMAIN sc.tables
  BY <1>2
<1>6. ASSUME NEW m \in DOMAIN sc.decls
      PROVE  /\ PlainDecl(sc.decls[m])
             /\ D[m].name = sc.decls[m].name /\ D[m].type = sc.decls[m].type
             /\ D[m].val = IF sc.decls[m].type # Named("time") THEN sc.decls[m].val
                           ELSE _scaleTimeValue(u, s, sc.decls[m].val)
  <2>1. PICK d : d = sc.decls[m]
    OBVIOUS
  <2>2. PlainDecl(d)
    BY <1>1, <2>1, PlainIsDecl DEF PlainScope, PlainRow
  <2>3. PICK v : v = _scaleTimeValue(u, s, d.val)
    OBVIOUS
  <2>4. [d EXCEPT !.val = v] = [obj |-> d.obj, name |-> d.name, dir |-> d.dir, type |-> d.type, val |-> v, var |-> d.var]
    BY <2>2 DEF PlainDecl
  <2>5. D[m] = IF d.type # Named("time") THEN d ELSE [d EXCEPT !.val = v]
    BY <1>2, <2>1, <2>3
  <2>6. QED BY <2>1, <2>2, <2>3, <2>4, <2>5
<1>7. ASSUME NEW m \in DOMAIN sc.acts
      PROVE  IsWritten(sc.acts[m].delay) /\ A[m].delay = _scaleTimeValue(u, s, sc.acts[m].delay)
  <2>1. PICK a : a = sc.acts[m]
    OBVIOUS
  <2>2. Plain("act", a)
    BY <1>1, <2>1 DEF PlainScope, PlainRow
  <2>3. PICK v : v = _scaleTimeValue(u, s, a.delay)
    OBVIOUS
  <2>4. [a EXCEPT !.delay = v] = [lhs |-> a.lhs, rhs |-> a.rhs, delay |-> v]
    BY <2>2 DEF Plain
  <2>5. A[m] = [a EXCEPT !.delay = v]
    BY <1>2, <2>1, <2>3
  <2>6. QED BY <2>1, <2>2, <2>3, <2>4, <2>5 DEF Plain
<1>8. ASSUME NEW m \in DOMAIN sc.tables
      PROVE  IsWritten(sc.tables[m].delay) /\ T[m].delay = _scaleTimeValue(u, s, sc.tables[m].delay)
  <2>1. PICK a : a = sc.tables[m]
    OBVIOUS
  <2>2. Plain("table", a)
    BY <1>1, <2>1 DEF PlainScope, PlainRow
  <2>3. PICK v : v = _scaleTimeValue(u, s, a.delay)
    OBVIOUS
  <2>4. [a EXCEPT !.delay = v] = [k |-> a.k, delay |-> v, syms |-> a.syms]
    BY <2>2 DEF Plain
  <2>5. T[m] = [a EXCEPT !.delay = v]
    BY <1>2, <2>1, <2>3
  <2>6. QED BY <2>1, <2>2, <2>3, <2>4, <2>5 DEF Plain
<1>9. QED BY <1>4, <1>5, <1>6, <1>7, <1>8

\* Scaling changes neither the name nor the type of a declaration.
LEMMA TimesStay ==
  ASSUME NEW u, PlainUnit(u), NEW w, w.scopes = [s \in DOMAIN u.scopes |-> ScaleScope(u, s)],
         NEW s \in DOMAIN u.scopes, NEW v, NEW x, v.syms = x.syms
  PROVE  IsTime(w, s, x) <=> IsTime(u, s, v)
<1>1. ASSUME NEW t \in DOMAIN u.scopes, NEW n
      PROVE  (\E d \in ToSet(w.scopes[t].decls) : d.name = n /\ d.type = Named("time"))
               <=> (\E d \in ToSet(u.scopes[t].decls) : d.name = n /\ d.type = Named("time"))
  <2>1. PICK sc, r : sc = u.scopes[t] /\ r = ScaleScope(u, t)
    OBVIOUS
  <2>2. /\ DOMAIN r.decls = DOMAIN sc.decls
        /\ \A m \in DOMAIN sc.decls : r.decls[m].name = sc.decls[m].name /\ r.decls[m].type = sc.decls[m].type
    BY <2>1, ScaledScope
  <2>3. w.scopes[t] = r
    BY <2>1
  <2>4. QED BY <2>1, <2>2, <2>3 DEF ToSet
<1>2. Top \in DOMAIN u.scopes
  BY DEF PlainUnit
<1>3. PICK names : names = v.syms
  OBVIOUS
<1>4. ASSUME NEW n
      PROVE  (\E t \in {Top, s} : \E d \in ToSet(w.scopes[t].decls) : d.name = n /\ d.type = Named("time"))
               <=> (\E t \in {Top, s} : \E d \in ToSet(u.scopes[t].decls) : d.name = n /\ d.type = Named("time"))
  <2>1. {Top, s} \subseteq DOMAIN u.scopes
    BY <1>2
  <2>2. ASSUME NEW t \in {Top, s}
        PROVE  (\E d \in ToSet(w.scopes[t].decls) : d.name = n /\ d.type = Named("time"))
                 <=> (\E d \in ToSet(u.scopes[t].decls) : d.name = n /\ d.type = Named("time"))
    <3>1. t \in DOMAIN u.scopes
      BY <2>1
    <3>2. QED BY <1>1, <3>1, Zenon
  <2>3. QED BY <2>2, Zenon
<1>5. IsTime(u, s, v) <=> (names # {} /\ \A n \in names : \E t \in {Top, s} : \E d \in ToSet(u.scopes[t].decls) :
                                                          d.name = n /\ d.type = Named("time"))
  BY <1>3, Zenon DEF IsTime
<1>6. IsTime(w, s, x) <=> (names # {} /\ \A n \in names : \E t \in {Top, s} : \E d \in ToSet(w.scopes[t].decls) :
                                                          d.name = n /\ d.type = Named("time"))
  BY <1>3, Zenon DEF IsTime
<1>7. QED BY <1>4, <1>5, <1>6, Zenon

\* A value scaled by _scaleTimeValue is scaled once, unless it is a time.
LEMMA ScaledValue ==
  ASSUME NEW u, PlainUnit(u), NEW w, w.scopes = [s \in DOMAIN u.scopes |-> ScaleScope(u, s)], w.scale = u.scale,
         NEW s \in DOMAIN u.scopes, NEW v, IsWritten(v), NEW x, x = _scaleTimeValue(u, s, v)
  PROVE  IsScaled(w, s, x) /\ (x # NoValue => v # NoValue)
<1>1. v = [id |-> v.id, syms |-> v.syms, scales |-> <<>>]
  BY DEF IsWritten, Value
<1>2. v.scales = <<>> /\ NoValue.scales = <<>>
  BY <1>1 DEF NoValue, Value
<1>3. IsTime(w, s, v) <=> IsTime(u, s, v)
  BY TimesStay
<1>4. CASE v = NoValue \/ IsTime(u, s, v)
  BY <1>2, <1>3, <1>4 DEF IsScaled, _scaleTimeValue
<1>5. CASE ~(v = NoValue \/ IsTime(u, s, v))
  <2>1. PICK scale : scale = (IF u.scale # Nil THEN u.scale ELSE DefaultScale)
    OBVIOUS
  <2>2. PICK scales : scales = <<scale>>
    OBVIOUS
  <2>3. Append(v.scales, scale) = scales
    BY <1>2, <2>2
  <2>4. x = [v EXCEPT !.scales = scales]
    BY <1>5, <2>1, <2>3 DEF _scaleTimeValue
  <2>5. x = [id |-> v.id, syms |-> v.syms, scales |-> scales]
    BY <1>1, <2>4
  <2>6. x.syms = v.syms
    BY <2>5
  <2>7. x.scales = scales
    BY <2>5
  <2>8. scales # <<>>
    BY <2>2
  <2>9. x # NoValue
    BY <1>2, <2>7, <2>8
  <2>10. IsTime(w, s, x) <=> IsTime(u, s, v)
    BY <2>6, TimesStay
  <2>11. IsScaled(w, s, x)
    <3>1. x.scales = <<IF w.scale # Nil THEN w.scale ELSE DefaultScale>>
      BY <2>1, <2>2, <2>7
    <3>2. QED BY <1>5, <2>9, <2>10, <3>1, Zenon DEF IsScaled
  <2>12. QED BY <1>5, <2>11
<1>6. QED BY <1>4, <1>5

\* A unit whose scopes were all scaled has every value scaled once.
LEMMA ScaledUnit ==
  ASSUME NEW u, PlainUnit(u), NEW w, w.scale = u.scale, w.scopes = [s \in DOMAIN w.scopes |-> w.scopes[s]],
         DOMAIN w.scopes = DOMAIN u.scopes, \A s \in DOMAIN u.scopes : w.scopes[s] = ScaleScope(u, s)
  PROVE  UnitIsScaled(w) /\ (HasTimes(w) => HasTimes(u))
<1>1. w.scopes = [s \in DOMAIN u.scopes |-> ScaleScope(u, s)]
  OBVIOUS
<1>2. ASSUME NEW s \in DOMAIN u.scopes
      PROVE  /\ \A a \in ToSet(w.scopes[s].acts) :
                  IsScaled(w, s, a.delay) /\ (a.delay # NoValue => \E b \in ToSet(u.scopes[s].acts) : b.delay # NoValue)
             /\ \A t \in ToSet(w.scopes[s].tables) :
                  IsScaled(w, s, t.delay) /\ (t.delay # NoValue => \E b \in ToSet(u.scopes[s].tables) : b.delay # NoValue)
             /\ \A d \in ToSet(w.scopes[s].decls) :
                  /\ IF d.type = Named("time") THEN IsScaled(w, s, d.val) ELSE d.val.scales = <<>>
                  /\ d.type = Named("time") => \E b \in ToSet(u.scopes[s].decls) : b.type = Named("time")
  <2>1. PICK sc, r : sc = u.scopes[s] /\ r = ScaleScope(u, s)
    OBVIOUS
  <2>2. w.scopes[s] = r
    BY <1>1, <2>1
  <2>3. /\ DOMAIN r.decls = DOMAIN sc.decls /\ DOMAIN r.acts = DOMAIN sc.acts /\ DOMAIN r.tables = DOMAIN sc.tables
        /\ \A m \in DOMAIN sc.acts :
             IsWritten(sc.acts[m].delay) /\ r.acts[m].delay = _scaleTimeValue(u, s, sc.acts[m].delay)
        /\ \A m \in DOMAIN sc.tables :
             IsWritten(sc.tables[m].delay) /\ r.tables[m].delay = _scaleTimeValue(u, s, sc.tables[m].delay)
    BY <2>1, ScaledScope
  <2>4. \A m \in DOMAIN sc.decls :
          /\ PlainDecl(sc.decls[m])
          /\ r.decls[m].type = sc.decls[m].type
          /\ r.decls[m].val = IF sc.decls[m].type # Named("time") THEN sc.decls[m].val
                              ELSE _scaleTimeValue(u, s, sc.decls[m].val)
    BY <2>1, ScaledScope
  <2>5. ASSUME NEW v, IsWritten(v)
        PROVE  IsScaled(w, s, _scaleTimeValue(u, s, v)) /\ (_scaleTimeValue(u, s, v) # NoValue => v # NoValue)
    BY <1>1, <2>5, ScaledValue
  <2>6. ASSUME NEW m \in DOMAIN sc.acts
        PROVE  IsScaled(w, s, r.acts[m].delay) /\ (r.acts[m].delay # NoValue => sc.acts[m].delay # NoValue)
    BY <2>3, <2>5
  <2>7. ASSUME NEW m \in DOMAIN sc.tables
        PROVE  IsScaled(w, s, r.tables[m].delay) /\ (r.tables[m].delay # NoValue => sc.tables[m].delay # NoValue)
    BY <2>3, <2>5
  <2>8. ASSUME NEW m \in DOMAIN sc.decls
        PROVE  IF r.decls[m].type = Named("time") THEN IsScaled(w, s, r.decls[m].val) ELSE r.decls[m].val.scales = <<>>
    <3>1. IsWritten(sc.decls[m].val)
      BY <2>4 DEF PlainDecl
    <3>2. PICK v : v = sc.decls[m].val
      OBVIOUS
    <3>3. v.scales = <<>>
      BY <3>1, <3>2 DEF IsWritten, Value
    <3>4. QED BY <2>4, <2>5, <3>1, <3>2, <3>3
  <2>9. ASSUME NEW a \in ToSet(w.scopes[s].acts)
        PROVE  IsScaled(w, s, a.delay) /\ (a.delay # NoValue => \E b \in ToSet(u.scopes[s].acts) : b.delay # NoValue)
    <3>1. PICK m \in DOMAIN r.acts : a = r.acts[m]
      BY <2>2, <2>9 DEF ToSet
    <3>2. sc.acts[m] \in ToSet(u.scopes[s].acts)
      BY <2>1, <2>3 DEF ToSet
    <3>3. QED BY <2>3, <2>6, <3>1, <3>2
  <2>10. ASSUME NEW t \in ToSet(w.scopes[s].tables)
         PROVE  IsScaled(w, s, t.delay) /\ (t.delay # NoValue => \E b \in ToSet(u.scopes[s].tables) : b.delay # NoValue)
    <3>1. PICK m \in DOMAIN r.tables : t = r.tables[m]
      BY <2>2, <2>10 DEF ToSet
    <3>2. sc.tables[m] \in ToSet(u.scopes[s].tables)
      BY <2>1, <2>3 DEF ToSet
    <3>3. QED BY <2>3, <2>7, <3>1, <3>2
  <2>11. ASSUME NEW d \in ToSet(w.scopes[s].decls)
         PROVE  /\ IF d.type = Named("time") THEN IsScaled(w, s, d.val) ELSE d.val.scales = <<>>
                /\ d.type = Named("time") => \E b \in ToSet(u.scopes[s].decls) : b.type = Named("time")
    <3>1. PICK m \in DOMAIN r.decls : d = r.decls[m]
      BY <2>2, <2>11 DEF ToSet
    <3>2. sc.decls[m] \in ToSet(u.scopes[s].decls) /\ d.type = sc.decls[m].type
      BY <2>1, <2>3, <2>4, <3>1 DEF ToSet
    <3>3. IF d.type = Named("time") THEN IsScaled(w, s, d.val) ELSE d.val.scales = <<>>
      BY <2>3, <2>8, <3>1
    <3>4. d.type = Named("time") => \E b \in ToSet(u.scopes[s].decls) : b.type = Named("time")
      BY <3>2
    <3>5. QED BY <3>3, <3>4
  <2>12. QED BY <2>9, <2>10, <2>11
<1>3. UnitIsScaled(w)
  BY <1>1, <1>2 DEF UnitIsScaled
<1>4. HasTimes(w) => HasTimes(u)
  BY <1>1, <1>2 DEF HasTimes
<1>5. QED BY <1>3, <1>4

-------------------------------------------------------------------------------
(* The files of a project, and how far the parser has got in them.         *)

\* The files of one language are files of the project.
LEMMA FilesOfProject ==
  ASSUME NEW files, IsRow(files), NEW exts
  PROVE  /\ Row(FilesOf(files, exts))
         /\ \A i \in DOMAIN FilesOf(files, exts) : \E k \in DOMAIN files : FilesOf(files, exts)[i] = files[k]
<1>1. PICK n \in Nat : DOMAIN files = 1 .. n
  BY IsRowIsRow, RowDomain
<1>2. PICK q : q = SelectedFiles(<<>>, files, exts)
  OBVIOUS
<1>3. Folds("files", exts, <<>>, files, n, q)
  BY <1>1, <1>2, SelectedFilesSteps
<1>4. Selects("files", exts, files, n, 1 .. n)
  BY DEF Selects, Step
<1>5. TakenFrom(q, files, 1 .. n)
  BY <1>3, <1>4, FoldSelects
<1>6. FilesOf(files, exts) = q
  <2>1. FilesOf(files, exts) = SelectedFiles(<<>>, files, exts)
    BY Zenon DEF FilesOf, Selected, SelectedFiles
  <2>2. QED BY <1>2, <2>1
<1>7. QED BY <1>1, <1>5, <1>6 DEF TakenFrom

\* Two rows of members of a set, one behind the other.
LEMMA ConcatTakes ==
  ASSUME NEW q, Row(q), NEW r, Row(r), NEW S,
         \A i \in DOMAIN q : q[i] \in S, \A i \in DOMAIN r : r[i] \in S
  PROVE  Row(q \o r) /\ \A i \in DOMAIN (q \o r) : (q \o r)[i] \in S
<1>1. PICK n \in Nat : q = [i \in 1 .. n |-> q[i]]
  BY DEF Row
<1>2. PICK m \in Nat : r = [i \in 1 .. m |-> r[i]]
  BY DEF Row
<1>3. PICK t : t = q \o r
  OBVIOUS
<1>4. t = [i \in 1 .. n + m |-> IF i <= n THEN q[i] ELSE r[i - n]]
  BY <1>1, <1>2, <1>3, RowConcat
<1>5. t = [i \in 1 .. n + m |-> t[i]] /\ n + m \in Nat
  BY <1>4
<1>6. ASSUME NEW i \in DOMAIN t PROVE t[i] \in S
  <2>1. i \in 1 .. n + m /\ t[i] = IF i <= n THEN q[i] ELSE r[i - n]
    BY <1>4
  <2>2. CASE i <= n
    <3>1. i \in DOMAIN q
      BY <1>1, <2>1, <2>2
    <3>2. QED BY <2>1, <2>2, <3>1
  <2>3. CASE ~(i <= n)
    <3>1. i - n \in DOMAIN r
      BY <1>2, <2>1, <2>3
    <3>2. QED BY <2>1, <2>3, <3>1
  <2>4. QED BY <2>2, <2>3
<1>7. QED BY <1>3, <1>5, <1>6 DEF Row

\* The time scale in force one piece further on.
LEMMA ScaleMoves ==
  ASSUME NEW c, NEW f, NEW pieces, pieces = c.files[f].pieces, NEW m \in Nat, DOMAIN pieces = 1 .. m,
         NEW p \in 1 .. m
  PROVE  ScaleAt(c, f, p + 1) = IF pieces[p].k = "timescale" THEN pieces[p].scale ELSE ScaleAt(c, f, p)
<1>1. PICK now, next : /\ now = {q \in 1 .. m : q < p /\ pieces[q].k = "timescale"}
                       /\ next = {q \in 1 .. m : q < p + 1 /\ pieces[q].k = "timescale"}
  OBVIOUS
<1>2. ScaleAt(c, f, p + 1) = IF next = {} THEN Nil ELSE pieces[CHOOSE q \in next : \A r \in next : r <= q].scale
  BY <1>1 DEF ScaleAt
<1>3. ScaleAt(c, f, p) = IF now = {} THEN Nil ELSE pieces[CHOOSE q \in now : \A r \in now : r <= q].scale
  BY <1>1 DEF ScaleAt
<1>4. CASE pieces[p].k = "timescale"
  <2>1. p \in next /\ \A r \in next : r \in Nat /\ r <= p
    BY <1>1, <1>4
  <2>2. \A q \in next : (\A r \in next : r <= q) => q = p
    BY <2>1
  <2>3. (CHOOSE q \in next : \A r \in next : r <= q) = p
    BY <2>1, <2>2
  <2>4. QED BY <1>2, <1>4, <2>1, <2>3
<1>5. CASE pieces[p].k # "timescale"
  <2>1. next = now
    <3>1. \A q \in 1 .. m : (q < p + 1) <=> (q < p \/ q = p)
      OBVIOUS
    <3>2. QED BY <1>1, <1>5, <3>1
  <2>2. QED BY <1>2, <1>3, <1>5, <2>1
<1>6. QED BY <1>4, <1>5

\* No time scale is in force at the first piece of a file,
LEMMA ScaleStarts ==
  ASSUME NEW c, NEW f, NEW m \in Nat, DOMAIN c.files[f].pieces = 1 .. m
  PROVE  ScaleAt(c, f, 1) = Nil
<1>1. {q \in DOMAIN c.files[f].pieces : q < 1 /\ c.files[f].pieces[q].k = "timescale"} = {}
  OBVIOUS
<1>2. QED BY <1>1, Zenon DEF ScaleAt

\* and a file enters the queue whole.
LEMMA FileStarts ==
  ASSUME NEW c, IsProject(c), NEW f \in DOMAIN c.files, NEW first \in BOOLEAN
  PROVE  FileInQueue(c, c.files[f], first, Nil)
<1>1. PICK pieces : pieces = c.files[f].pieces
  OBVIOUS
<1>2. Row(pieces)
  BY <1>1, IsRowIsRow DEF IsProject
<1>3. PICK n \in Nat : pieces = [i \in 1 .. n |-> pieces[i]]
  BY <1>2 DEF Row
<1>4. DOMAIN pieces = 1 .. n
  BY <1>3
<1>5. Remains(pieces, pieces, 0)
  <2>1. pieces = [i \in 1 .. n |-> pieces[0 + i]] /\ 1 .. n = 1 .. 0 + n
    BY <1>3
  <2>2. QED BY <1>4, <2>1 DEF Remains
<1>6. ScaleAt(c, f, 0 + 1) = Nil
  BY <1>1, <1>4, ScaleStarts
<1>7. c.files[f] = [ext |-> c.files[f].ext, pieces |-> c.files[f].pieces]
  BY DEF IsProject
<1>8. QED BY <1>1, <1>5, <1>6, <1>7 DEF FileInQueue

\* The queue main starts with.
LEMMA QueueStarts ==
  ASSUME NEW c, IsProject(c)
  PROVE  QueueFollows(c, _validateArguments(c.files), Nil)
<1>1. PICK S : S = {c.files[f] : f \in DOMAIN c.files}
  OBVIOUS
<1>2. PICK v, a : v = FilesOf(c.files, {".v"}) /\ a = FilesOf(c.files, AmsExtensions)
  OBVIOUS
<1>3. IsRow(c.files)
  BY DEF IsProject
<1>4. Row(v) /\ \A i \in DOMAIN v : v[i] \in S
  BY <1>1, <1>2, <1>3, FilesOfProject
<1>5. Row(a) /\ \A i \in DOMAIN a : a[i] \in S
  BY <1>1, <1>2, <1>3, FilesOfProject
<1>6. PICK q : q = v \o a
  OBVIOUS
<1>7. Row(q) /\ \A i \in DOMAIN q : q[i] \in S
  BY <1>4, <1>5, <1>6, ConcatTakes
<1>8. ASSUME NEW k \in DOMAIN q PROVE FileInQueue(c, q[k], k = 1, Nil)
  <2>1. PICK f \in DOMAIN c.files : q[k] = c.files[f]
    BY <1>1, <1>7
  <2>2. QED BY <2>1, FileStarts
<1>9. _validateArguments(c.files) = q
  BY <1>2, <1>6 DEF _validateArguments
<1>10. QED BY <1>7, <1>8, <1>9 DEF QueueFollows

\* The file is at its end.
LEMMA NextFile ==
  ASSUME NEW c, IsProject(c), NEW q, NEW scale, QueueFollows(c, q, scale), q # <<>>
  PROVE  QueueFollows(c, Tail(q), Nil)
<1>1. PICK t : t = Tail(q)
  OBVIOUS
<1>2. Row(t) /\ \A i \in DOMAIN t : i + 1 \in DOMAIN q /\ t[i] = q[i + 1]
  BY <1>1, RowTail DEF QueueFollows
<1>3. ASSUME NEW k \in DOMAIN t PROVE FileInQueue(c, t[k], k = 1, Nil)
  <2>1. k \in Nat /\ k + 1 # 1 /\ k # 0
    <3>1. PICK n \in Nat : DOMAIN t = 1 .. n
      BY <1>2, RowDomain
    <3>2. QED BY <3>1
  <2>2. FileInQueue(c, t[k], FALSE, scale)
    BY <1>2, <2>1 DEF QueueFollows
  <2>3. PICK f \in DOMAIN c.files : Remains(t[k].pieces, c.files[f].pieces, 0)
    BY <2>2 DEF FileInQueue
  <2>4. PICK m \in Nat : DOMAIN c.files[f].pieces = 1 .. m
    BY IsRowIsRow, RowDomain DEF IsProject
  <2>5. ScaleAt(c, f, 0 + 1) = Nil
    BY <2>4, ScaleStarts
  <2>6. t[k] = [ext |-> t[k].ext, pieces |-> t[k].pieces]
    BY <2>2 DEF FileInQueue
  <2>7. QED BY <2>3, <2>5, <2>6 DEF FileInQueue
<1>4. QED BY <1>1, <1>2, <1>3 DEF QueueFollows

\* The parser has read a piece of the file.
LEMMA NextPiece ==
  ASSUME NEW c, IsProject(c), NEW q, NEW scale, QueueFollows(c, q, scale), q # <<>>, Head(q).pieces # <<>>,
         NEW piece, piece = Head(Head(q).pieces), NEW r, r = [q EXCEPT ![1].pieces = Tail(@)]
  PROVE  /\ IsPiece(piece)
         /\ piece.k = "timescale" => QueueFollows(c, r, piece.scale)
         /\ piece.k = "module" => QueueFollows(c, r, scale) /\ HasScaleOfPlace(c, piece.name, scale)
<1>1. Row(q) /\ Head(q) = q[1] /\ 1 \in DOMAIN q
  BY RowTail DEF QueueFollows
<1>2. PICK file : file = q[1]
  OBVIOUS
<1>3. FileInQueue(c, file, TRUE, scale)
  BY <1>1, <1>2 DEF QueueFollows
<1>4. file = [ext |-> file.ext, pieces |-> file.pieces]
  BY <1>3 DEF FileInQueue
<1>5. PICK f \in DOMAIN c.files, p \in Nat : Remains(file.pieces, c.files[f].pieces, p) /\ scale = ScaleAt(c, f, p + 1)
  BY <1>3 DEF FileInQueue
<1>6. PICK pieces, left : pieces = c.files[f].pieces /\ left = file.pieces
  OBVIOUS
<1>7. PICK n \in Nat : DOMAIN pieces = 1 .. p + n /\ left = [i \in 1 .. n |-> pieces[p + i]]
  BY <1>5, <1>6 DEF Remains
<1>8. left # <<>>
  BY <1>1, <1>2, <1>6
<1>9. PICK e : e = Tail(left)
  OBVIOUS
<1>10. /\ n # 0 /\ piece = pieces[p + 1] /\ p + 1 \in DOMAIN pieces
       /\ e = [i \in 1 .. n - 1 |-> pieces[p + 1 + i]]
  <2>1. PICK S : S = {pieces[p + i] : i \in 1 .. n}
    OBVIOUS
  <2>2. left = [i \in 1 .. n |-> left[i]] /\ \A i \in 1 .. n : left[i] \in S
    BY <1>7, <2>1
  <2>3. left \in Seq(S) /\ Len(left) = n
    BY <2>2, RowIsSeq
  <2>4. /\ e \in Seq(S) /\ Len(e) = n - 1 /\ Head(left) = left[1]
        /\ \A i \in 1 .. n - 1 : e[i] = left[i + 1]
    BY <1>8, <1>9, <2>3, HeadTailProperties
  <2>5. n # 0
    BY <1>8, <2>3, EmptySeq
  <2>6. e = [i \in 1 .. n - 1 |-> e[i]]
    BY <2>4
  <2>7. \A i \in 1 .. n - 1 : e[i] = pieces[p + 1 + i]
    <3>1. ASSUME NEW i \in 1 .. n - 1 PROVE e[i] = pieces[p + 1 + i]
      <4>1. i + 1 \in 1 .. n /\ p + (i + 1) = p + 1 + i
        OBVIOUS
      <4>2. QED BY <1>7, <2>4, <4>1
    <3>2. QED BY <3>1
  <2>8. piece = pieces[p + 1]
    <3>1. piece = Head(left) /\ 1 \in 1 .. n
      BY <1>1, <1>2, <1>6, <2>5
    <3>2. QED BY <1>7, <2>4, <3>1
  <2>9. p + 1 \in 1 .. p + n
    BY <2>5
  <2>10. QED BY <1>7, <2>5, <2>6, <2>7, <2>8, <2>9
<1>11. IsPiece(piece)
  BY <1>6, <1>10 DEF IsProject
<1>12. Remains(e, pieces, p + 1)
  <2>1. n - 1 \in Nat /\ (p + 1) + (n - 1) = p + n
    BY <1>10
  <2>2. QED BY <1>7, <1>10, <2>1 DEF Remains
<1>13. PICK rest : rest = [file EXCEPT !.pieces = e]
  OBVIOUS
<1>14. rest = [ext |-> file.ext, pieces |-> e]
  BY <1>4, <1>13
<1>15. /\ Row(r) /\ DOMAIN r = DOMAIN q /\ r[1] = rest
       /\ \A k \in DOMAIN q : k # 1 => r[k] = q[k]
  <2>1. r = [q EXCEPT ![1] = rest]
    BY <1>1, <1>2, <1>6, <1>9, <1>13
  <2>2. PICK m \in Nat : q = [i \in 1 .. m |-> q[i]]
    BY <1>1 DEF Row
  <2>3. r = [i \in 1 .. m |-> r[i]]
    BY <2>1, <2>2
  <2>4. QED BY <1>1, <2>1, <2>3 DEF Row
<1>16. ASSUME NEW next, next = ScaleAt(c, f, p + 2) PROVE QueueFollows(c, r, next)
  <2>1. FileInQueue(c, rest, TRUE, next)
    <3>1. (p + 1) + 1 = p + 2 /\ p + 1 \in Nat
      OBVIOUS
    <3>2. rest.pieces = e /\ rest = [ext |-> rest.ext, pieces |-> rest.pieces]
      BY <1>14
    <3>3. QED BY <1>6, <1>12, <1>16, <3>1, <3>2 DEF FileInQueue
  <2>2. ASSUME NEW k \in DOMAIN r PROVE FileInQueue(c, r[k], k = 1, next)
    <3>1. CASE k = 1
      BY <1>15, <2>1, <3>1
    <3>2. CASE k # 1
      <4>1. FileInQueue(c, q[k], FALSE, scale)
        BY <1>15, <3>2 DEF QueueFollows
      <4>2. FileInQueue(c, q[k], FALSE, next)
        BY <4>1 DEF FileInQueue
      <4>3. QED BY <1>15, <3>2, <4>2
    <3>3. QED BY <3>1, <3>2
  <2>3. QED BY <1>15, <2>2 DEF QueueFollows
<1>17. ScaleAt(c, f, p + 2) = IF piece.k = "timescale" THEN piece.scale ELSE scale
  <2>1. ScaleAt(c, f, (p + 1) + 1) = IF pieces[p + 1].k = "timescale" THEN pieces[p + 1].scale ELSE ScaleAt(c, f, p + 1)
    <3>1. PICK m, t : m = p + n /\ t = p + 1
      OBVIOUS
    <3>2. m \in Nat /\ DOMAIN pieces = 1 .. m /\ t \in 1 .. m
      BY <1>7, <1>10, <3>1
    <3>3. ScaleAt(c, f, t + 1) = IF pieces[t].k = "timescale" THEN pieces[t].scale ELSE ScaleAt(c, f, t)
      BY <1>6, <3>2, ScaleMoves
    <3>4. QED BY <3>1, <3>3
  <2>2. (p + 1) + 1 = p + 2
    OBVIOUS
  <2>3. QED BY <1>5, <1>10, <2>1, <2>2
<1>18. piece.k = "module" => HasScaleOfPlace(c, piece.name, scale)
  <2>1. SUFFICES ASSUME piece.k = "module" PROVE HasScaleOfPlace(c, piece.name, scale)
    OBVIOUS
  <2>2. <<f, p + 1>> \in ModulePlaces(c)
    BY <1>6, <1>10, <2>1 DEF ModulePlaces
  <2>3. PieceAt(c, <<f, p + 1>>) = piece
    BY <1>6, <1>10 DEF PieceAt
  <2>4. QED BY <1>5, <2>2, <2>3 DEF HasScaleOfPlace
<1>19. QED BY <1>11, <1>16, <1>17, <1>18

\* The time scale in force where the only module of a name is written.
LEMMA ScaleOfPlace ==
  ASSUME IsProject(cLine), NEW n, NEW scale, HasScaleOfPlace(cLine, n, scale)
  PROVE  ScaleOf(n) = scale
<1>1. PICK at \in ModulePlaces(cLine) : PieceAt(cLine, at).name = n /\ scale = ScaleAt(cLine, at[1], at[2])
  BY DEF HasScaleOfPlace
<1>2. \A x \in ModulePlaces(cLine) : PieceAt(cLine, x).name = n => x = at
  BY <1>1 DEF IsProject
<1>3. (CHOOSE x \in ModulePlaces(cLine) : PieceAt(cLine, x).name = n) = at
  BY <1>1, <1>2
<1>4. QED BY <1>1, <1>3, Zenon DEF ScaleOf

-------------------------------------------------------------------------------
(* The steps.                                                              *)

\* What replaces a unit leaves it its time scale.
LEMMA UnitReplaced ==
  ASSUME NEW c, NEW us, UnitsFollow(c, us), NEW n \in DOMAIN us, NEW w, w.scale = us[n].scale,
         NEW ws, ws = [us EXCEPT ![n] = w]
  PROVE  UnitsFollow(c, ws) /\ DOMAIN ws = DOMAIN us
<1>1. DOMAIN ws = DOMAIN us /\ ws = [m \in DOMAIN ws |-> ws[m]]
  OBVIOUS
<1>2. ASSUME NEW m \in DOMAIN ws PROVE HasScaleOfPlace(c, m, ws[m].scale)
  <2>1. ws[m].scale = us[m].scale
    OBVIOUS
  <2>2. QED BY <1>1, <2>1 DEF UnitsFollow
<1>3. QED BY <1>1, <1>2 DEF UnitsFollow

\* A visit of one unit moves the pass on by that unit.
LEMMA UnitVisited ==
  ASSUME NEW us, NEW pass, NEW visited, NEW declared, Progress(us, pass, visited, declared),
         NEW n \in DOMAIN us, NEW w, NEW later, declared => later,
         pass \in {"step2", "mark", "written"} => Finished(w, later),
         pass \notin {"step2", "mark", "written"} => PlainUnit(w),
         NEW ws, ws = [us EXCEPT ![n] = w]
  PROVE  Progress(ws, pass, visited \cup {n}, later)
<1>1. ASSUME NEW m \in DOMAIN ws
      PROVE  IF pass \in {"mark", "written"} \/ (pass = "step2" /\ m \in visited \cup {n}) THEN Finished(ws[m], later)
             ELSE PlainUnit(ws[m])
  <2>1. CASE m = n
    <3>1. ws[m] = w
      BY <2>1
    <3>2. QED BY <2>1, <3>1
  <2>2. CASE m # n
    <3>1. m \in DOMAIN us /\ ws[m] = us[m] /\ (m \in visited \cup {n} <=> m \in visited)
      BY <2>2
    <3>2. IF pass \in {"mark", "written"} \/ (pass = "step2" /\ m \in visited) THEN Finished(us[m], declared)
          ELSE PlainUnit(us[m])
      BY <3>1, Zenon DEF Progress
    <3>3. Finished(us[m], declared) => Finished(us[m], later)
      BY Zenon DEF Finished
    <3>4. QED BY <3>1, <3>2, <3>3, Zenon
  <2>3. QED BY <2>1, <2>2
<1>2. QED BY <1>1, Zenon DEF Progress

\* A mark changes nothing else of a unit.
LEMMA MarkedUnit ==
  ASSUME NEW u, NEW declared, Finished(u, declared), NEW x, NEW w, w = [u EXCEPT !.ams = x]
  PROVE  Finished(w, declared) /\ w.scale = u.scale
<1>1. w = [name |-> u.name, scale |-> u.scale, tps |-> u.tps, ports |-> u.ports, insts |-> u.insts, subs |-> u.subs,
           calls |-> u.calls, scopes |-> u.scopes, ams |-> x]
  BY DEF Finished, IsUnit
<1>2. w.scale = u.scale /\ w.scopes = u.scopes
  BY <1>1
<1>3. IsUnit(w)
  BY <1>1 DEF IsUnit
<1>4. \A s, v : IsTime(w, s, v) <=> IsTime(u, s, v)
  BY <1>2, Zenon DEF IsTime
<1>5. \A s, v : IsScaled(u, s, v) => IsScaled(w, s, v)
  BY <1>2, <1>4, Zenon DEF IsScaled
<1>6. UnitIsScaled(u) => UnitIsScaled(w)
  BY <1>2, <1>5, Zenon DEF UnitIsScaled
<1>7. HasTimes(w) <=> HasTimes(u)
  BY <1>2, Zenon DEF HasTimes
<1>8. QED BY <1>2, <1>3, <1>6, <1>7, Zenon DEF Finished

\* The invariant holds before the first file is parsed,
LEMMA InitInv == Init => IInv
<1>1. SUFFICES ASSUME Init PROVE IInv
  OBVIOUS
<1>2. cLine \in CommandLines /\ stage = "parse" /\ done = {} /\ timescale = Nil
  BY <1>1 DEF Init
<1>3. QueueFollows(cLine, queue, timescale)
  <2>1. IsProject(cLine)
    BY <1>2, CommandLinesAssumption
  <2>2. queue = _validateArguments(cLine.files)
    BY <1>1 DEF Init
  <2>3. QED BY <1>2, <2>1, <2>2, QueueStarts
<1>4. DOMAIN units = {} /\ units = [n \in DOMAIN units |-> units[n]]
  BY <1>1 DEF Init
<1>5. UnitsFollow(cLine, units)
  BY <1>4 DEF UnitsFollow
<1>6. Progress(units, stage, done, defaultScale)
  BY <1>4, Zenon DEF Progress
<1>7. QED BY <1>2, <1>3, <1>5, <1>6 DEF IInv

\* a timescale directive keeps it,
LEMMA SetTimescaleKeeps == IInv /\ SetTimescale => IInv'
<1>1. SUFFICES ASSUME IInv, SetTimescale PROVE IInv'
  OBVIOUS
<1>2. /\ stage = "parse" /\ queue # <<>> /\ Head(queue).pieces # <<>>
      /\ Piece = Head(Head(queue).pieces) /\ Piece.k = "timescale" /\ timescale' = Piece.scale
      /\ queue' = [queue EXCEPT ![1].pieces = Tail(@)]
  BY <1>1 DEF SetTimescale, MorePieces, Advance, Piece
<1>3. cLine' = cLine /\ units' = units /\ stage' = stage /\ done' = done /\ defaultScale' = defaultScale
  BY <1>1 DEF SetTimescale
<1>4. IsProject(cLine)
  BY <1>1, CommandLinesAssumption DEF IInv
<1>5. QueueFollows(cLine, queue, timescale)
  BY <1>1, <1>2 DEF IInv
<1>6. QueueFollows(cLine, queue', timescale')
  <2>1. PICK r, piece : r = queue' /\ piece = Piece
    OBVIOUS
  <2>2. QueueFollows(cLine, r, piece.scale)
    BY <1>2, <1>4, <1>5, <2>1, NextPiece
  <2>3. QED BY <1>2, <2>1, <2>2
<1>7. QED BY <1>1, <1>2, <1>3, <1>6 DEF IInv

\* so does a module,
LEMMA ParseModuleKeeps == IInv /\ ParseModule => IInv'
<1>1. SUFFICES ASSUME IInv, ParseModule PROVE IInv'
  OBVIOUS
<1>2. PICK piece, us, ws, scale : piece = Piece /\ us = units /\ ws = units' /\ scale = timescale
  OBVIOUS
<1>3. /\ stage = "parse" /\ queue # <<>> /\ Head(queue).pieces # <<>>
      /\ piece = Head(Head(queue).pieces) /\ piece.k = "module"
      /\ queue' = [queue EXCEPT ![1].pieces = Tail(@)]
      /\ ws = [n \in DOMAIN us \cup {piece.name} |-> IF n = piece.name THEN ParseUnit(piece, scale) ELSE us[n]]
  BY <1>1, <1>2 DEF ParseModule, MorePieces, Advance, Piece
<1>4. /\ cLine' = cLine /\ timescale' = timescale /\ stage' = stage /\ done' = done /\ defaultScale' = defaultScale
  BY <1>1 DEF ParseModule
<1>5. IsProject(cLine)
  BY <1>1, CommandLinesAssumption DEF IInv
<1>6. QueueFollows(cLine, queue, scale)
  BY <1>1, <1>2, <1>3 DEF IInv
<1>7. IsPiece(piece) /\ QueueFollows(cLine, queue', scale) /\ HasScaleOfPlace(cLine, piece.name, scale)
  <2>1. PICK r : r = queue'
    OBVIOUS
  <2>2. IsPiece(piece) /\ QueueFollows(cLine, r, scale) /\ HasScaleOfPlace(cLine, piece.name, scale)
    BY <1>3, <1>5, <1>6, <2>1, NextPiece
  <2>3. QED BY <2>1, <2>2
<1>8. PICK u : u = ParseUnit(piece, scale)
  OBVIOUS
<1>9. PlainUnit(u) /\ u.scale = scale
  BY <1>3, <1>7, <1>8, ParsedUnit
<1>10. UnitsFollow(cLine, us) /\ Progress(us, "parse", done, defaultScale)
  BY <1>1, <1>2, <1>3 DEF IInv
<1>11. /\ DOMAIN ws = DOMAIN us \cup {piece.name} /\ ws = [n \in DOMAIN ws |-> ws[n]]
       /\ \A n \in DOMAIN ws : ws[n] = u \/ (n \in DOMAIN us /\ ws[n] = us[n])
       /\ \A n \in DOMAIN ws : n # piece.name => n \in DOMAIN us /\ ws[n] = us[n]
       /\ ws[piece.name] = u
  BY <1>3, <1>8
<1>12. UnitsFollow(cLine, ws)
  <2>1. ASSUME NEW n \in DOMAIN ws PROVE HasScaleOfPlace(cLine, n, ws[n].scale)
    <3>1. CASE n = piece.name
      BY <1>7, <1>9, <1>11, <3>1
    <3>2. CASE n # piece.name
      BY <1>10, <1>11, <3>2 DEF UnitsFollow
    <3>3. QED BY <3>1, <3>2
  <2>2. QED BY <1>11, <2>1 DEF UnitsFollow
<1>13. Progress(ws, "parse", done, defaultScale)
  <2>1. \A n \in DOMAIN us : PlainUnit(us[n])
    BY <1>10 DEF Progress
  <2>2. \A n \in DOMAIN ws : PlainUnit(ws[n])
    BY <1>9, <1>11, <2>1
  <2>3. QED BY <2>2 DEF Progress
<1>14. QED BY <1>1, <1>2, <1>3, <1>4, <1>7, <1>12, <1>13 DEF IInv

\* the end of a file,
LEMMA EndOfFileKeeps == IInv /\ EndOfFile => IInv'
<1>1. SUFFICES ASSUME IInv, EndOfFile PROVE IInv'
  OBVIOUS
<1>2. /\ stage = "parse" /\ queue # <<>> /\ timescale' = Nil /\ queue' = Tail(queue)
      /\ cLine' = cLine /\ units' = units /\ stage' = stage /\ done' = done /\ defaultScale' = defaultScale
  BY <1>1 DEF EndOfFile
<1>3. IsProject(cLine)
  BY <1>1, CommandLinesAssumption DEF IInv
<1>4. QueueFollows(cLine, queue', timescale')
  BY <1>1, <1>2, <1>3, NextFile DEF IInv
<1>5. QED BY <1>1, <1>2, <1>4 DEF IInv

\* the end of the parsing,
LEMMA buildSystemObjectKeeps == IInv /\ buildSystemObject => IInv'
<1>1. SUFFICES ASSUME IInv, buildSystemObject PROVE IInv'
  OBVIOUS
<1>2. /\ stage = "parse" /\ stage' \in {"raw", "step1"}
      /\ cLine' = cLine /\ units' = units /\ done' = done /\ defaultScale' = defaultScale
  BY <1>1 DEF buildSystemObject
<1>3. PICK us, pass : us = units /\ pass = stage'
  OBVIOUS
<1>4. Progress(us, "parse", done, defaultScale)
  BY <1>1, <1>2, <1>3 DEF IInv
<1>5. Progress(us, pass, done, defaultScale)
  BY <1>2, <1>3, <1>4 DEF Progress
<1>6. QED BY <1>1, <1>2, <1>3, <1>5 DEF IInv

\* the visit of a unit in step 1,
LEMMA performStep1RefinementsKeeps == IInv /\ performStep1Refinements => IInv'
<1>1. SUFFICES ASSUME IInv, performStep1Refinements PROVE IInv'
  OBVIOUS
<1>2. PICK us, ws, declared : us = units /\ ws = units' /\ declared = defaultScale
  OBVIOUS
<1>v. PICK n \in DOMAIN us : \E first : /\ ws = [us EXCEPT ![n] = visitView(@, libs, us, first)]
                                     /\ done' = done \cup {n}
  BY <1>1, <1>2 DEF performStep1Refinements
<1>3. PICK first : /\ ws = [us EXCEPT ![n] = visitView(@, libs, us, first)]
                   /\ done' = done \cup {n}
  BY <1>v
<1>4. /\ stage = "step1" /\ cLine' = cLine /\ queue' = queue /\ timescale' = timescale /\ stage' = stage
      /\ defaultScale' = defaultScale
  BY <1>1 DEF performStep1Refinements
<1>5. UnitsFollow(cLine, us) /\ Progress(us, "step1", done, declared)
  BY <1>1, <1>2, <1>4 DEF IInv
<1>6. PICK u, w : u = us[n] /\ w = visitView(u, libs, us, first)
  OBVIOUS
<1>7. PlainUnit(u)
  BY <1>5, <1>6 DEF Progress
<1>8. PlainUnit(w) /\ w.scale = u.scale
  <2>1. Keeps(u, w)
    BY <1>6, <1>7, ViewKeeps
  <2>2. QED BY <2>1 DEF Keeps
<1>9. ws = [us EXCEPT ![n] = w]
  BY <1>3, <1>6
<1>10. UnitsFollow(cLine, ws)
  BY <1>5, <1>6, <1>8, <1>9, UnitReplaced
<1>11. Progress(ws, "step1", done \cup {n}, declared)
  <2>1. PICK pass, visited, later : pass = "step1" /\ visited = done /\ later = declared
    OBVIOUS
  <2>2. Progress(us, pass, visited, declared)
    BY <1>5, <2>1
  <2>3. /\ pass \in {"step2", "mark", "written"} => Finished(w, later)
        /\ pass \notin {"step2", "mark", "written"} => PlainUnit(w)
    BY <1>8, <2>1
  <2>4. declared => later
    BY <2>1, Zenon
  <2>5. Progress(ws, pass, visited \cup {n}, later)
    BY <1>9, <2>2, <2>3, <2>4, UnitVisited, Zenon
  <2>6. QED BY <2>1, <2>5
<1>12. QED BY <1>1, <1>2, <1>3, <1>4, <1>10, <1>11 DEF IInv

\* the one in step 2, which scales it,
LEMMA performStep2RefinementsKeeps == IInv /\ performStep2Refinements => IInv'
<1>1. SUFFICES ASSUME IInv, performStep2Refinements PROVE IInv'
  OBVIOUS
<1>2. PICK us, ws, declared, later : us = units /\ ws = units' /\ declared = defaultScale /\ later = defaultScale'
  OBVIOUS
<1>3. PICK n \in DOMAIN us :
        /\ n \notin done
        /\ ws = [us EXCEPT ![n].scopes = [s \in DOMAIN @ |-> ScaleScope(us[n], s)]]
        /\ defaultScale' = (defaultScale \/ _checkViewTimeScale(us[n]))
        /\ done' = done \cup {n}
  BY <1>1, <1>2 DEF performStep2Refinements, MayVisit
<1>4. stage = "step2" /\ cLine' = cLine /\ queue' = queue /\ timescale' = timescale /\ stage' = stage
  BY <1>1 DEF performStep2Refinements
<1>5. UnitsFollow(cLine, us) /\ Progress(us, "step2", done, declared)
  BY <1>1, <1>2, <1>4 DEF IInv
<1>6. PICK u, w : u = us[n] /\ w = [u EXCEPT !.scopes = [s \in DOMAIN u.scopes |-> ScaleScope(u, s)]]
  OBVIOUS
<1>7. PlainUnit(u)
  BY <1>3, <1>5, <1>6 DEF Progress
<1>8. IsUnit(w) /\ w.scale = u.scale /\ w.scopes = [s \in DOMAIN u.scopes |-> ScaleScope(u, s)]
  <2>1. PICK scopes : scopes = [s \in DOMAIN u.scopes |-> ScaleScope(u, s)]
    OBVIOUS
  <2>2. w = [name |-> u.name, scale |-> u.scale, tps |-> u.tps, ports |-> u.ports, insts |-> u.insts, subs |-> u.subs,
             calls |-> u.calls, scopes |-> scopes, ams |-> u.ams]
    BY <1>6, <1>7, <2>1 DEF PlainUnit
  <2>3. IsUnit(w)
    BY <2>2 DEF IsUnit
  <2>4. w.scale = u.scale /\ w.scopes = scopes
    BY <2>2
  <2>5. QED BY <2>1, <2>3, <2>4
<1>9. UnitIsScaled(w) /\ (HasTimes(w) => HasTimes(u))
  <2>1. /\ DOMAIN w.scopes = DOMAIN u.scopes /\ w.scopes = [s \in DOMAIN w.scopes |-> w.scopes[s]]
        /\ \A s \in DOMAIN u.scopes : w.scopes[s] = ScaleScope(u, s)
    BY <1>8
  <2>2. QED BY <1>7, <1>8, <2>1, ScaledUnit
<1>10. (declared => later) /\ (HasTimes(u) /\ u.scale = Nil => later)
  BY <1>2, <1>3, <1>6, Zenon DEF _checkViewTimeScale
<1>11. Finished(w, later)
  BY <1>8, <1>9, <1>10, Zenon DEF Finished
<1>12. ws = [us EXCEPT ![n] = w]
  <2>1. ws = [us EXCEPT ![n] = [us[n] EXCEPT !.scopes = [s \in DOMAIN us[n].scopes |-> ScaleScope(us[n], s)]]]
    BY <1>3
  <2>2. QED BY <1>6, <2>1
<1>13. UnitsFollow(cLine, ws)
  BY <1>5, <1>6, <1>8, <1>12, UnitReplaced
<1>14. Progress(ws, "step2", done \cup {n}, later)
  <2>1. PICK pass, visited : pass = "step2" /\ visited = done
    OBVIOUS
  <2>2. Progress(us, pass, visited, declared)
    BY <1>5, <2>1
  <2>3. /\ pass \in {"step2", "mark", "written"} => Finished(w, later)
        /\ pass \notin {"step2", "mark", "written"} => PlainUnit(w)
    BY <1>11, <2>1
  <2>4. Progress(ws, pass, visited \cup {n}, later)
    BY <1>10, <1>12, <2>2, <2>3, UnitVisited, Zenon
  <2>5. QED BY <2>1, <2>4
<1>15. QED BY <1>1, <1>2, <1>3, <1>4, <1>13, <1>14 DEF IInv

\* the one that marks it,
LEMMA markAmsLanguageKeeps == IInv /\ markAmsLanguage => IInv'
<1>1. SUFFICES ASSUME IInv, markAmsLanguage PROVE IInv'
  OBVIOUS
<1>2. PICK us, ws, declared : us = units /\ ws = units' /\ declared = defaultScale
  OBVIOUS
<1>3. PICK n \in DOMAIN us : ws = [us EXCEPT ![n].ams = _checkAmsSymbol(us[n])] /\ done' = done \cup {n}
  BY <1>1, <1>2, Zenon DEF markAmsLanguage
<1>4. /\ stage = "mark" /\ cLine' = cLine /\ queue' = queue /\ timescale' = timescale /\ stage' = stage
      /\ defaultScale' = defaultScale
  BY <1>1 DEF markAmsLanguage
<1>5. UnitsFollow(cLine, us) /\ Progress(us, "mark", done, declared)
  BY <1>1, <1>2, <1>4 DEF IInv
<1>6. PICK u, x, w : u = us[n] /\ x = _checkAmsSymbol(u) /\ w = [u EXCEPT !.ams = x]
  OBVIOUS
<1>7. Finished(u, declared)
  BY <1>5, <1>6, Zenon DEF Progress
<1>8. Finished(w, declared) /\ w.scale = u.scale
  BY <1>6, <1>7, MarkedUnit
<1>9. ws = [us EXCEPT ![n] = w]
  BY <1>3, <1>6, Zenon
<1>10. UnitsFollow(cLine, ws)
  BY <1>5, <1>6, <1>8, <1>9, UnitReplaced
<1>11. Progress(ws, "mark", done \cup {n}, declared)
  <2>1. PICK pass, visited, later : pass = "mark" /\ visited = done /\ later = declared
    OBVIOUS
  <2>2. Progress(us, pass, visited, declared)
    BY <1>5, <2>1
  <2>3. /\ pass \in {"step2", "mark", "written"} => Finished(w, later)
        /\ pass \notin {"step2", "mark", "written"} => PlainUnit(w)
    BY <1>8, <2>1
  <2>4. declared => later
    BY <2>1, Zenon
  <2>5. Progress(ws, pass, visited \cup {n}, later)
    BY <1>9, <2>2, <2>3, <2>4, UnitVisited, Zenon
  <2>6. QED BY <2>1, <2>5
<1>12. QED BY <1>1, <1>2, <1>3, <1>4, <1>10, <1>11 DEF IInv

\* the start of the next pass,
LEMMA NextPassKeeps == IInv /\ NextPass => IInv'
<1>1. SUFFICES ASSUME IInv, NextPass PROVE IInv'
  OBVIOUS
<1>2. PICK us, pass, next, declared : us = units /\ pass = stage /\ next = stage' /\ declared = defaultScale
  OBVIOUS
<1>3. /\ done = DOMAIN us /\ done' = {} /\ cLine' = cLine /\ units' = units /\ defaultScale' = defaultScale
      /\ pass \in {"step1", "step2", "mark"} /\ next = IF pass = "step1" THEN "step2" ELSE next
      /\ pass # "step1" => next \in {"mark", "written"}
  BY <1>1, <1>2 DEF NextPass
<1>4. Progress(us, pass, done, declared)
  BY <1>1, <1>2 DEF IInv
<1>5. Progress(us, next, {}, declared)
  <2>1. CASE pass = "step1"
    <3>1. \A n \in DOMAIN us : PlainUnit(us[n])
      BY <1>4, <2>1 DEF Progress
    <3>2. next = "step2"
      BY <1>3, <2>1
    <3>3. QED BY <3>1, <3>2 DEF Progress
  <2>2. CASE pass # "step1"
    <3>1. \A n \in DOMAIN us : Finished(us[n], declared)
      BY <1>3, <1>4, <2>2 DEF Progress
    <3>2. next \in {"mark", "written"}
      BY <1>3, <2>2
    <3>3. QED BY <3>1, <3>2 DEF Progress
  <2>3. QED BY <2>1, <2>2
<1>6. next \in {"step2", "mark", "written"}
  BY <1>3
<1>7. QED BY <1>1, <1>2, <1>3, <1>5, <1>6 DEF IInv

\* and a step that changes nothing.
LEMMA StutterKeeps == IInv /\ UNCHANGED vars => IInv'
BY DEF IInv, vars

-------------------------------------------------------------------------------

\* When the file is written every unit has been scaled.
LEMMA InvMeansScaled == IInv => DelaysAreScaled
<1>1. SUFFICES ASSUME IInv, stage \in {"mark", "written"}, NEW n \in DOMAIN units
               PROVE  LET u == units[n]
                          scale == IF ScaleOf(n) = Nil THEN DefaultScale ELSE ScaleOf(n)
                          Scaled(s, v) == v.scales = IF v = NoValue \/ IsTime(u, s, v) THEN <<>> ELSE <<scale>>
                      IN  /\ \A s \in DOMAIN u.scopes :
                               /\ \A a \in ToSet(u.scopes[s].acts) : Scaled(s, a.delay)
                               /\ \A t \in ToSet(u.scopes[s].tables) : Scaled(s, t.delay)
                               /\ \A d \in ToSet(u.scopes[s].decls) :
                                    IF d.type = Named("time") THEN Scaled(s, d.val) ELSE d.val.scales = <<>>
                          /\ HasTimes(u) /\ ScaleOf(n) = Nil => defaultScale
  BY Zenon DEF DelaysAreScaled
<1>2. PICK u : u = units[n]
  OBVIOUS
<1>3. ScaleOf(n) = u.scale
  <2>1. HasScaleOfPlace(cLine, n, u.scale)
    BY <1>1, <1>2 DEF IInv, UnitsFollow
  <2>2. IsProject(cLine)
    BY <1>1, CommandLinesAssumption DEF IInv
  <2>3. QED BY <2>1, <2>2, ScaleOfPlace
<1>4. Finished(u, defaultScale)
  BY <1>1, <1>2, Zenon DEF IInv, Progress
<1>5. \A s, v : IsScaled(u, s, v) <=>
        v.scales = IF v = NoValue \/ IsTime(u, s, v) THEN <<>>
                   ELSE <<IF ScaleOf(n) = Nil THEN DefaultScale ELSE ScaleOf(n)>>
  BY <1>3 DEF IsScaled
<1>6. \A s \in DOMAIN u.scopes :
        /\ \A a \in ToSet(u.scopes[s].acts) : IsScaled(u, s, a.delay)
        /\ \A t \in ToSet(u.scopes[s].tables) : IsScaled(u, s, t.delay)
        /\ \A d \in ToSet(u.scopes[s].decls) :
             IF d.type = Named("time") THEN IsScaled(u, s, d.val) ELSE d.val.scales = <<>>
  BY <1>4, Zenon DEF Finished, UnitIsScaled
<1>7. HasTimes(u) /\ ScaleOf(n) = Nil => defaultScale
  BY <1>3, <1>4, Zenon DEF Finished
<1>8. QED BY <1>2, <1>5, <1>6, <1>7, Zenon

\* After step 2 every delay of every unit of every project has been scaled
\* once, by the time scale in force where its module is written or by the
\* default one, which the system declares if a unit needs it.
THEOREM DelaysScaledOnce == Spec => []DelaysAreScaled
<1>1. Init => IInv
  BY InitInv
<1>2. IInv /\ [Next]_vars => IInv'
  BY SetTimescaleKeeps, ParseModuleKeeps, EndOfFileKeeps, buildSystemObjectKeeps, performStep1RefinementsKeeps,
     performStep2RefinementsKeeps, markAmsLanguageKeeps, NextPassKeeps, StutterKeeps DEF Next
<1>3. IInv => DelaysAreScaled
  BY InvMeansScaled
<1>4. QED BY <1>1, <1>2, <1>3, PTL DEF Spec
-------------------------------------------------------------------------------
(* The marks of the AMS language.                                          *)

\* A unit that declares something of the AMS language or has an analog process.
OwnAms(u) ==
  \/ \E d \in ToSet(u.ports) : d.type.of # Nil
  \/ \E s \in DOMAIN u.scopes : \/ \E d \in ToSet(u.scopes[s].decls) : d.type.of # Nil
                                \/ \E t \in ToSet(u.scopes[s].tables) : t.k = "analog"

InstancesIn(u, found) == \E i \in DOMAIN u.insts : u.insts[i].unit \in found

Marked(us) == {n \in DOMAIN us : us[n].ams}

\* found has every unit of the AMS language and every unit that instantiates
\* one of its members.
Closed(us, found) == \A n \in DOMAIN us : OwnAms(us[n]) \/ InstancesIn(us[n], found) => n \in found

\* The marks are the least closed set when the file is written; a project
\* without Verilog-AMS files has none, and the system is marked when a unit is.
MarksAreLeast ==
  stage = "written" =>
    /\ libs => /\ Closed(units, Marked(units))
               /\ \A found \in SUBSET DOMAIN units : Closed(units, found) => Marked(units) \subseteq found
    /\ ~libs => Marked(units) = {}
    /\ systemAms <=> Marked(units) # {}

\* The visited units have the marks they end with, and no other is marked.
MarksFollow(us, visited, sys) ==
  /\ visited \subseteq DOMAIN us /\ Marked(us) \subseteq visited
  /\ \A n \in visited : Instantiated(us[n]) \subseteq visited
  /\ \A n \in visited : n \in Marked(us) <=> OwnAms(us[n]) \/ InstancesIn(us[n], Marked(us))
  /\ \A found \in SUBSET DOMAIN us : Closed(us, found) => Marked(us) \subseteq found
  /\ sys <=> Marked(us) # {}

\* The visit of unit n after the visited ones: x is its mark, ws the units and
\* later the mark of the system after it.
IsVisit(us, visited, sys, n, x, ws, later) ==
  /\ MarksFollow(us, visited, sys) /\ n \in DOMAIN us /\ n \notin visited
  /\ Instantiated(us[n]) \subseteq visited /\ IsUnit(us[n])
  /\ x <=> OwnAms(us[n]) \/ InstancesIn(us[n], Marked(us))
  /\ ws = [us EXCEPT ![n] = [us[n] EXCEPT !.ams = x]]
  /\ later <=> sys \/ x

MarkInv ==
  /\ stage = "mark" => libs
  /\ stage \notin {"mark", "written"} \/ ~libs => ~systemAms /\ Marked(units) = {}
  /\ stage = "mark" => MarksFollow(units, done, systemAms)
  /\ stage = "written" /\ libs => MarksFollow(units, DOMAIN units, systemAms)

\* What _checkAmsSymbol finds in a unit whose instances are units of the project.
LEMMA CheckedSymbols ==
  ASSUME NEW u, Instantiated(u) \subseteq DOMAIN units
  PROVE  _checkAmsSymbol(u) <=> OwnAms(u) \/ InstancesIn(u, Marked(units))
<1>1. (\E i \in DOMAIN u.insts : units[u.insts[i].unit].ams) <=> InstancesIn(u, Marked(units))
  <2>1. ASSUME NEW i \in DOMAIN u.insts
        PROVE  units[u.insts[i].unit].ams <=> u.insts[i].unit \in Marked(units)
    <3>1. u.insts[i].unit \in DOMAIN units
      BY DEF Instantiated
    <3>2. QED BY <3>1, Zenon DEF Marked
  <2>2. QED BY <2>1, Zenon DEF InstancesIn
<1>2. QED BY <1>1, Zenon DEF _checkAmsSymbol, OwnAms

\* Marking a unit after the units it instantiates changes no other mark.
LEMMA UnitMarked ==
  ASSUME NEW us, NEW visited, NEW sys, NEW n, NEW x, NEW ws, NEW later, IsVisit(us, visited, sys, n, x, ws, later)
  PROVE  MarksFollow(ws, visited \cup {n}, later)
<1>a. /\ MarksFollow(us, visited, sys) /\ n \in DOMAIN us /\ n \notin visited
      /\ Instantiated(us[n]) \subseteq visited /\ IsUnit(us[n])
      /\ x <=> OwnAms(us[n]) \/ InstancesIn(us[n], Marked(us))
      /\ ws = [us EXCEPT ![n] = [us[n] EXCEPT !.ams = x]] /\ (later <=> sys \/ x)
  BY Zenon DEF IsVisit
<1>b. PICK u, w : u = us[n] /\ w = [us[n] EXCEPT !.ams = x]
  OBVIOUS
<1>1. PICK old, new : old = Marked(us) /\ new = Marked(ws)
  OBVIOUS
<1>2. w.ports = u.ports /\ w.insts = u.insts /\ w.scopes = u.scopes /\ w.ams = x
  <2>1. w = [name |-> u.name, scale |-> u.scale, tps |-> u.tps, ports |-> u.ports, insts |-> u.insts, subs |-> u.subs,
             calls |-> u.calls, scopes |-> u.scopes, ams |-> x]
    BY <1>a, <1>b DEF IsUnit
  <2>2. QED BY <2>1
<1>3. DOMAIN ws = DOMAIN us /\ ws[n] = w /\ \A m \in DOMAIN us : m # n => ws[m] = us[m]
  BY <1>a, <1>b
<1>4. ASSUME NEW m \in DOMAIN us
      PROVE  /\ OwnAms(ws[m]) <=> OwnAms(us[m])
             /\ \A found : InstancesIn(ws[m], found) <=> InstancesIn(us[m], found)
             /\ Instantiated(ws[m]) = Instantiated(us[m])
  <2>1. CASE m = n
    <3>1. OwnAms(w) <=> OwnAms(u)
      BY <1>2, Zenon DEF OwnAms
    <3>2. \A found : InstancesIn(w, found) <=> InstancesIn(u, found)
      BY <1>2, Zenon DEF InstancesIn
    <3>3. Instantiated(w) = Instantiated(u)
      BY <1>2, Zenon DEF Instantiated
    <3>4. ws[m] = w /\ us[m] = u
      BY <1>a, <1>b, <1>1, <1>3, <2>1
    <3>5. QED BY <3>1, <3>2, <3>3, <3>4
  <2>2. CASE m # n
    BY <1>3, <2>2
  <2>3. QED BY <2>1, <2>2
<1>5. old \subseteq visited /\ visited \subseteq DOMAIN us /\ n \notin old
  BY <1>a, <1>1 DEF MarksFollow
<1>6. \A m \in DOMAIN us : m \in new <=> m \in old \/ (m = n /\ x)
  <2>1. ASSUME NEW m \in DOMAIN us PROVE m \in new <=> m \in old \/ (m = n /\ x)
    <3>1. CASE m = n
      <4>1. m \in new <=> ws[m].ams
        BY <1>1, <1>3, Zenon DEF Marked
      <4>2. ws[m].ams = x
        BY <1>2, <1>3, <3>1
      <4>3. QED BY <1>5, <3>1, <4>1, <4>2, Zenon
    <3>2. CASE m # n
      <4>1. ws[m] = us[m]
        BY <1>3, <3>2
      <4>2. QED BY <1>1, <1>3, <3>2, <4>1, Zenon DEF Marked
    <3>3. QED BY <3>1, <3>2
  <2>2. QED BY <2>1
<1>7. new \subseteq DOMAIN us
  BY <1>1, <1>3 DEF Marked
<1>8. new \subseteq visited \cup {n}
  BY <1>5, <1>6, <1>7
<1>9. ASSUME NEW m \in visited \cup {n}
      PROVE  /\ m \in DOMAIN us /\ Instantiated(us[m]) \subseteq visited
             /\ m \in new <=> OwnAms(us[m]) \/ InstancesIn(us[m], new)
  <2>1. m \in DOMAIN us /\ Instantiated(us[m]) \subseteq visited
    BY <1>a, <1>5 DEF MarksFollow
  <2>2. InstancesIn(us[m], new) <=> InstancesIn(us[m], old)
    <3>1. ASSUME NEW i \in DOMAIN us[m].insts PROVE us[m].insts[i].unit \in new <=> us[m].insts[i].unit \in old
      <4>1. us[m].insts[i].unit \in visited
        BY <2>1 DEF Instantiated
      <4>2. QED BY <1>a, <1>5, <1>6, <4>1
    <3>2. QED BY <3>1, Zenon DEF InstancesIn
  <2>3. CASE m = n
    <3>1. x <=> OwnAms(us[m]) \/ InstancesIn(us[m], old)
      BY <1>a, <1>1, <2>3
    <3>2. m \in new <=> x
      BY <1>5, <1>6, <2>1, <2>3, Zenon
    <3>3. QED BY <2>1, <2>2, <3>1, <3>2, Zenon
  <2>4. CASE m # n
    <3>1. m \in old <=> OwnAms(us[m]) \/ InstancesIn(us[m], old)
      BY <1>a, <1>1, <2>4 DEF MarksFollow
    <3>2. m \in new <=> m \in old
      BY <1>6, <2>1, <2>4, Zenon
    <3>3. QED BY <2>1, <2>2, <3>1, <3>2, Zenon
  <2>5. QED BY <2>3, <2>4
<1>10. ASSUME NEW found \in SUBSET DOMAIN us, Closed(ws, found) PROVE new \subseteq found
  <2>1. Closed(us, found)
    BY <1>3, <1>4, <1>10, Zenon DEF Closed
  <2>2. old \subseteq found
    BY <1>a, <1>1, <2>1 DEF MarksFollow
  <2>3. x => n \in found
    <3>1. SUFFICES ASSUME x PROVE n \in found
      OBVIOUS
    <3>2. OwnAms(us[n]) \/ InstancesIn(us[n], found)
      <4>1. OwnAms(us[n]) \/ InstancesIn(us[n], old)
        BY <1>a, <1>1, <3>1, Zenon
      <4>2. InstancesIn(us[n], old) => InstancesIn(us[n], found)
        BY <2>2 DEF InstancesIn
      <4>3. QED BY <4>1, <4>2
    <3>3. QED BY <1>a, <2>1, <3>2 DEF Closed
  <2>4. ASSUME NEW m \in new PROVE m \in found
    <3>1. m \in DOMAIN us /\ (m \in old \/ (m = n /\ x))
      BY <1>6, <1>7, <2>4, Zenon
    <3>2. QED BY <2>2, <2>3, <3>1, Zenon
  <2>5. QED BY <2>4
<1>11. later <=> new # {}
  <2>1. sys <=> old # {}
    BY <1>a, <1>1, Zenon DEF MarksFollow
  <2>2. old # {} => new # {}
    <3>1. SUFFICES ASSUME NEW m \in old PROVE m \in new
      BY <1>5
    <3>2. QED BY <1>5, <1>6
  <2>3. x => n \in new
    BY <1>a, <1>6, Zenon
  <2>4. new # {} => old # {} \/ x
    <3>1. SUFFICES ASSUME NEW m \in new PROVE m \in old \/ x
      OBVIOUS
    <3>2. QED BY <1>6, <1>7, <3>1, Zenon
  <2>5. QED BY <1>a, <2>1, <2>2, <2>3, <2>4, Zenon
<1>12. \A m \in visited \cup {n} : Instantiated(ws[m]) \subseteq visited \cup {n}
  BY <1>4, <1>9
<1>13. \A m \in visited \cup {n} : m \in new <=> OwnAms(ws[m]) \/ InstancesIn(ws[m], new)
  BY <1>4, <1>9, Zenon
<1>14. QED BY <1>1, <1>3, <1>8, <1>9, <1>10, <1>11, <1>12, <1>13, Zenon DEF MarksFollow

\* A unit that is replaced keeps its mark.
LEMMA MarkStays ==
  ASSUME NEW us, NEW n \in DOMAIN us, NEW w, w.ams = us[n].ams, NEW ws, ws = [us EXCEPT ![n] = w]
  PROVE  Marked(ws) = Marked(us)
<1>1. DOMAIN ws = DOMAIN us /\ \A m \in DOMAIN us : ws[m].ams = us[m].ams
  OBVIOUS
<1>2. ASSUME NEW m \in DOMAIN us PROVE ws[m].ams <=> us[m].ams
  BY <1>1, Zenon
<1>3. QED BY <1>1, <1>2, Zenon DEF Marked

\* Before the units are marked an action that leaves the marks of the units and
\* of the system alone keeps the invariant.
LEMMA UnmarkedStays ==
  ASSUME IInv, MarkInv, stage \notin {"mark", "written"}, stage' \notin {"mark", "written"},
         systemAms' = systemAms, Marked(units') = Marked(units)
  PROVE  MarkInv'
<1>1. ~systemAms /\ Marked(units) = {}
  BY Zenon DEF MarkInv
<1>2. ~systemAms' /\ Marked(units') = {}
  BY <1>1, Zenon
<1>3. stage' # "mark" /\ stage' # "written"
  OBVIOUS
<1>4. QED BY <1>2, <1>3, Zenon DEF MarkInv

\* No unit is marked at first,
LEMMA InitMarks == Init => MarkInv
<1>1. SUFFICES ASSUME Init PROVE MarkInv
  OBVIOUS
<1>2. stage = "parse" /\ systemAms = FALSE /\ DOMAIN units = {}
  BY <1>1 DEF Init
<1>3. Marked(units) = {}
  BY <1>2 DEF Marked
<1>4. ~systemAms
  BY <1>2, Zenon
<1>5. stage # "mark" /\ stage # "written"
  BY <1>2
<1>6. QED BY <1>3, <1>4, <1>5, Zenon DEF MarkInv

\* nor by the parser,
LEMMA ParsingMarks == IInv /\ MarkInv /\ (SetTimescale \/ EndOfFile \/ buildSystemObject) => MarkInv'
<1>1. SUFFICES ASSUME IInv, MarkInv, SetTimescale \/ EndOfFile \/ buildSystemObject PROVE MarkInv'
  OBVIOUS
<1>2. stage = "parse" /\ stage' \in {"parse", "raw", "step1"} /\ systemAms' = systemAms /\ units' = units
  BY <1>1 DEF SetTimescale, MorePieces, EndOfFile, buildSystemObject
<1>3. QED BY <1>1, <1>2, UnmarkedStays

\* which builds units without a mark,
LEMMA ParseModuleMarks == IInv /\ MarkInv /\ ParseModule => MarkInv'
<1>1. SUFFICES ASSUME IInv, MarkInv, ParseModule PROVE MarkInv'
  OBVIOUS
<1>2. PICK piece, us, ws, scale : piece = Piece /\ us = units /\ ws = units' /\ scale = timescale
  OBVIOUS
<1>3. /\ stage = "parse" /\ queue # <<>> /\ Head(queue).pieces # <<>>
      /\ piece = Head(Head(queue).pieces) /\ piece.k = "module"
      /\ stage' = stage /\ systemAms' = systemAms
      /\ ws = [n \in DOMAIN us \cup {piece.name} |-> IF n = piece.name THEN ParseUnit(piece, scale) ELSE us[n]]
  BY <1>1, <1>2 DEF ParseModule, MorePieces, Piece
<1>4. IsProject(cLine) /\ QueueFollows(cLine, queue, scale)
  BY <1>1, <1>2, <1>3, CommandLinesAssumption DEF IInv
<1>5. IsPiece(piece)
  <2>1. PICK r : r = [queue EXCEPT ![1].pieces = Tail(@)]
    OBVIOUS
  <2>2. QED BY <1>3, <1>4, <2>1, NextPiece
<1>6. PICK u : u = ParseUnit(piece, scale)
  OBVIOUS
<1>7. u.ams = FALSE
  BY <1>3, <1>5, <1>6, ParsedUnit
<1>8. Marked(us) = {}
  BY <1>1, <1>2, <1>3, Zenon DEF MarkInv
<1>9. ASSUME NEW n \in DOMAIN ws PROVE ~ws[n].ams
  <2>1. CASE n = piece.name
    <3>1. ws[n].ams = FALSE
      BY <1>3, <1>6, <1>7, <2>1
    <3>2. QED BY <3>1, Zenon
  <2>2. CASE n # piece.name
    <3>1. n \in DOMAIN us /\ ws[n] = us[n]
      BY <1>3, <2>2
    <3>2. QED BY <1>8, <3>1, Zenon DEF Marked
  <2>3. QED BY <2>1, <2>2
<1>10. Marked(ws) = Marked(us)
  BY <1>8, <1>9, Zenon DEF Marked
<1>11. QED BY <1>1, <1>2, <1>3, <1>10, UnmarkedStays

\* by step 1
LEMMA Step1Marks == IInv /\ MarkInv /\ performStep1Refinements => MarkInv'
<1>1. SUFFICES ASSUME IInv, MarkInv, performStep1Refinements PROVE MarkInv'
  OBVIOUS
<1>2. PICK us, ws, declared : us = units /\ ws = units' /\ declared = defaultScale
  OBVIOUS
<1>v. PICK n \in DOMAIN us : \E first : ws = [us EXCEPT ![n] = visitView(@, libs, us, first)]
  BY <1>1, <1>2 DEF performStep1Refinements
<1>3. PICK first : ws = [us EXCEPT ![n] = visitView(@, libs, us, first)]
  BY <1>v
<1>4. stage = "step1" /\ stage' = stage /\ systemAms' = systemAms
  BY <1>1 DEF performStep1Refinements
<1>5. PICK u, w : u = us[n] /\ w = visitView(u, libs, us, first)
  OBVIOUS
<1>6. Progress(us, "step1", done, declared)
  BY <1>1, <1>2, <1>4 DEF IInv
<1>7. PlainUnit(u)
  BY <1>5, <1>6 DEF Progress
<1>8. w.ams = u.ams
  BY <1>5, <1>7, ViewKeeps DEF Keeps
<1>9. ws = [us EXCEPT ![n] = w]
  BY <1>3, <1>5
<1>10. Marked(ws) = Marked(us)
  <2>1. w.ams = us[n].ams
    BY <1>5, <1>8
  <2>2. QED BY <1>9, <2>1, MarkStays, Zenon
<1>11. QED BY <1>1, <1>2, <1>4, <1>10, UnmarkedStays

\* or by step 2.
LEMMA Step2Marks == IInv /\ MarkInv /\ performStep2Refinements => MarkInv'
<1>1. SUFFICES ASSUME IInv, MarkInv, performStep2Refinements PROVE MarkInv'
  OBVIOUS
<1>2. PICK us, ws, declared : us = units /\ ws = units' /\ declared = defaultScale
  OBVIOUS
<1>3. PICK n \in DOMAIN us :
        /\ n \notin done
        /\ ws = [us EXCEPT ![n].scopes = [s \in DOMAIN @ |-> ScaleScope(us[n], s)]]
        /\ defaultScale' = (defaultScale \/ _checkViewTimeScale(us[n]))
        /\ done' = done \cup {n}
  BY <1>1, <1>2 DEF performStep2Refinements, MayVisit
<1>4. stage = "step2" /\ stage' = stage /\ systemAms' = systemAms
  BY <1>1 DEF performStep2Refinements
<1>5. PICK scopes : scopes = [s \in DOMAIN us[n].scopes |-> ScaleScope(us[n], s)]
  OBVIOUS
<1>6. PICK u, w : u = us[n] /\ w = [u EXCEPT !.scopes = scopes]
  OBVIOUS
<1>7. Progress(us, "step2", done, declared)
  BY <1>1, <1>2, <1>4 DEF IInv
<1>8. PlainUnit(u)
  BY <1>3, <1>6, <1>7 DEF Progress
<1>9. w.ams = u.ams
  <2>1. w = [name |-> u.name, scale |-> u.scale, tps |-> u.tps, ports |-> u.ports, insts |-> u.insts, subs |-> u.subs,
             calls |-> u.calls, scopes |-> scopes, ams |-> u.ams]
    BY <1>6, <1>8 DEF PlainUnit
  <2>2. QED BY <2>1
<1>10. ws = [us EXCEPT ![n] = w]
  BY <1>3, <1>5, <1>6
<1>11. Marked(ws) = Marked(us)
  <2>1. w.ams = us[n].ams
    BY <1>6, <1>9
  <2>2. QED BY <1>10, <2>1, MarkStays, Zenon
<1>12. QED BY <1>1, <1>2, <1>4, <1>11, UnmarkedStays

\* Marking visits a unit after the units it instantiates.
LEMMA markAmsLanguageMarks == IInv /\ MarkInv /\ markAmsLanguage => MarkInv'
<1>1. SUFFICES ASSUME IInv, MarkInv, markAmsLanguage PROVE MarkInv'
  OBVIOUS
<1>2. PICK us, ws, visited, sys, later : us = units /\ ws = units' /\ visited = done /\ sys = systemAms /\ later = systemAms'
  OBVIOUS
<1>3. PICK n \in DOMAIN us :
        /\ n \notin done /\ Instantiated(us[n]) \subseteq done
        /\ ws = [us EXCEPT ![n].ams = _checkAmsSymbol(us[n])]
        /\ systemAms' = (systemAms \/ _checkAmsSymbol(us[n]))
        /\ done' = done \cup {n}
  BY <1>1, <1>2, Zenon DEF markAmsLanguage, MayVisit
<1>4. stage = "mark" /\ stage' = stage /\ libs' = libs
  BY <1>1 DEF markAmsLanguage
<1>5. libs /\ MarksFollow(us, visited, sys)
  BY <1>1, <1>2, <1>4, Zenon DEF MarkInv
<1>6. PICK u, x, w : u = us[n] /\ x = _checkAmsSymbol(u) /\ w = [u EXCEPT !.ams = x]
  OBVIOUS
<1>7. x <=> OwnAms(u) \/ InstancesIn(u, Marked(us))
  <2>1. Instantiated(u) \subseteq DOMAIN units
    BY <1>2, <1>3, <1>5, <1>6 DEF MarksFollow
  <2>2. _checkAmsSymbol(u) <=> OwnAms(u) \/ InstancesIn(u, Marked(units))
    BY <2>1, CheckedSymbols
  <2>3. QED BY <1>2, <1>6, <2>2, Zenon
<1>8. IsUnit(u)
  <2>1. Progress(us, "mark", done, defaultScale)
    BY <1>1, <1>2, <1>4 DEF IInv
  <2>2. QED BY <1>6, <2>1, Zenon DEF Progress, Finished
<1>9. later <=> sys \/ x
  BY <1>2, <1>3, <1>6, Zenon
<1>10. ws = [us EXCEPT ![n] = w]
  BY <1>3, <1>6, Zenon
<1>11. n \in DOMAIN us /\ n \notin visited /\ Instantiated(u) \subseteq visited /\ u = us[n] /\ w = [u EXCEPT !.ams = x]
  BY <1>2, <1>3, <1>6
<1>12. MarksFollow(us, visited, sys)
  BY <1>5
<1>13. MarksFollow(ws, visited \cup {n}, later)
  <2>1. ws = [us EXCEPT ![n] = [us[n] EXCEPT !.ams = x]]
    BY <1>6, <1>10, Zenon
  <2>2. IsUnit(us[n]) /\ Instantiated(us[n]) \subseteq visited /\ (x <=> OwnAms(us[n]) \/ InstancesIn(us[n], Marked(us)))
    BY <1>6, <1>7, <1>8, <1>11, Zenon
  <2>3. IsVisit(us, visited, sys, n, x, ws, later)
    BY <1>9, <1>11, <1>12, <2>1, <2>2, Zenon DEF IsVisit
  <2>4. QED BY <2>3, UnitMarked, Zenon
<1>14. stage' = "mark" /\ stage' # "written" /\ libs'
  BY <1>4, <1>5
<1>15. MarksFollow(units', done', systemAms')
  BY <1>2, <1>3, <1>13
<1>16. QED BY <1>14, <1>15, Zenon DEF MarkInv

\* Marking starts with no marks, and the file is written with the final ones.
LEMMA NextPassMarks == IInv /\ MarkInv /\ NextPass => MarkInv'
<1>1. SUFFICES ASSUME IInv, MarkInv, NextPass PROVE MarkInv'
  OBVIOUS
<1>2. /\ done = DOMAIN units /\ done' = {} /\ units' = units /\ systemAms' = systemAms /\ libs' = libs
      /\ stage \in {"step1", "step2", "mark"}
  BY <1>1 DEF NextPass
<1>3. CASE stage = "step1"
  <2>1. stage' = "step2"
    BY <1>1, <1>3 DEF NextPass
  <2>2. QED BY <1>1, <1>2, <1>3, <2>1, UnmarkedStays
<1>4. CASE stage = "step2"
  <2>1. stage # "mark" /\ stage # "written"
    BY <1>4
  <2>2. ~systemAms /\ Marked(units) = {}
    BY <1>1, <2>1, Zenon DEF MarkInv
  <2>3. MarksFollow(units, {}, systemAms)
    <3>1. systemAms <=> FALSE
      BY <2>2
    <3>2. QED BY <2>2, <3>1, Zenon DEF MarksFollow
  <2>4. stage' = IF libs THEN "mark" ELSE "written"
    BY <1>1, <1>4 DEF NextPass
  <2>5. ~systemAms' /\ Marked(units') = {} /\ MarksFollow(units', done', systemAms')
    BY <1>2, <2>2, <2>3
  <2>6. CASE libs
    <3>1. stage' # "written" /\ libs'
      BY <1>2, <2>4, <2>6
    <3>2. QED BY <2>5, <3>1, Zenon DEF MarkInv
  <2>7. CASE ~libs
    <3>1. stage' # "mark" /\ ~libs'
      BY <1>2, <2>4, <2>7
    <3>2. QED BY <2>5, <3>1, Zenon DEF MarkInv
  <2>8. QED BY <2>6, <2>7
<1>5. CASE stage = "mark"
  <2>1. stage' = "written" /\ stage' # "mark"
    BY <1>1, <1>5 DEF NextPass
  <2>2. libs /\ MarksFollow(units, done, systemAms)
    BY <1>1, <1>5, Zenon DEF MarkInv
  <2>3. MarksFollow(units', DOMAIN units', systemAms') /\ libs'
    BY <1>2, <2>2
  <2>4. QED BY <2>1, <2>3, Zenon DEF MarkInv
<1>6. QED BY <1>2, <1>3, <1>4, <1>5

\* A step that changes nothing leaves the marks.
LEMMA StutterMarks == MarkInv /\ UNCHANGED vars => MarkInv'
<1>1. SUFFICES ASSUME MarkInv, UNCHANGED vars PROVE MarkInv'
  OBVIOUS
<1>2. stage' = stage /\ libs' = libs /\ systemAms' = systemAms /\ units' = units /\ done' = done
  BY <1>1 DEF vars
<1>3. QED BY <1>1, <1>2 DEF MarkInv

\* When all units are visited their marks are the least closed set.
LEMMA MarksMeanLeast == MarkInv => MarksAreLeast
<1>1. SUFFICES ASSUME MarkInv, stage = "written" PROVE MarksAreLeast
  BY Zenon DEF MarksAreLeast
<1>2. CASE ~libs
  BY <1>1, <1>2, Zenon DEF MarkInv, MarksAreLeast
<1>3. CASE libs
  <2>1. MarksFollow(units, DOMAIN units, systemAms)
    BY <1>1, <1>3, Zenon DEF MarkInv
  <2>2. Closed(units, Marked(units))
    BY <2>1, Zenon DEF MarksFollow, Closed
  <2>3. /\ \A found \in SUBSET DOMAIN units : Closed(units, found) => Marked(units) \subseteq found
        /\ systemAms <=> Marked(units) # {}
    BY <2>1, Zenon DEF MarksFollow
  <2>4. QED BY <1>1, <1>3, <2>2, <2>3, Zenon DEF MarksAreLeast
<1>4. QED BY <1>2, <1>3

\* One visit of each unit in the order of the instances marks exactly the units
\* that hold something of the AMS language or instantiate, at any depth, one
\* that does, and the system if there is one.
THEOREM OneVisitMarksAll == Spec => []MarksAreLeast
<1>1. Init => IInv /\ MarkInv
  BY InitInv, InitMarks
<1>2. IInv /\ [Next]_vars => IInv'
  BY SetTimescaleKeeps, ParseModuleKeeps, EndOfFileKeeps, buildSystemObjectKeeps, performStep1RefinementsKeeps,
     performStep2RefinementsKeeps, markAmsLanguageKeeps, NextPassKeeps, StutterKeeps DEF Next
<1>3. IInv /\ MarkInv /\ [Next]_vars => MarkInv'
  BY ParsingMarks, ParseModuleMarks, Step1Marks, Step2Marks, markAmsLanguageMarks, NextPassMarks, StutterMarks DEF Next
<1>4. MarkInv => MarksAreLeast
  BY MarksMeanLeast
<1>5. QED BY <1>1, <1>2, <1>3, <1>4, PTL DEF Spec
===============================================================================
