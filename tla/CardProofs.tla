----------------------------- MODULE CardProofs -----------------------------
(***************************************************************************)
(* The cardinality constraints of msuncore, for every number of inputs,    *)
(* every bound and every encoding: the clauses have exactly the solutions  *)
(* the constraint asks for, no clause is made twice, and the program stops *)
(* at the requests its callers count as refused and at no others.          *)
(* Deciding clauses by splitting on a variable is right, so that, request  *)
(* after request, each constraint is served for what it says.              *)
(***************************************************************************)
EXTENDS Card, Loops

-----------------------------------------------------------------------------
(***************************************************************************)
(* The clauses behind the constraints (Encoders) are exact, for every      *)
(* number of inputs and every bound.  The argument goes down a BDD: the    *)
(* node of level l and p true inputs is true only if the inputs left may   *)
(* complete p as the constraint wants, so the root says the constraint;    *)
(* and a solution is made by giving every node just that value.            *)
(***************************************************************************)
(* The variables of l inputs, and how many of them are in T. *)
Xs(l) == {<<"x", i>> : i \in 1..l}
Count(T, l) == Cardinality(T \cap Xs(l))

LEMMA XsZero == Xs(0) = {}
<1>1. 1..0 = {}
  OBVIOUS
<1> QED BY <1>1 DEF Xs

LEMMA XsNext ==
    ASSUME NEW l \in Nat
    PROVE  /\ Xs(l + 1) = Xs(l) \cup {<<"x", l + 1>>}
           /\ <<"x", l + 1>> \notin Xs(l)
<1>1. 1..(l + 1) = (1..l) \cup {l + 1} /\ l + 1 \notin 1..l
  OBVIOUS
<1>2. \A i, j : <<"x", i>> = <<"x", j>> => i = j
  OBVIOUS
<1>4. Xs(l + 1) = Xs(l) \cup {<<"x", l + 1>>}
  BY <1>1 DEF Xs
<1>5. <<"x", l + 1>> \notin Xs(l)
  BY <1>1, <1>2 DEF Xs
<1> QED BY <1>4, <1>5

LEMMA XsFinite == \A l \in Nat : IsFiniteSet(Xs(l))
<1> DEFINE A == {l \in Nat : IsFiniteSet(Xs(l))}
<1>1. 0 \in A
  BY XsZero, FS_EmptySet
<1>2. ASSUME NEW n \in Nat, n \in A PROVE n + 1 \in A
  <2>1. IsFiniteSet(Xs(n) \cup {<<"x", n + 1>>})
    BY <1>2, FS_AddElement
  <2>2. Xs(n + 1) = Xs(n) \cup {<<"x", n + 1>>}
    BY XsNext
  <2>3. IsFiniteSet(Xs(n + 1))
    BY <2>1, <2>2, Zenon
  <2> QED BY <2>3
<1> HIDE DEF A
<1>3. \A n \in Nat : n \in A
  BY <1>1, <1>2, AllNat
<1> QED BY <1>3 DEF A

(* The next input is counted if it is in T. *)
LEMMA CountZero == \A T : Count(T, 0) = 0
<1>1. \A T : T \cap Xs(0) = {}
  BY XsZero
<1> QED BY <1>1, FS_EmptySet DEF Count

LEMMA CountIs ==
    ASSUME NEW T, NEW l \in Nat
    PROVE  /\ Count(T, l) \in Nat
           /\ Count(T, l + 1) = Count(T, l) + (IF <<"x", l + 1>> \in T THEN 1 ELSE 0)
<1> DEFINE x == <<"x", l + 1>>
           S == T \cap Xs(l)
<1>1. IsFiniteSet(S) /\ Cardinality(S) \in Nat
  BY XsFinite, FS_Intersection, FS_CardinalityType
<1>3. x \notin S
  BY XsNext
<1>4. T \cap Xs(l + 1) = IF x \in T THEN S \cup {x} ELSE S
  BY XsNext
<1>5. Count(T, l) = Cardinality(S) /\ Count(T, l + 1) = Cardinality(T \cap Xs(l + 1))
  BY DEF Count
<1>6. Cardinality(S \cup {x}) = Cardinality(S) + 1
  BY <1>1, <1>3, FS_AddElement
<1>7. Count(T, l + 1) = Count(T, l) + (IF x \in T THEN 1 ELSE 0)
  <2> HIDE DEF S, x
  <2>1. CASE x \in T
    BY <1>1, <1>4, <1>5, <1>6, <2>1
  <2>2. CASE x \notin T
    BY <1>1, <1>4, <1>5, <2>2
  <2> QED BY <2>1, <2>2
<1> QED BY <1>1, <1>5, <1>7

(* Between l and n at most n - l inputs are counted. *)
LEMMA CountGap ==
    ASSUME NEW T, NEW n \in Nat, NEW l \in 0..n
    PROVE  Count(T, l) <= Count(T, n) /\ Count(T, n) - Count(T, l) <= n - l
<1> DEFINE A == {m \in Nat : Count(T, l) <= Count(T, l + m)
                             /\ Count(T, l + m) - Count(T, l) <= m}
<1>1. 0 \in A
  <2>1. l \in Nat /\ l + 0 = l
    OBVIOUS
  <2>2. Count(T, l + 0) = Count(T, l)
    BY <2>1, Zenon
  <2>3. Count(T, l) \in Nat
    BY <2>1, CountIs
  <2> QED BY <2>2, <2>3
<1>2. ASSUME NEW m \in Nat, m \in A PROVE m + 1 \in A
  <2>1. l \in Nat
    OBVIOUS
  <2>0. l \in Nat /\ Count(T, l) \in Nat
    BY <2>1, CountIs
  <2>2. PICK q \in Nat : q = l + m
    BY <2>0
  <2>8. Count(T, q) \in Nat /\ Count(T, q + 1) = Count(T, q) + (IF <<"x", q + 1>> \in T THEN 1 ELSE 0)
    BY CountIs
  <2>5. Count(T, q) \in Nat /\ (Count(T, q + 1) = Count(T, q) \/ Count(T, q + 1) = Count(T, q) + 1)
    BY <2>8
  <2>6. l + (m + 1) = q + 1
    BY <2>0, <2>2
  <2>7. Count(T, l + (m + 1)) = Count(T, q + 1) /\ Count(T, l + m) = Count(T, q)
    BY <2>2, <2>6, Zenon
  <2>4. Count(T, l) <= Count(T, l + m) /\ Count(T, l + m) - Count(T, l) <= m
    BY <1>2
  <2> QED BY <2>0, <2>4, <2>5, <2>7
<1> HIDE DEF A
<1>3. \A m \in Nat : m \in A
  BY <1>1, <1>2, AllNat
<1>4. n - l \in Nat /\ l + (n - l) = n
  OBVIOUS
<1>5. n - l \in A
  BY <1>3, <1>4
<1> QED BY <1>4, <1>5 DEF A

LEMMA CountUpTo ==
    ASSUME NEW T, NEW l \in Nat
    PROVE  Count(T, l) \in 0..l
<1>1. 0 \in 0..l /\ l - 0 = l
  OBVIOUS
<1>2. Count(T, l) - Count(T, 0) <= l - 0
  BY <1>1, CountGap
<1>3. Count(T, 0) = 0 /\ Count(T, l) \in Nat
  BY CountIs, CountZero
<1> QED BY <1>1, <1>2, <1>3

(* None is counted, or all are. *)
LEMMA CountNone ==
    ASSUME NEW T, NEW n \in Nat
    PROVE  Count(T, n) = 0 <=> \A i \in 1..n : <<"x", i>> \notin T
<1>1. IsFiniteSet(T \cap Xs(n))
  BY XsFinite, FS_Intersection
<1>2. Count(T, n) = 0 <=> T \cap Xs(n) = {}
  BY <1>1, FS_EmptySet DEF Count
<1> QED BY <1>2 DEF Xs

LEMMA CountAll ==
    ASSUME NEW T, NEW n \in Nat
    PROVE  Count(T, n) = n <=> \A i \in 1..n : <<"x", i>> \in T
<1>1. ASSUME NEW i \in 1..n, <<"x", i>> \notin T PROVE Count(T, n) < n
  <2>1. i - 1 \in Nat /\ (i - 1) + 1 = i /\ i \in 0..n /\ i \in Nat
    OBVIOUS
  <2>2. Count(T, i) = Count(T, i - 1)
    BY <1>1, <2>1, CountIs
  <2>3. Count(T, i - 1) <= i - 1
    BY <2>1, CountUpTo
  <2>4. Count(T, n) - Count(T, i) <= n - i
    BY <2>1, CountGap
  <2>5. Count(T, i) \in Nat /\ Count(T, n) \in Nat
    BY <2>1, CountIs
  <2> QED BY <2>1, <2>2, <2>3, <2>4, <2>5
<1>2. ASSUME \A i \in 1..n : <<"x", i>> \in T PROVE Count(T, n) = n
  <2> DEFINE A == {k \in 0..n : Count(T, k) = k}
  <2>1. 0 \in A
    BY CountZero
  <2>2. ASSUME NEW k \in 1..n, k - 1 \in A PROVE k \in A
    <3>1. k - 1 \in Nat /\ (k - 1) + 1 = k /\ k \in 0..n
      OBVIOUS
    <3>2. Count(T, (k - 1) + 1) = Count(T, k - 1) + (IF <<"x", (k - 1) + 1>> \in T THEN 1 ELSE 0)
      BY <3>1, CountIs
    <3>3. Count(T, k) = (k - 1) + 1
      BY <1>2, <2>2, <3>1, <3>2
    <3> QED BY <3>1, <3>3
  <2>3. n \in 0..n
    OBVIOUS
  <2> HIDE DEF A
  <2>4. n \in A
    BY <2>1, <2>2, <2>3, UpTo
  <2> QED BY <2>4 DEF A
<1>3. Count(T, n) \in Nat
  BY CountIs
<1> QED BY <1>1, <1>2, <1>3

(* At most one is counted if no two are in T. *)
LEMMA CountOne ==
    ASSUME NEW T, NEW n \in Nat
    PROVE  Count(T, n) <= 1 <=>
             \A i \in 1..n : \A j \in (i + 1)..n : <<"x", i>> \notin T \/ <<"x", j>> \notin T
<1>1. ASSUME NEW i \in 1..n, NEW j \in (i + 1)..n, <<"x", i>> \in T, <<"x", j>> \in T
      PROVE  Count(T, n) > 1
  <2>1. /\ i - 1 \in Nat /\ (i - 1) + 1 = i /\ j - 1 \in Nat /\ (j - 1) + 1 = j
        /\ i \in 0..(j - 1) /\ j \in 0..n /\ i \in Nat /\ j \in Nat
    OBVIOUS
  <2>2. Count(T, i) = Count(T, i - 1) + 1 /\ Count(T, j) = Count(T, j - 1) + 1
    BY <1>1, <2>1, CountIs
  <2>3. Count(T, i) <= Count(T, j - 1) /\ Count(T, j) <= Count(T, n)
    BY <2>1, CountGap
  <2>4. Count(T, i - 1) \in Nat /\ Count(T, j - 1) \in Nat /\ Count(T, n) \in Nat
    BY <2>1, CountIs
  <2> QED BY <2>2, <2>3, <2>4
<1>2. ASSUME \A i \in 1..n : \A j \in (i + 1)..n : <<"x", i>> \notin T \/ <<"x", j>> \notin T
      PROVE  Count(T, n) <= 1
  <2> DEFINE A == {k \in 0..n : Count(T, k) <= 1}
  <2>1. 0 \in A
    BY CountZero
  <2>2. ASSUME NEW k \in 1..n, k - 1 \in A PROVE k \in A
    <3>1. k - 1 \in Nat /\ (k - 1) + 1 = k /\ k \in 0..n
      OBVIOUS
    <3>2. Count(T, k) = Count(T, k - 1) + (IF <<"x", k>> \in T THEN 1 ELSE 0)
      BY <3>1, CountIs
    <3>3. Count(T, k - 1) \in Nat /\ Count(T, k - 1) <= 1
      BY <2>2, <3>1, CountIs
    <3>4. CASE <<"x", k>> \notin T
      BY <3>1, <3>2, <3>3, <3>4
    <3>5. CASE <<"x", k>> \in T
      <4>1. \A i \in 1..(k - 1) : i \in 1..n /\ k \in (i + 1)..n
        OBVIOUS
      <4>2. \A i \in 1..(k - 1) : <<"x", i>> \notin T
        BY <1>2, <3>5, <4>1
      <4>3. Count(T, k - 1) = 0
        BY <3>1, <4>2, CountNone
      <4> QED BY <3>1, <3>2, <3>5, <4>3
    <3> QED BY <3>4, <3>5
  <2>3. n \in 0..n
    OBVIOUS
  <2> HIDE DEF A
  <2>4. n \in A
    BY <2>1, <2>2, <2>3, UpTo
  <2> QED BY <2>4 DEF A
<1>3. Count(T, n) \in Nat
  BY CountIs
<1> QED BY <1>1, <1>2, <1>3

-----------------------------------------------------------------------------
(* T, the set of the true variables, makes a literal true, satisfies every  *)
(* clause of a set, every gate of a sequence.                               *)
IsTrue(T, l) == (l[2] \in T) <=> l[1]
Fulfils(T, clauses) == \A c \in clauses : \E l \in c : IsTrue(T, l)
Obeys(T, gates) == \A i \in DOMAIN gates : Fulfils(T, gates[i])

LEMMA TrueLiterals ==
    ASSUME NEW T
    PROVE  /\ \A v : IsTrue(T, Pos(v)) <=> v \in T
           /\ \A l : IsTrue(T, Neg(l)) <=> ~IsTrue(T, l)
BY DEF IsTrue, Pos, Neg

LEMMA TrueClauses ==
    ASSUME NEW T
    PROVE  /\ \A a : Fulfils(T, {{a}}) <=> IsTrue(T, a)
           /\ \A a, b : (\E l \in {a, b} : IsTrue(T, l)) <=> IsTrue(T, a) \/ IsTrue(T, b)
           /\ \A a, b, c : (\E l \in {a, b, c} : IsTrue(T, l))
                             <=> IsTrue(T, a) \/ IsTrue(T, b) \/ IsTrue(T, c)
BY DEF Fulfils

LEMMA GateIte ==
    ASSUME NEW T, NEW o, NEW s, NEW x1, NEW x0
    PROVE  Fulfils(T, gen_ite(o, s, x1, x0)) <=>
             (IsTrue(T, o) <=> IF IsTrue(T, s) THEN IsTrue(T, x1) ELSE IsTrue(T, x0))
<1>1. Fulfils(T, gen_ite(o, s, x1, x0)) <=>
        /\ \E l \in {Neg(s), x1, Neg(o)} : IsTrue(T, l)
        /\ \E l \in {Neg(s), Neg(x1), o} : IsTrue(T, l)
        /\ \E l \in {s, x0, Neg(o)} : IsTrue(T, l)
        /\ \E l \in {s, Neg(x0), o} : IsTrue(T, l)
  BY DEF Fulfils, gen_ite
<1> QED BY <1>1, TrueLiterals, TrueClauses

LEMMA GateAnd ==
    ASSUME NEW T, NEW o, NEW x1, NEW x0
    PROVE  Fulfils(T, gen_and(o, x1, x0)) <=> (IsTrue(T, o) <=> IsTrue(T, x1) /\ IsTrue(T, x0))
<1>1. Fulfils(T, gen_and(o, x1, x0)) <=>
        /\ \E l \in {x1, Neg(o)} : IsTrue(T, l)
        /\ \E l \in {x0, Neg(o)} : IsTrue(T, l)
        /\ \E l \in {Neg(x1), Neg(x0), o} : IsTrue(T, l)
  BY DEF Fulfils, gen_and
<1> QED BY <1>1, TrueLiterals, TrueClauses

LEMMA GateOr ==
    ASSUME NEW T, NEW o, NEW x1, NEW x0
    PROVE  Fulfils(T, gen_or(o, x1, x0)) <=> (IsTrue(T, o) <=> IsTrue(T, x1) \/ IsTrue(T, x0))
<1>1. Fulfils(T, gen_or(o, x1, x0)) <=>
        /\ \E l \in {Neg(x1), o} : IsTrue(T, l)
        /\ \E l \in {Neg(x0), o} : IsTrue(T, l)
        /\ \E l \in {x1, x0, Neg(o)} : IsTrue(T, l)
  BY DEF Fulfils, gen_or
<1> QED BY <1>1, TrueLiterals, TrueClauses

LEMMA GateEquiv ==
    ASSUME NEW T, NEW o, NEW i
    PROVE  Fulfils(T, gen_2equiv(o, i)) <=> (IsTrue(T, o) <=> IsTrue(T, i))
<1>1. Fulfils(T, gen_2equiv(o, i)) <=>
        /\ \E l \in {Neg(i), o} : IsTrue(T, l)
        /\ \E l \in {i, Neg(o)} : IsTrue(T, l)
  BY DEF Fulfils, gen_2equiv
<1> QED BY <1>1, TrueLiterals, TrueClauses

LEMMA GateImplicIte ==
    ASSUME NEW T, NEW o, NEW s, NEW x1, NEW x0
    PROVE  Fulfils(T, gen_implic_pos_ite(o, s, x1, x0)) <=>
             (IsTrue(T, o) => IF IsTrue(T, s) THEN IsTrue(T, x1) ELSE IsTrue(T, x0))
<1>1. Fulfils(T, gen_implic_pos_ite(o, s, x1, x0)) <=>
        /\ \E l \in {Neg(s), x1, Neg(o)} : IsTrue(T, l)
        /\ \E l \in {s, x0, Neg(o)} : IsTrue(T, l)
  BY DEF Fulfils, gen_implic_pos_ite
<1> QED BY <1>1, TrueLiterals, TrueClauses

LEMMA GateImplicAnd ==
    ASSUME NEW T, NEW o, NEW x1, NEW x0
    PROVE  Fulfils(T, gen_implic_pos_and(o, x1, x0)) <=>
             (IsTrue(T, o) => IsTrue(T, x1) /\ IsTrue(T, x0))
<1>1. Fulfils(T, gen_implic_pos_and(o, x1, x0)) <=>
        /\ \E l \in {x1, Neg(o)} : IsTrue(T, l)
        /\ \E l \in {x0, Neg(o)} : IsTrue(T, l)
  BY DEF Fulfils, gen_implic_pos_and
<1> QED BY <1>1, TrueLiterals, TrueClauses

LEMMA GateImplicOr ==
    ASSUME NEW T, NEW o, NEW x1, NEW x0
    PROVE  Fulfils(T, gen_implic_pos_or(o, x1, x0)) <=>
             (IsTrue(T, o) => IsTrue(T, x1) \/ IsTrue(T, x0))
<1>1. Fulfils(T, gen_implic_pos_or(o, x1, x0)) <=>
        \E l \in {x1, x0, Neg(o)} : IsTrue(T, l)
  BY DEF Fulfils, gen_implic_pos_or
<1> QED BY <1>1, TrueLiterals, TrueClauses

(* Gates of a sequence with one more. *)
LEMMA ObeysAppend ==
    ASSUME NEW T, NEW A, NEW gates \in Seq(A), NEW last
    PROVE  Obeys(T, Append(gates, last)) <=> Obeys(T, gates) /\ Fulfils(T, last)
<1> DEFINE n == Len(gates)
           more == Append(gates, last)
<1>1. /\ n \in Nat /\ DOMAIN gates = 1..n /\ DOMAIN more = 1..(n + 1)
      /\ more[n + 1] = last /\ \A i \in 1..n : more[i] = gates[i]
  BY AppendProperties
<1> HIDE DEF more, n
<1>2. 1..(n + 1) = (1..n) \cup {n + 1}
  BY <1>1
<1>3. Obeys(T, more) <=> \A i \in (1..n) \cup {n + 1} : Fulfils(T, more[i])
  BY <1>1, <1>2 DEF Obeys
<1>4. Obeys(T, gates) <=> \A i \in 1..n : Fulfils(T, gates[i])
  BY <1>1 DEF Obeys
<1>5. Obeys(T, more) <=> Obeys(T, gates) /\ Fulfils(T, last)
  BY <1>1, <1>3, <1>4
<1> QED BY <1>5 DEF more

-----------------------------------------------------------------------------
(* The nodes of a strip. *)
InStrip(n, base, high, l, p) ==
    /\ l \in 0..(n - 1)
    /\ p \in Int
    /\ 0 <= p /\ base + l <= p /\ p <= l /\ p <= high

(* What Joins puts together has what its parts have. *)
LEMMA JoinedHas ==
    ASSUME NEW A, NEW seqs \in Seq(Seq(A)), NEW a
    PROVE  /\ FlattenSeq(seqs) \in Seq(A)
           /\ Contains(FlattenSeq(seqs), a) <=> \E j \in 1..Len(seqs) : Contains(seqs[j], a)
<1> DEFINE n == Len(seqs)
           Has(s) == \E i \in 1..Len(s) : s[i] = a
<1>1. PICK P : Joins(seqs, A, P)
  BY FlattenLoop
<1>2. /\ n \in Nat /\ P \in [0..n -> Seq(A)] /\ P[0] = <<>>
      /\ \A k \in 1..n : P[k] = P[k - 1] \o seqs[k]
      /\ FlattenSeq(seqs) = P[n]
  <2>1. n \in Nat
    OBVIOUS
  <2> QED BY <1>1, <2>1, Zenon DEF Joins
<1>3. \A k \in 1..n : seqs[k] \in Seq(A)
  OBVIOUS
<1>4. ASSUME NEW s \in Seq(A), NEW t \in Seq(A) PROVE Has(s \o t) <=> Has(s) \/ Has(t)
  <2>1. /\ Len(s) \in Nat /\ Len(t) \in Nat /\ Len(s \o t) = Len(s) + Len(t)
        /\ \A i \in 1..Len(s) : (s \o t)[i] = s[i]
        /\ \A i \in 1..Len(t) : (s \o t)[Len(s) + i] = t[i]
    BY ConcatProperties
  <2>2. ASSUME Has(s \o t) PROVE Has(s) \/ Has(t)
    <3>1. PICK i \in 1..Len(s \o t) : (s \o t)[i] = a
      BY <2>2
    <3>2. CASE i <= Len(s)
      BY <2>1, <3>1, <3>2
    <3>3. CASE i > Len(s)
      <4>1. i - Len(s) \in 1..Len(t) /\ i = Len(s) + (i - Len(s))
        BY <2>1, <3>3
      <4>2. t[i - Len(s)] = a
        BY <2>1, <3>1, <4>1
      <4> QED BY <4>1, <4>2
    <3> QED BY <2>1, <3>2, <3>3
  <2>3. ASSUME Has(s) PROVE Has(s \o t)
    <3>1. \A i \in 1..Len(s) : i \in 1..Len(s \o t)
      BY <2>1
    <3> QED BY <2>1, <2>3, <3>1
  <2>4. ASSUME Has(t) PROVE Has(s \o t)
    <3>1. \A i \in 1..Len(t) : Len(s) + i \in 1..Len(s \o t)
      BY <2>1
    <3> QED BY <2>1, <2>4, <3>1
  <2> QED BY <2>2, <2>3, <2>4
<1> DEFINE B == {k \in 0..n : Has(P[k]) <=> \E j \in 1..k : Has(seqs[j])}
<1>5. 0 \in B
  <2>1. ~Has(P[0])
    BY <1>2
  <2> HIDE DEF Has
  <2> QED BY <1>2, <2>1
<1>6. ASSUME NEW k \in 1..n, k - 1 \in B PROVE k \in B
  <2>1. k \in 0..n /\ k - 1 \in 0..n /\ 1..k = (1..(k - 1)) \cup {k}
    BY <1>2
  <2>2. P[k - 1] \in Seq(A) /\ seqs[k] \in Seq(A) /\ P[k] = P[k - 1] \o seqs[k]
    BY <1>2, <1>3, <2>1
  <2> HIDE DEF Has
  <2>3. Has(P[k]) <=> Has(P[k - 1]) \/ Has(seqs[k])
    BY <1>4, <2>2
  <2> QED BY <1>6, <2>1, <2>3
<1>7. n \in B
  <2>1. n \in 0..n
    BY <1>2
  <2> HIDE DEF B
  <2> QED BY <1>2, <1>5, <1>6, <2>1, UpTo
<1>8. P[n] \in Seq(A) /\ DOMAIN P[n] = 1..Len(P[n])
  <2>1. n \in 0..n
    BY <1>2
  <2>2. P[n] \in Seq(A)
    BY <1>2, <2>1
  <2> QED BY <2>2
<1>9. \A s : Contains(s, a) <=> Has(s)
  BY Zenon DEF Contains
<1>10. Has(P[n]) <=> \E j \in 1..n : Has(seqs[j])
  <2> HIDE DEF Has
  <2> QED BY <1>7
<1> QED BY <1>2, <1>8, <1>9, <1>10, Zenon

LEMMA StripHas ==
    ASSUME NEW n \in Nat, NEW base \in Int, NEW high \in Int
    PROVE  /\ Strip(n, base, high) \in Seq((0..(n - 1)) \X Int)
           /\ \A l, p : (\E i \in DOMAIN Strip(n, base, high) : Strip(n, base, high)[i] = <<l, p>>)
                          <=> InStrip(n, base, high, l, p)
<1> DEFINE lo(l) == Larger(0, base + l)
           hi(l) == Smaller(l, high)
           row(l) == [i \in 1..(hi(l) - lo(l) + 1) |-> <<l, hi(l) - i + 1>>]
           rows == [j \in 1..n |-> row(n - j)]
           A == (0..(n - 1)) \X Int
<1>1. \A l \in Int : lo(l) \in Int /\ hi(l) \in Int
  BY DEF Larger, Smaller
<1>2. ASSUME NEW l \in 0..(n - 1)
      PROVE  /\ row(l) \in Seq(A)
             /\ DOMAIN row(l) = 1..Len(row(l))
             /\ DOMAIN row(l) = 1..(hi(l) - lo(l) + 1)
  <2>1. l \in Int /\ lo(l) \in Int /\ hi(l) \in Int
    BY <1>1
  <2> DEFINE m == hi(l) - lo(l) + 1
  <2>2. PICK len \in Nat : 1..m = 1..len
    <3>1. CASE m \in Nat
      BY <3>1
    <3>2. CASE m \notin Nat
      <4>1. 1..m = 1..0
        BY <2>1, <3>2
      <4> QED BY <4>1
    <3> QED BY <3>1, <3>2
  <2>3. \A i \in 1..len : <<l, hi(l) - i + 1>> \in A
    BY <2>1
  <2> DEFINE f == [i \in 1..len |-> <<l, hi(l) - i + 1>>]
  <2>4. row(l) = f
    BY <2>2, Zenon
  <2>5. f \in Seq(A) /\ DOMAIN f = 1..Len(f) /\ DOMAIN f = 1..m
    <3> HIDE DEF A, m, lo, hi
    <3>1. f \in [1..len -> A]
      BY <2>3
    <3> QED BY <2>2, <3>1
  <2> HIDE DEF f, row
  <2> QED BY <2>4, <2>5, Zenon DEF m
<1>3. rows \in Seq(Seq(A)) /\ Len(rows) = n
  <2>1. \A j \in 1..n : n - j \in 0..(n - 1)
    OBVIOUS
  <2> HIDE DEF row, A
  <2> QED BY <1>2, <2>1
<1>4. Strip(n, base, high) = FlattenSeq(rows)
  BY Zenon DEF Strip
<1>5. ASSUME NEW l, NEW p
      PROVE  (\E j \in 1..n : \E i \in 1..Len(rows[j]) : rows[j][i] = <<l, p>>)
                <=> InStrip(n, base, high, l, p)
  <2>1. ASSUME NEW j \in 1..n, NEW i \in 1..Len(rows[j]), rows[j][i] = <<l, p>>
        PROVE  InStrip(n, base, high, l, p)
    <3>1. n - j \in 0..(n - 1) /\ rows[j] = row(n - j)
      OBVIOUS
    <3>2. i \in 1..(hi(n - j) - lo(n - j) + 1) /\ <<l, p>> = <<n - j, hi(n - j) - i + 1>>
      <4> HIDE DEF hi, lo, rows
      <4> QED BY <1>2, <2>1, <3>1
    <3>3. l = n - j /\ p = hi(l) - i + 1
      BY <3>2
    <3>4. lo(l) \in Int /\ hi(l) \in Int /\ i \in 1..(hi(l) - lo(l) + 1) /\ l \in 0..(n - 1)
      BY <1>1, <3>1, <3>2, <3>3
    <3>5. lo(l) <= p /\ p <= hi(l) /\ p \in Int
      <4> HIDE DEF lo, hi
      <4> QED BY <3>3, <3>4
    <3>6. 0 <= lo(l) /\ base + l <= lo(l) /\ hi(l) <= l /\ hi(l) <= high
      BY <3>4 DEF Larger, Smaller
    <3> HIDE DEF lo, hi
    <3> QED BY <3>4, <3>5, <3>6 DEF InStrip
  <2>2. ASSUME InStrip(n, base, high, l, p)
        PROVE  \E j \in 1..n : \E i \in 1..Len(rows[j]) : rows[j][i] = <<l, p>>
    <3>1. l \in 0..(n - 1) /\ p \in Int /\ lo(l) <= p /\ p <= hi(l)
      BY <2>2 DEF InStrip, Larger, Smaller
    <3>2. n - l \in 1..n /\ n - (n - l) = l
      BY <3>1
    <3>3. rows[n - l] = row(l)
      <4> HIDE DEF row
      <4> QED BY <3>2
    <3>4. lo(l) \in Int /\ hi(l) \in Int
      BY <1>1, <3>1
    <3> HIDE DEF lo, hi, rows
    <3>5. hi(l) - p + 1 \in 1..(hi(l) - lo(l) + 1) /\ hi(l) - (hi(l) - p + 1) + 1 = p
      BY <3>1, <3>4
    <3>6. row(l)[hi(l) - p + 1] = <<l, p>>
      BY <3>5
    <3>7. hi(l) - p + 1 \in 1..Len(row(l))
      <4> HIDE DEF row
      <4> QED BY <1>2, <3>1, <3>5
    <3> QED BY <3>2, <3>3, <3>6, <3>7, Zenon
  <2> QED BY <2>1, <2>2
<1> HIDE DEF rows, A
<1>6. FlattenSeq(rows) \in Seq(A)
  BY <1>3, JoinedHas
<1>7. \A l, p : (\E i \in DOMAIN FlattenSeq(rows) : FlattenSeq(rows)[i] = <<l, p>>)
                  <=> InStrip(n, base, high, l, p)
  <2> TAKE l, p
  <2>1. (\E i \in DOMAIN FlattenSeq(rows) : FlattenSeq(rows)[i] = <<l, p>>)
          <=> \E j \in 1..Len(rows) : \E i \in 1..Len(rows[j]) : rows[j][i] = <<l, p>>
    <3>1. rows \in Seq(Seq(A))
      BY <1>3
    <3> DEFINE q == <<l, p>>
    <3> HIDE DEF lo, hi, row, q
    <3>2. Contains(FlattenSeq(rows), q) <=> \E j \in 1..Len(rows) : Contains(rows[j], q)
      BY <3>1, JoinedHas
    <3>3. DOMAIN FlattenSeq(rows) = 1..Len(FlattenSeq(rows))
      BY <1>6
    <3> QED BY <3>2, <3>3, Zenon DEF q, Contains
  <2> QED BY <1>3, <1>5, <2>1, Zenon
<1> QED BY <1>4, <1>6, <1>7, Zenon DEF A

(* The gates of a strip, one for each node, and the last of all. *)
LEMMA StripObeys ==
    ASSUME NEW n \in Nat, NEW base \in Int, NEW high \in Int, NEW T, NEW last,
           NEW G, NEW gates,
           gates = [i \in DOMAIN Strip(n, base, high) |-> G[Strip(n, base, high)[i]]]
    PROVE  Obeys(T, Append(gates, last)) <=>
             /\ Fulfils(T, last)
             /\ \A l, p : InStrip(n, base, high, l, p) => Fulfils(T, G[<<l, p>>])
<1> DEFINE nodes == Strip(n, base, high)
           A == {G[nodes[i]] : i \in DOMAIN nodes}
<1>1. nodes \in Seq((0..(n - 1)) \X Int)
  BY StripHas, Zenon
<1> HIDE DEF nodes
<1>2. DOMAIN nodes = 1..Len(nodes) /\ Len(nodes) \in Nat /\ \A i \in DOMAIN nodes : nodes[i] \in (0..(n - 1)) \X Int
  BY <1>1
<1>3. gates = [i \in DOMAIN nodes |-> G[nodes[i]]]
  BY Zenon DEF nodes
<1>4. gates \in Seq(A)
  BY <1>2, <1>3
<1>5. Obeys(T, Append(gates, last)) <=> Obeys(T, gates) /\ Fulfils(T, last)
  <2> HIDE DEF A
  <2> QED BY <1>4, ObeysAppend, Zenon
<1>6. Obeys(T, gates) <=> \A i \in DOMAIN nodes : Fulfils(T, G[nodes[i]])
  BY <1>3, Zenon DEF Obeys
<1>7. \A l, p : (\E i \in DOMAIN nodes : nodes[i] = <<l, p>>) <=> InStrip(n, base, high, l, p)
  BY StripHas, Zenon DEF nodes
<1>8. ASSUME NEW i \in DOMAIN nodes PROVE \E l, p : nodes[i] = <<l, p>>
  BY <1>2
<1>9. (\A i \in DOMAIN nodes : Fulfils(T, G[nodes[i]]))
         <=> \A l, p : InStrip(n, base, high, l, p) => Fulfils(T, G[<<l, p>>])
  <2>1. ASSUME \A i \in DOMAIN nodes : Fulfils(T, G[nodes[i]]),
               NEW l, NEW p, InStrip(n, base, high, l, p)
        PROVE  Fulfils(T, G[<<l, p>>])
    <3>1. PICK i \in DOMAIN nodes : nodes[i] = <<l, p>>
      BY <1>7, <2>1, Zenon
    <3> QED BY <2>1, <3>1, Zenon
  <2>2. ASSUME \A l, p : InStrip(n, base, high, l, p) => Fulfils(T, G[<<l, p>>]),
               NEW i \in DOMAIN nodes
        PROVE  Fulfils(T, G[nodes[i]])
    <3>1. PICK l, p : nodes[i] = <<l, p>>
      BY <1>8, Zenon
    <3>2. InStrip(n, base, high, l, p)
      BY <1>7, <3>1, Zenon
    <3> QED BY <2>2, <3>1, <3>2, Zenon
  <2> QED BY <2>1, <2>2, Zenon
<1> QED BY <1>5, <1>6, <1>9

-----------------------------------------------------------------------------
(* The BDD of an at-most constraint.  Obeyed is what the nodes say. *)
Y(k, l, p) == <<"y", k, l, p>>

(* What each node of an at-most constraint says, with equivalences (whole)  *)
(* or with implications only.                                               *)
AtMostSays(T, k, xs, tval, l, p, whole) ==
    LET y == Y(k, l, p) \in T
        x == IsTrue(T, xs[l + 1])
        y1 == Y(k, l + 1, p + 1) \in T
        y0 == Y(k, l + 1, p) \in T
        low == tval - (Len(xs) - l) + 1
    IN  /\ p < tval /\ p > low =>
             (y => IF x THEN y1 ELSE y0) /\ (whole => ((IF x THEN y1 ELSE y0) => y))
        /\ p < tval /\ p = low => (y => ~x \/ y1) /\ (whole => (~x \/ y1 => y))
        /\ p = tval /\ p > low => (y => ~x /\ y0) /\ (whole => (~x /\ y0 => y))
        /\ p = tval /\ p = low => (y <=> ~x)

LEMMA AtMostEquivObeys ==
    ASSUME NEW A, NEW xs \in Seq(A), NEW tval \in Int, NEW k, NEW T
    PROVE  Obeys(T, bdd_gen_atmostN(k, xs, tval)) <=>
             /\ Y(k, 0, 0) \in T
             /\ \A l, p : InStrip(Len(xs), tval - Len(xs) + 1, tval, l, p) => AtMostSays(T, k, xs, tval, l, p, TRUE)
<1> DEFINE n == Len(xs)
           nodes == Strip(n, tval - n + 1, tval)
           y(l, p) == mk_yvar(k, l, p)
           not(l) == Neg(xs[l + 1])
           gate(l, p) ==
             CASE p < tval /\ p > tval - (n - l) + 1 -> gen_ite(y(l, p), xs[l + 1], y(l + 1, p + 1), y(l + 1, p))
               [] p < tval /\ p = tval - (n - l) + 1 -> gen_or(y(l, p), not(l), y(l + 1, p + 1))
               [] p = tval /\ p > tval - (n - l) + 1 -> gen_and(y(l, p), not(l), y(l + 1, p))
               [] p = tval /\ p = tval - (n - l) + 1 -> gen_2equiv(y(l, p), not(l))
           G == [q \in (0..(n - 1)) \X Int |-> gate(q[1], q[2])]
           gates == [i \in DOMAIN nodes |-> G[nodes[i]]]
<1>0. n \in Nat /\ tval - n + 1 \in Int /\ tval \in Int
  OBVIOUS
<1>1. bdd_gen_atmostN(k, xs, tval) = Append(gates, {{y(0, 0)}})
  <2>2. bdd_gen_atmostN(k, xs, tval) =
          Append([i \in DOMAIN nodes |-> gate(nodes[i][1], nodes[i][2])], {{y(0, 0)}})
    BY Zenon DEF bdd_gen_atmostN, AtMostNodes
  <2> HIDE DEF n
  <2>3. \A i \in DOMAIN nodes : nodes[i] \in (0..(n - 1)) \X Int
    <3>1. nodes \in Seq((0..(n - 1)) \X Int)
      BY <1>0, StripHas, Zenon
    <3> HIDE DEF nodes
    <3> QED BY <3>1
  <2>4. \A i \in DOMAIN nodes : G[nodes[i]] = gate(nodes[i][1], nodes[i][2])
    <3> HIDE DEF nodes, gate
    <3> QED BY <2>3
  <2>5. [i \in DOMAIN nodes |-> gate(nodes[i][1], nodes[i][2])] = gates
    <3> HIDE DEF nodes, gate, G
    <3> QED BY <2>4
  <2> HIDE DEF gates, nodes, gate
  <2> QED BY <2>2, <2>5
<1>2. ASSUME NEW l, NEW p, InStrip(n, tval - n + 1, tval, l, p)
      PROVE  Fulfils(T, G[<<l, p>>]) <=> AtMostSays(T, k, xs, tval, l, p, TRUE)
  <2> HIDE DEF n
  <2>1. l \in 0..(n - 1) /\ p \in Int /\ p <= tval /\ p >= tval - (n - l) + 1
    BY <1>0, <1>2 DEF InStrip
  <2>2. G[<<l, p>>] = gate(l, p)
    <3> HIDE DEF gate
    <3> QED BY <2>1
  <2>3. \A i, j : IsTrue(T, y(i, j)) <=> Y(k, i, j) \in T
    BY TrueLiterals DEF mk_yvar, Y
  <2>4. IsTrue(T, not(l)) <=> ~IsTrue(T, xs[l + 1])
    BY TrueLiterals
  <2>5. CASE p < tval /\ p > tval - (n - l) + 1
    <3>1. gate(l, p) = gen_ite(y(l, p), xs[l + 1], y(l + 1, p + 1), y(l + 1, p))
      BY <1>0, <2>1, <2>5
    <3> HIDE DEF gate, G, y, not
    <3>2. Fulfils(T, gen_ite(y(l, p), xs[l + 1], y(l + 1, p + 1), y(l + 1, p))) <=>
            (IsTrue(T, y(l, p)) <=> IF IsTrue(T, xs[l + 1]) THEN IsTrue(T, y(l + 1, p + 1)) ELSE IsTrue(T, y(l + 1, p)))
      BY GateIte
    <3> QED BY <1>0, <2>1, <2>2, <2>3, <2>5, <3>1, <3>2 DEF AtMostSays, n
  <2>6. CASE p < tval /\ p = tval - (n - l) + 1
    <3>1. gate(l, p) = gen_or(y(l, p), not(l), y(l + 1, p + 1))
      BY <1>0, <2>1, <2>6
    <3> HIDE DEF gate, G, y, not
    <3>2. Fulfils(T, gen_or(y(l, p), not(l), y(l + 1, p + 1))) <=> (IsTrue(T, y(l, p)) <=> IsTrue(T, not(l)) \/ IsTrue(T, y(l + 1, p + 1)))
      BY GateOr
    <3> QED BY <1>0, <2>1, <2>2, <2>3, <2>4, <2>6, <3>1, <3>2 DEF AtMostSays, n
  <2>7. CASE p = tval /\ p > tval - (n - l) + 1
    <3>1. gate(l, p) = gen_and(y(l, p), not(l), y(l + 1, p))
      BY <1>0, <2>1, <2>7
    <3> HIDE DEF gate, G, y, not
    <3>2. Fulfils(T, gen_and(y(l, p), not(l), y(l + 1, p))) <=> (IsTrue(T, y(l, p)) <=> IsTrue(T, not(l)) /\ IsTrue(T, y(l + 1, p)))
      BY GateAnd
    <3> QED BY <1>0, <2>1, <2>2, <2>3, <2>4, <2>7, <3>1, <3>2 DEF AtMostSays, n
  <2>8. CASE p = tval /\ p = tval - (n - l) + 1
    <3>1. gate(l, p) = gen_2equiv(y(l, p), not(l))
      BY <1>0, <2>1, <2>8
    <3> HIDE DEF gate, G, y, not
    <3>2. Fulfils(T, gen_2equiv(y(l, p), not(l))) <=> (IsTrue(T, y(l, p)) <=> IsTrue(T, not(l)))
      BY GateEquiv
    <3> QED BY <1>0, <2>1, <2>2, <2>3, <2>4, <2>8, <3>1, <3>2 DEF AtMostSays, n
  <2>9. p < tval \/ p = tval
    BY <1>0, <2>1
  <2>10. p > tval - (n - l) + 1 \/ p = tval - (n - l) + 1
    BY <1>0, <2>1
  <2> QED BY <2>5, <2>6, <2>7, <2>8, <2>9, <2>10, Zenon
<1>3. Fulfils(T, {{y(0, 0)}}) <=> Y(k, 0, 0) \in T
  BY TrueLiterals, TrueClauses DEF mk_yvar, Y
<1> HIDE DEF G, y, n
<1>4. Obeys(T, Append(gates, {{y(0, 0)}})) <=>
        /\ Fulfils(T, {{y(0, 0)}})
        /\ \A l, p : InStrip(n, tval - n + 1, tval, l, p) => Fulfils(T, G[<<l, p>>])
  BY <1>0, StripObeys, Zenon
<1> HIDE DEF gates
<1> QED BY <1>1, <1>2, <1>3, <1>4, Zenon DEF n

LEMMA AtMostImplicObeys ==
    ASSUME NEW A, NEW xs \in Seq(A), NEW tval \in Int, NEW k, NEW T
    PROVE  Obeys(T, bdd_atmostN_implic(k, xs, tval)) <=>
             /\ Y(k, 0, 0) \in T
             /\ \A l, p : InStrip(Len(xs), tval - Len(xs) + 1, tval, l, p) => AtMostSays(T, k, xs, tval, l, p, FALSE)
<1> DEFINE n == Len(xs)
           nodes == Strip(n, tval - n + 1, tval)
           y(l, p) == mk_yvar(k, l, p)
           not(l) == Neg(xs[l + 1])
           gate(l, p) ==
             CASE p < tval /\ p > tval - (n - l) + 1 -> gen_implic_pos_ite(y(l, p), xs[l + 1], y(l + 1, p + 1), y(l + 1, p))
               [] p < tval /\ p = tval - (n - l) + 1 -> gen_implic_pos_or(y(l, p), not(l), y(l + 1, p + 1))
               [] p = tval /\ p > tval - (n - l) + 1 -> gen_implic_pos_and(y(l, p), not(l), y(l + 1, p))
               [] p = tval /\ p = tval - (n - l) + 1 -> gen_2equiv(y(l, p), not(l))
           G == [q \in (0..(n - 1)) \X Int |-> gate(q[1], q[2])]
           gates == [i \in DOMAIN nodes |-> G[nodes[i]]]
<1>0. n \in Nat /\ tval - n + 1 \in Int /\ tval \in Int
  OBVIOUS
<1>1. bdd_atmostN_implic(k, xs, tval) = Append(gates, {{y(0, 0)}})
  <2>2. bdd_atmostN_implic(k, xs, tval) =
          Append([i \in DOMAIN nodes |-> gate(nodes[i][1], nodes[i][2])], {{y(0, 0)}})
    BY Zenon DEF bdd_atmostN_implic, AtMostNodes
  <2> HIDE DEF n
  <2>3. \A i \in DOMAIN nodes : nodes[i] \in (0..(n - 1)) \X Int
    <3>1. nodes \in Seq((0..(n - 1)) \X Int)
      BY <1>0, StripHas, Zenon
    <3> HIDE DEF nodes
    <3> QED BY <3>1
  <2>4. \A i \in DOMAIN nodes : G[nodes[i]] = gate(nodes[i][1], nodes[i][2])
    <3> HIDE DEF nodes, gate
    <3> QED BY <2>3
  <2>5. [i \in DOMAIN nodes |-> gate(nodes[i][1], nodes[i][2])] = gates
    <3> HIDE DEF nodes, gate, G
    <3> QED BY <2>4
  <2> HIDE DEF gates, nodes, gate
  <2> QED BY <2>2, <2>5
<1>2. ASSUME NEW l, NEW p, InStrip(n, tval - n + 1, tval, l, p)
      PROVE  Fulfils(T, G[<<l, p>>]) <=> AtMostSays(T, k, xs, tval, l, p, FALSE)
  <2> HIDE DEF n
  <2>1. l \in 0..(n - 1) /\ p \in Int /\ p <= tval /\ p >= tval - (n - l) + 1
    BY <1>0, <1>2 DEF InStrip
  <2>2. G[<<l, p>>] = gate(l, p)
    <3> HIDE DEF gate
    <3> QED BY <2>1
  <2>3. \A i, j : IsTrue(T, y(i, j)) <=> Y(k, i, j) \in T
    BY TrueLiterals DEF mk_yvar, Y
  <2>4. IsTrue(T, not(l)) <=> ~IsTrue(T, xs[l + 1])
    BY TrueLiterals
  <2>5. CASE p < tval /\ p > tval - (n - l) + 1
    <3>1. gate(l, p) = gen_implic_pos_ite(y(l, p), xs[l + 1], y(l + 1, p + 1), y(l + 1, p))
      BY <1>0, <2>1, <2>5
    <3> HIDE DEF gate, G, y, not
    <3>2. Fulfils(T, gen_implic_pos_ite(y(l, p), xs[l + 1], y(l + 1, p + 1), y(l + 1, p))) <=>
            (IsTrue(T, y(l, p)) => IF IsTrue(T, xs[l + 1]) THEN IsTrue(T, y(l + 1, p + 1)) ELSE IsTrue(T, y(l + 1, p)))
      BY GateImplicIte
    <3> QED BY <1>0, <2>1, <2>2, <2>3, <2>5, <3>1, <3>2 DEF AtMostSays, n
  <2>6. CASE p < tval /\ p = tval - (n - l) + 1
    <3>1. gate(l, p) = gen_implic_pos_or(y(l, p), not(l), y(l + 1, p + 1))
      BY <1>0, <2>1, <2>6
    <3> HIDE DEF gate, G, y, not
    <3>2. Fulfils(T, gen_implic_pos_or(y(l, p), not(l), y(l + 1, p + 1))) <=> (IsTrue(T, y(l, p)) => IsTrue(T, not(l)) \/ IsTrue(T, y(l + 1, p + 1)))
      BY GateImplicOr
    <3> QED BY <1>0, <2>1, <2>2, <2>3, <2>4, <2>6, <3>1, <3>2 DEF AtMostSays, n
  <2>7. CASE p = tval /\ p > tval - (n - l) + 1
    <3>1. gate(l, p) = gen_implic_pos_and(y(l, p), not(l), y(l + 1, p))
      BY <1>0, <2>1, <2>7
    <3> HIDE DEF gate, G, y, not
    <3>2. Fulfils(T, gen_implic_pos_and(y(l, p), not(l), y(l + 1, p))) <=> (IsTrue(T, y(l, p)) => IsTrue(T, not(l)) /\ IsTrue(T, y(l + 1, p)))
      BY GateImplicAnd
    <3> QED BY <1>0, <2>1, <2>2, <2>3, <2>4, <2>7, <3>1, <3>2 DEF AtMostSays, n
  <2>8. CASE p = tval /\ p = tval - (n - l) + 1
    <3>1. gate(l, p) = gen_2equiv(y(l, p), not(l))
      BY <1>0, <2>1, <2>8
    <3> HIDE DEF gate, G, y, not
    <3>2. Fulfils(T, gen_2equiv(y(l, p), not(l))) <=> (IsTrue(T, y(l, p)) <=> IsTrue(T, not(l)))
      BY GateEquiv
    <3> QED BY <1>0, <2>1, <2>2, <2>3, <2>4, <2>8, <3>1, <3>2 DEF AtMostSays, n
  <2>9. p < tval \/ p = tval
    BY <1>0, <2>1
  <2>10. p > tval - (n - l) + 1 \/ p = tval - (n - l) + 1
    BY <1>0, <2>1
  <2> QED BY <2>5, <2>6, <2>7, <2>8, <2>9, <2>10, Zenon
<1>3. Fulfils(T, {{y(0, 0)}}) <=> Y(k, 0, 0) \in T
  BY TrueLiterals, TrueClauses DEF mk_yvar, Y
<1> HIDE DEF G, y, n
<1>4. Obeys(T, Append(gates, {{y(0, 0)}})) <=>
        /\ Fulfils(T, {{y(0, 0)}})
        /\ \A l, p : InStrip(n, tval - n + 1, tval, l, p) => Fulfils(T, G[<<l, p>>])
  BY <1>0, StripObeys, Zenon
<1> HIDE DEF gates
<1> QED BY <1>1, <1>2, <1>3, <1>4, Zenon DEF n

AtLeastSays(T, k, xs, tval, l, p) ==
    LET y == Y(k, l, p) \in T
        x == IsTrue(T, xs[l + 1])
        y1 == Y(k, l + 1, p + 1) \in T
        y0 == Y(k, l + 1, p) \in T
        low == tval - (Len(xs) - l)
    IN  /\ p < tval - 1 /\ p > low => (y <=> IF x THEN y1 ELSE y0)
        /\ p < tval - 1 /\ p = low => (y <=> x /\ y1)
        /\ p = tval - 1 /\ p > low => (y <=> x \/ y0)
        /\ p = tval - 1 /\ p = low => (y <=> x)

LEMMA AtLeastObeys ==
    ASSUME NEW A, NEW xs \in Seq(A), NEW tval \in Int, NEW k, NEW T
    PROVE  Obeys(T, bdd_gen_atleastN(k, xs, tval)) <=>
             /\ Y(k, 0, 0) \in T
             /\ \A l, p : InStrip(Len(xs), tval - Len(xs), tval - 1, l, p) => AtLeastSays(T, k, xs, tval, l, p)
<1> DEFINE n == Len(xs)
           nodes == Strip(n, tval - n, tval - 1)
           y(l, p) == mk_yvar(k, l, p)
           gate(l, p) ==
             CASE p < tval - 1 /\ p > tval - (n - l) -> gen_ite(y(l, p), xs[l + 1], y(l + 1, p + 1), y(l + 1, p))
               [] p < tval - 1 /\ p = tval - (n - l) -> gen_and(y(l, p), xs[l + 1], y(l + 1, p + 1))
               [] p = tval - 1 /\ p > tval - (n - l) -> gen_or(y(l, p), xs[l + 1], y(l + 1, p))
               [] p = tval - 1 /\ p = tval - (n - l) -> gen_2equiv(y(l, p), xs[l + 1])
           G == [q \in (0..(n - 1)) \X Int |-> gate(q[1], q[2])]
           gates == [i \in DOMAIN nodes |-> G[nodes[i]]]
<1>0. n \in Nat /\ tval - n \in Int /\ tval - 1 \in Int
  OBVIOUS
<1>1. bdd_gen_atleastN(k, xs, tval) = Append(gates, {{y(0, 0)}})
  <2>2. bdd_gen_atleastN(k, xs, tval) =
          Append([i \in DOMAIN nodes |-> gate(nodes[i][1], nodes[i][2])], {{y(0, 0)}})
    BY Zenon DEF bdd_gen_atleastN
  <2> HIDE DEF n
  <2>3. \A i \in DOMAIN nodes : nodes[i] \in (0..(n - 1)) \X Int
    <3>1. nodes \in Seq((0..(n - 1)) \X Int)
      BY <1>0, StripHas, Zenon
    <3> HIDE DEF nodes
    <3> QED BY <3>1
  <2>4. \A i \in DOMAIN nodes : G[nodes[i]] = gate(nodes[i][1], nodes[i][2])
    <3> HIDE DEF nodes, gate
    <3> QED BY <2>3
  <2>5. [i \in DOMAIN nodes |-> gate(nodes[i][1], nodes[i][2])] = gates
    <3> HIDE DEF nodes, gate, G
    <3> QED BY <2>4
  <2> HIDE DEF gates, nodes, gate
  <2> QED BY <2>2, <2>5
<1>2. ASSUME NEW l, NEW p, InStrip(n, tval - n, tval - 1, l, p)
      PROVE  Fulfils(T, G[<<l, p>>]) <=> AtLeastSays(T, k, xs, tval, l, p)
  <2> HIDE DEF n
  <2>1. l \in 0..(n - 1) /\ p \in Int /\ p <= tval - 1 /\ p >= tval - (n - l)
    BY <1>0, <1>2 DEF InStrip
  <2>2. G[<<l, p>>] = gate(l, p)
    <3> HIDE DEF gate
    <3> QED BY <2>1
  <2>3. \A i, j : IsTrue(T, y(i, j)) <=> Y(k, i, j) \in T
    BY TrueLiterals DEF mk_yvar, Y
  <2>5. CASE p < tval - 1 /\ p > tval - (n - l)
    <3>1. gate(l, p) = gen_ite(y(l, p), xs[l + 1], y(l + 1, p + 1), y(l + 1, p))
      BY <1>0, <2>1, <2>5
    <3> HIDE DEF gate, G, y
    <3>2. Fulfils(T, gen_ite(y(l, p), xs[l + 1], y(l + 1, p + 1), y(l + 1, p))) <=>
            (IsTrue(T, y(l, p)) <=> IF IsTrue(T, xs[l + 1]) THEN IsTrue(T, y(l + 1, p + 1)) ELSE IsTrue(T, y(l + 1, p)))
      BY GateIte
    <3> QED BY <1>0, <2>1, <2>2, <2>3, <2>5, <3>1, <3>2 DEF AtLeastSays, n
  <2>6. CASE p < tval - 1 /\ p = tval - (n - l)
    <3>1. gate(l, p) = gen_and(y(l, p), xs[l + 1], y(l + 1, p + 1))
      BY <1>0, <2>1, <2>6
    <3> HIDE DEF gate, G, y
    <3>2. Fulfils(T, gen_and(y(l, p), xs[l + 1], y(l + 1, p + 1))) <=> (IsTrue(T, y(l, p)) <=> IsTrue(T, xs[l + 1]) /\ IsTrue(T, y(l + 1, p + 1)))
      BY GateAnd
    <3> QED BY <1>0, <2>1, <2>2, <2>3, <2>6, <3>1, <3>2 DEF AtLeastSays, n
  <2>7. CASE p = tval - 1 /\ p > tval - (n - l)
    <3>1. gate(l, p) = gen_or(y(l, p), xs[l + 1], y(l + 1, p))
      BY <1>0, <2>1, <2>7
    <3> HIDE DEF gate, G, y
    <3>2. Fulfils(T, gen_or(y(l, p), xs[l + 1], y(l + 1, p))) <=> (IsTrue(T, y(l, p)) <=> IsTrue(T, xs[l + 1]) \/ IsTrue(T, y(l + 1, p)))
      BY GateOr
    <3> QED BY <1>0, <2>1, <2>2, <2>3, <2>7, <3>1, <3>2 DEF AtLeastSays, n
  <2>8. CASE p = tval - 1 /\ p = tval - (n - l)
    <3>1. gate(l, p) = gen_2equiv(y(l, p), xs[l + 1])
      BY <1>0, <2>1, <2>8
    <3> HIDE DEF gate, G, y
    <3>2. Fulfils(T, gen_2equiv(y(l, p), xs[l + 1])) <=> (IsTrue(T, y(l, p)) <=> IsTrue(T, xs[l + 1]))
      BY GateEquiv
    <3> QED BY <1>0, <2>1, <2>2, <2>3, <2>8, <3>1, <3>2 DEF AtLeastSays, n
  <2>9. p < tval - 1 \/ p = tval - 1
    BY <1>0, <2>1
  <2>10. p > tval - (n - l) \/ p = tval - (n - l)
    BY <1>0, <2>1
  <2> QED BY <2>5, <2>6, <2>7, <2>8, <2>9, <2>10, Zenon
<1>3. Fulfils(T, {{y(0, 0)}}) <=> Y(k, 0, 0) \in T
  BY TrueLiterals, TrueClauses DEF mk_yvar, Y
<1> HIDE DEF G, y, n
<1>4. Obeys(T, Append(gates, {{y(0, 0)}})) <=>
        /\ Fulfils(T, {{y(0, 0)}})
        /\ \A l, p : InStrip(n, tval - n, tval - 1, l, p) => Fulfils(T, G[<<l, p>>])
  BY <1>0, StripObeys, Zenon
<1> HIDE DEF gates
<1> QED BY <1>1, <1>2, <1>3, <1>4, Zenon DEF n

LEMMA InputsLen ==
    \A n \in Nat : /\ Len(Inputs(n)) = n /\ DOMAIN Inputs(n) = 1..n
                   /\ \A i \in 1..n : Inputs(n)[i] = Pos(<<"x", i>>)
BY DEF Inputs

LEMMA InputLiterals ==
    ASSUME NEW n \in Nat, NEW T
    PROVE  /\ Inputs(n) \in Seq({Pos(<<"x", i>>) : i \in 1..n}) /\ Len(Inputs(n)) = n
           /\ DOMAIN Inputs(n) = 1..n
           /\ \A l \in 0..(n - 1) : IsTrue(T, Inputs(n)[l + 1]) <=> <<"x", l + 1>> \in T
           /\ \A i \in 1..n : IsTrue(T, Inputs(n)[i]) <=> <<"x", i>> \in T
<1>1. \A i \in 1..n : Inputs(n)[i] = Pos(<<"x", i>>)
  BY DEF Inputs
<1>2. \A i \in 1..n : IsTrue(T, Inputs(n)[i]) <=> <<"x", i>> \in T
  BY <1>1, TrueLiterals
<1>3. \A l \in 0..(n - 1) : l + 1 \in 1..n
  OBVIOUS
<1>4. Inputs(n) \in Seq({Pos(<<"x", i>>) : i \in 1..n}) /\ Len(Inputs(n)) = n /\ DOMAIN Inputs(n) = 1..n
  BY DEF Inputs
<1> QED BY <1>2, <1>3, <1>4

(* One step further down a BDD the count of the inputs that are true grows  *)
(* by the one that is tested.                                               *)
LEMMA CountStep ==
    ASSUME NEW T, NEW n \in Nat, NEW l \in 0..(n - 1)
    PROVE  /\ Count(T, l) \in Nat /\ Count(T, l) <= l
           /\ IsTrue(T, Inputs(n)[l + 1]) => Count(T, l + 1) = Count(T, l) + 1
           /\ ~IsTrue(T, Inputs(n)[l + 1]) => Count(T, l + 1) = Count(T, l)
<1>1. l \in Nat
  OBVIOUS
<1>2. IsTrue(T, Inputs(n)[l + 1]) <=> <<"x", l + 1>> \in T
  BY InputLiterals
<1>3. Count(T, l) \in Nat /\ Count(T, l + 1) = Count(T, l) + (IF <<"x", l + 1>> \in T THEN 1 ELSE 0)
  BY <1>1, CountIs
<1>4. Count(T, l) \in 0..l
  BY <1>1, CountUpTo
<1> QED BY <1>2, <1>3, <1>4

LEMMA AtMostSound ==
    ASSUME NEW n \in Nat, NEW tval \in 1..(n - 2), NEW k, NEW T,
           Y(k, 0, 0) \in T,
           \A l, p : InStrip(n, tval - n + 1, tval, l, p) =>
                       AtMostSays(T, k, Inputs(n), tval, l, p, FALSE)
    PROVE  Count(T, n) <= tval
<1> DEFINE c(l) == Count(T, l)
           low(l) == tval - (n - l) + 1
           P == {l \in 0..n : \/ c(l) < low(l)
                              \/ low(l) <= c(l) /\ c(l) <= tval /\ Y(k, l, c(l)) \in T}
<1>1. 0 \in P
  <2>1. c(0) = 0
    BY CountZero
  <2>2. Y(k, 0, c(0)) \in T
    BY <2>1, Zenon
  <2> QED BY <2>1, <2>2
<1>2. ASSUME NEW j \in 1..n, j - 1 \in P PROVE j \in P
  <2>1. PICK l \in 0..(n - 1) : l = j - 1
    OBVIOUS
  <2>2. j = l + 1 /\ l \in P
    BY <1>2, <2>1
  <2>3. /\ c(l) \in Nat /\ c(l) <= l
        /\ IsTrue(T, Inputs(n)[l + 1]) => c(l + 1) = c(l) + 1
        /\ ~IsTrue(T, Inputs(n)[l + 1]) => c(l + 1) = c(l)
    BY CountStep
  <2>4. CASE c(l) < low(l)
    <3>1. c(l + 1) <= c(l) + 1 /\ c(l + 1) \in Nat
      BY <2>3
    <3>2. c(l + 1) < low(l + 1)
      <4> HIDE DEF c
      <4> QED BY <2>3, <2>4, <3>1
    <3>3. l + 1 \in 0..n
      BY <2>1
    <3> QED BY <2>2, <3>2, <3>3
  <2>5. CASE low(l) <= c(l) /\ c(l) <= tval /\ Y(k, l, c(l)) \in T
    <3> DEFINE p == c(l)
    <3>1. InStrip(n, tval - n + 1, tval, l, p)
      <4> HIDE DEF c
      <4> QED BY <2>3, <2>5 DEF InStrip
    <3>2. AtMostSays(T, k, Inputs(n), tval, l, p, FALSE)
      BY <3>1
    <3>3. Len(Inputs(n)) = n
      BY InputLiterals
    <3>4. p \in Nat /\ Y(k, l, p) \in T /\ low(l) <= p /\ p <= tval
      BY <2>3, <2>5
    <3> HIDE DEF p
    <3>5. /\ p < tval /\ p > low(l) => IF IsTrue(T, Inputs(n)[l + 1]) THEN Y(k, l + 1, p + 1) \in T
                                                                     ELSE Y(k, l + 1, p) \in T
          /\ p < tval /\ p = low(l) => ~IsTrue(T, Inputs(n)[l + 1]) \/ Y(k, l + 1, p + 1) \in T
          /\ p = tval /\ p > low(l) => ~IsTrue(T, Inputs(n)[l + 1]) /\ Y(k, l + 1, p) \in T
          /\ p = tval /\ p = low(l) => ~IsTrue(T, Inputs(n)[l + 1])
      BY <3>2, <3>3, <3>4 DEF AtMostSays
    <3>6. l + 1 \in 0..n /\ low(l + 1) = low(l) + 1 /\ low(l) \in Int
      BY <2>1
    <3> HIDE DEF low
    <3>7. CASE IsTrue(T, Inputs(n)[l + 1])
      <4>1. c(l + 1) = p + 1
        BY <2>3, <3>7 DEF p
      <4>2. p < tval /\ Y(k, l + 1, p + 1) \in T
        BY <3>4, <3>5, <3>6, <3>7
      <4>3. Y(k, l + 1, c(l + 1)) \in T
        BY <4>1, <4>2, Zenon
      <4>4. low(l + 1) <= c(l + 1) /\ c(l + 1) <= tval
        <5> HIDE DEF c
        <5> QED BY <3>4, <3>6, <4>1, <4>2
      <4> HIDE DEF c
      <4> QED BY <2>2, <3>6, <4>3, <4>4
    <3>8. CASE ~IsTrue(T, Inputs(n)[l + 1])
      <4>1. c(l + 1) = p
        BY <2>3, <3>8 DEF p
      <4>2. CASE p = low(l)
        <5> HIDE DEF c
        <5> QED BY <2>2, <3>4, <3>6, <4>1, <4>2
      <4>3. CASE p > low(l)
        <5>1. Y(k, l + 1, p) \in T
          BY <3>4, <3>5, <3>8, <4>3
        <5>2. Y(k, l + 1, c(l + 1)) \in T
          BY <4>1, <5>1, Zenon
        <5> HIDE DEF c
        <5> QED BY <2>2, <3>4, <3>6, <4>1, <4>3, <5>2
      <4> QED BY <3>4, <3>6, <4>2, <4>3
    <3> QED BY <3>7, <3>8
  <2> QED BY <2>2, <2>4, <2>5
<1>3. n \in P
  <2>1. n \in 0..n
    OBVIOUS
  <2> HIDE DEF P
  <2> QED BY <1>1, <1>2, <2>1, UpTo
<1>4. c(n) \in Nat
  BY CountIs
<1> HIDE DEF c
<1>5. c(n) <= tval
  BY <1>3, <1>4
<1> QED BY <1>5 DEF c

(* The nodes that say that the inputs from theirs on keep to what is left. *)
LEMMA AtMostComplete ==
    ASSUME NEW n \in Nat, NEW tval \in 1..(n - 2), NEW k, NEW T, NEW whole \in BOOLEAN,
           \A l \in 0..n : \A p \in Int :
             Y(k, l, p) \in T <=> p + Count(T, n) - Count(T, l) <= tval,
           NEW l, NEW p, InStrip(n, tval - n + 1, tval, l, p)
    PROVE  AtMostSays(T, k, Inputs(n), tval, l, p, whole)
<1> DEFINE c(m) == Count(T, m)
           x == IsTrue(T, Inputs(n)[l + 1])
<1>1. /\ l \in 0..(n - 1) /\ l \in 0..n /\ l + 1 \in 0..n
      /\ p \in Int /\ p + 1 \in Int /\ p <= tval /\ p >= tval - (n - l) + 1
  BY DEF InStrip
<1>2. /\ c(l) \in Nat
      /\ x => c(l + 1) = c(l) + 1
      /\ ~x => c(l + 1) = c(l)
  BY <1>1, CountStep
<1>3. c(l + 1) <= c(n) /\ c(n) - c(l + 1) <= n - (l + 1)
  BY <1>1, CountGap
<1>4. c(n) \in Nat
  BY CountIs
<1>5. /\ Y(k, l, p) \in T <=> p + c(n) - c(l) <= tval
      /\ Y(k, l + 1, p + 1) \in T <=> (p + 1) + c(n) - c(l + 1) <= tval
      /\ Y(k, l + 1, p) \in T <=> p + c(n) - c(l + 1) <= tval
  BY <1>1
<1>6. Len(Inputs(n)) = n
  BY InputLiterals
<1> HIDE DEF c, x
<1>7. CASE x
  BY <1>1, <1>2, <1>3, <1>4, <1>5, <1>6, <1>7 DEF AtMostSays, x
<1>8. CASE ~x
  BY <1>1, <1>2, <1>3, <1>4, <1>5, <1>6, <1>8 DEF AtMostSays, x
<1> QED BY <1>7, <1>8
LEMMA AtLeastSound ==
    ASSUME NEW n \in Nat, NEW tval \in 2..(n - 1), NEW k, NEW T,
           Y(k, 0, 0) \in T,
           \A l, p : InStrip(n, tval - n, tval - 1, l, p) =>
                       AtLeastSays(T, k, Inputs(n), tval, l, p)
    PROVE  Count(T, n) >= tval
<1> DEFINE c(l) == Count(T, l)
           low(l) == tval - (n - l)
           P == {l \in 0..n : \/ c(l) > tval - 1
                              \/ low(l) <= c(l) /\ c(l) <= tval - 1 /\ Y(k, l, c(l)) \in T}
<1>1. 0 \in P
  <2>1. c(0) = 0
    BY CountZero
  <2>2. Y(k, 0, c(0)) \in T
    BY <2>1, Zenon
  <2> QED BY <2>1, <2>2
<1>2. ASSUME NEW j \in 1..n, j - 1 \in P PROVE j \in P
  <2>1. PICK l \in 0..(n - 1) : l = j - 1
    OBVIOUS
  <2>2. j = l + 1 /\ l \in P
    BY <1>2, <2>1
  <2>3. /\ c(l) \in Nat /\ c(l) <= l
        /\ IsTrue(T, Inputs(n)[l + 1]) => c(l + 1) = c(l) + 1
        /\ ~IsTrue(T, Inputs(n)[l + 1]) => c(l + 1) = c(l)
    BY CountStep
  <2>4. CASE c(l) > tval - 1
    <3>1. c(l + 1) > tval - 1
      <4> HIDE DEF c
      <4> QED BY <2>3, <2>4
    <3>2. l + 1 \in 0..n
      BY <2>1
    <3> QED BY <2>2, <3>1, <3>2
  <2>5. CASE low(l) <= c(l) /\ c(l) <= tval - 1 /\ Y(k, l, c(l)) \in T
    <3> DEFINE p == c(l)
    <3>1. InStrip(n, tval - n, tval - 1, l, p)
      <4> HIDE DEF c
      <4> QED BY <2>3, <2>5 DEF InStrip
    <3>2. AtLeastSays(T, k, Inputs(n), tval, l, p)
      BY <3>1
    <3>3. Len(Inputs(n)) = n
      BY InputLiterals
    <3>4. p \in Nat /\ Y(k, l, p) \in T /\ low(l) <= p /\ p <= tval - 1
      BY <2>3, <2>5
    <3> HIDE DEF p
    <3>5. /\ p < tval - 1 /\ p > low(l) => IF IsTrue(T, Inputs(n)[l + 1]) THEN Y(k, l + 1, p + 1) \in T
                                                                         ELSE Y(k, l + 1, p) \in T
          /\ p < tval - 1 /\ p = low(l) => IsTrue(T, Inputs(n)[l + 1]) /\ Y(k, l + 1, p + 1) \in T
          /\ p = tval - 1 /\ p > low(l) => IsTrue(T, Inputs(n)[l + 1]) \/ Y(k, l + 1, p) \in T
          /\ p = tval - 1 /\ p = low(l) => IsTrue(T, Inputs(n)[l + 1])
      BY <3>2, <3>3, <3>4 DEF AtLeastSays
    <3>6. l + 1 \in 0..n /\ low(l + 1) = low(l) + 1 /\ low(l) \in Int
      BY <2>1
    <3> HIDE DEF low
    <3>7. CASE IsTrue(T, Inputs(n)[l + 1])
      <4>1. c(l + 1) = p + 1
        BY <2>3, <3>7 DEF p
      <4>2. CASE p = tval - 1
        <5>1. c(l + 1) > tval - 1
          <6> HIDE DEF c
          <6> QED BY <3>4, <4>1, <4>2
        <5> HIDE DEF c
        <5> QED BY <2>2, <3>6, <5>1
      <4>3. CASE p < tval - 1
        <5>1. Y(k, l + 1, p + 1) \in T
          BY <3>4, <3>5, <3>6, <3>7, <4>3
        <5>2. Y(k, l + 1, c(l + 1)) \in T
          BY <4>1, <5>1, Zenon
        <5>3. low(l + 1) <= c(l + 1) /\ c(l + 1) <= tval - 1
          <6> HIDE DEF c
          <6> QED BY <3>4, <3>6, <4>1, <4>3
        <5> HIDE DEF c
        <5> QED BY <2>2, <3>6, <5>2, <5>3
      <4> QED BY <3>4, <4>2, <4>3
    <3>8. CASE ~IsTrue(T, Inputs(n)[l + 1])
      <4>1. c(l + 1) = p
        BY <2>3, <3>8 DEF p
      <4>2. p > low(l) /\ Y(k, l + 1, p) \in T
        BY <3>4, <3>5, <3>6, <3>8
      <4>3. Y(k, l + 1, c(l + 1)) \in T
        BY <4>1, <4>2, Zenon
      <4> HIDE DEF c
      <4> QED BY <2>2, <3>4, <3>6, <4>1, <4>2, <4>3
    <3> QED BY <3>7, <3>8
  <2> QED BY <2>2, <2>4, <2>5
<1>3. n \in P
  <2>1. n \in 0..n
    OBVIOUS
  <2> HIDE DEF P
  <2> QED BY <1>1, <1>2, <2>1, UpTo
<1>4. c(n) \in Nat
  BY CountIs
<1> HIDE DEF c
<1>5. c(n) >= tval
  BY <1>3, <1>4
<1> QED BY <1>5 DEF c

LEMMA AtLeastComplete ==
    ASSUME NEW n \in Nat, NEW tval \in 2..(n - 1), NEW k, NEW T,
           \A l \in 0..n : \A p \in Int :
             Y(k, l, p) \in T <=> p + Count(T, n) - Count(T, l) >= tval,
           NEW l, NEW p, InStrip(n, tval - n, tval - 1, l, p)
    PROVE  AtLeastSays(T, k, Inputs(n), tval, l, p)
<1> DEFINE c(m) == Count(T, m)
           x == IsTrue(T, Inputs(n)[l + 1])
<1>1. /\ l \in 0..(n - 1) /\ l \in 0..n /\ l + 1 \in 0..n
      /\ p \in Int /\ p + 1 \in Int /\ p <= tval - 1 /\ p >= tval - (n - l)
  BY DEF InStrip
<1>2. /\ c(l) \in Nat
      /\ x => c(l + 1) = c(l) + 1
      /\ ~x => c(l + 1) = c(l)
  BY <1>1, CountStep
<1>3. c(l + 1) <= c(n) /\ c(n) - c(l + 1) <= n - (l + 1)
  BY <1>1, CountGap
<1>4. c(n) \in Nat
  BY CountIs
<1>5. /\ Y(k, l, p) \in T <=> p + c(n) - c(l) >= tval
      /\ Y(k, l + 1, p + 1) \in T <=> (p + 1) + c(n) - c(l + 1) >= tval
      /\ Y(k, l + 1, p) \in T <=> p + c(n) - c(l + 1) >= tval
  BY <1>1
<1>6. Len(Inputs(n)) = n
  BY InputLiterals
<1> HIDE DEF c, x
<1>7. CASE x
  BY <1>1, <1>2, <1>3, <1>4, <1>5, <1>6, <1>7 DEF AtLeastSays, x
<1>8. CASE ~x
  BY <1>1, <1>2, <1>3, <1>4, <1>5, <1>6, <1>8 DEF AtLeastSays, x
<1> QED BY <1>7, <1>8

-----------------------------------------------------------------------------
(* The sequential counter. *)
Id(call, j) == <<"id", call, <<j>>>>

CounterSays(T, call, n) ==
    /\ <<"x", 1>> \in T => Id(call, 1) \in T
    /\ \A j \in 1..(n - 2) :
         /\ <<"x", j + 1>> \in T => Id(call, j) \notin T /\ Id(call, j + 1) \in T
         /\ Id(call, j) \in T => Id(call, j + 1) \in T
    /\ <<"x", n>> \in T => Id(call, n - 1) \notin T

LEMMA ObeysConcat ==
    ASSUME NEW T, NEW A, NEW s \in Seq(A), NEW t \in Seq(A)
    PROVE  Obeys(T, s \o t) <=> Obeys(T, s) /\ Obeys(T, t)
<1>1. /\ Len(s) \in Nat /\ Len(t) \in Nat /\ Len(s \o t) = Len(s) + Len(t)
      /\ DOMAIN s = 1..Len(s) /\ DOMAIN t = 1..Len(t) /\ DOMAIN (s \o t) = 1..Len(s \o t)
      /\ \A i \in 1..Len(s) : (s \o t)[i] = s[i]
      /\ \A i \in 1..Len(t) : (s \o t)[Len(s) + i] = t[i]
  BY ConcatProperties
<1>2. ASSUME Obeys(T, s \o t) PROVE Obeys(T, s) /\ Obeys(T, t)
  <2>1. \A i \in 1..Len(s) : i \in DOMAIN (s \o t)
    BY <1>1
  <2>2. \A i \in 1..Len(t) : Len(s) + i \in DOMAIN (s \o t)
    BY <1>1
  <2>3. Obeys(T, s)
    BY <1>1, <1>2, <2>1, Zenon DEF Obeys
  <2>4. Obeys(T, t)
    BY <1>1, <1>2, <2>2, Zenon DEF Obeys
  <2> QED BY <2>3, <2>4
<1>3. ASSUME Obeys(T, s), Obeys(T, t), NEW i \in DOMAIN (s \o t)
      PROVE  Fulfils(T, (s \o t)[i])
  <2>1. CASE i \in 1..Len(s)
    BY <1>1, <1>3, <2>1 DEF Obeys
  <2>2. CASE i \notin 1..Len(s)
    <3>1. i - Len(s) \in 1..Len(t) /\ i = Len(s) + (i - Len(s))
      BY <1>1, <2>2
    <3>2. (s \o t)[i] = t[i - Len(s)]
      BY <1>1, <3>1
    <3> QED BY <1>1, <1>3, <3>1, <3>2 DEF Obeys
  <2> QED BY <2>1, <2>2
<1> QED BY <1>2, <1>3, Zenon DEF Obeys

LEMMA ObeysOne == \A T, g : Obeys(T, <<g>>) <=> Fulfils(T, g)
BY DEF Obeys

LEMMA CounterObeys ==
    ASSUME NEW n \in Nat, n > 1, NEW call, NEW T
    PROVE  Obeys(T, sc_gen_atmost1(call, Inputs(n))) <=> CounterSays(T, call, n)
<1> DEFINE xs == Inputs(n)
           cid(j) == Pos(<<"id", call, <<j>>>>)
           N == Len(xs) - 1
           first == {{Neg(xs[1]), cid(1)}}
           mid(j) == {{Neg(xs[j + 1]), Neg(cid(j))}, {Neg(xs[j + 1]), cid(j + 1)},
                      {Neg(cid(j)), cid(j + 1)}}
           last == {{Neg(xs[N + 1]), Neg(cid(N))}}
           mids == [j \in 1..(N - 1) |-> mid(j)]
           A == {first, last} \cup {mid(j) : j \in 1..(N - 1)}
<1>1. N = n - 1 /\ N # 0 /\ N - 1 = n - 2 /\ N + 1 = n /\ N - 1 \in Nat
  BY InputsLen
<1>2. sc_gen_atmost1(call, xs) = <<first>> \o mids \o <<last>>
  BY <1>1, Zenon DEF sc_gen_atmost1
<1>3. /\ <<first>> \in Seq(A) /\ mids \in Seq(A) /\ <<last>> \in Seq(A)
      /\ <<first>> \o mids \in Seq(A)
  <2>1. N - 1 \in Nat
    BY <1>1
  <2>2. \A j \in 1..(N - 1) : mid(j) \in A
    OBVIOUS
  <2>3. first \in A /\ last \in A
    OBVIOUS
  <2> HIDE DEF first, last, mid, A, N
  <2> QED BY <2>1, <2>2, <2>3, ConcatProperties
<1>4. \A j : IsTrue(T, cid(j)) <=> Id(call, j) \in T
  BY TrueLiterals DEF Id
<1>5. \A i \in 1..n : IsTrue(T, xs[i]) <=> <<"x", i>> \in T
  BY InputLiterals
<1>6. \A a, b : Fulfils(T, {{a, b}}) <=> IsTrue(T, a) \/ IsTrue(T, b)
  BY TrueClauses DEF Fulfils
<1>7. Fulfils(T, first) <=> (<<"x", 1>> \in T => Id(call, 1) \in T)
  <2>1. 1 \in 1..n
    OBVIOUS
  <2> HIDE DEF xs, cid
  <2> QED BY <1>4, <1>5, <1>6, <2>1, TrueLiterals
<1>8. Fulfils(T, last) <=> (<<"x", n>> \in T => Id(call, n - 1) \notin T)
  <2>1. n \in 1..n
    OBVIOUS
  <2>2. last = {{Neg(xs[n]), Neg(cid(n - 1))}}
    BY <1>1, Zenon
  <2> HIDE DEF xs, cid, last
  <2>3. Fulfils(T, {{Neg(xs[n]), Neg(cid(n - 1))}}) <=> (<<"x", n>> \in T => Id(call, n - 1) \notin T)
    <3>1. IsTrue(T, xs[n]) <=> <<"x", n>> \in T
      BY <1>5, <2>1
    <3>2. IsTrue(T, cid(n - 1)) <=> Id(call, n - 1) \in T
      BY <1>4, Zenon
    <3>3. Fulfils(T, {{Neg(xs[n]), Neg(cid(n - 1))}}) <=> IsTrue(T, Neg(xs[n])) \/ IsTrue(T, Neg(cid(n - 1)))
      BY <1>6, Zenon
    <3>4. (IsTrue(T, Neg(xs[n])) <=> ~IsTrue(T, xs[n])) /\ (IsTrue(T, Neg(cid(n - 1))) <=> ~IsTrue(T, cid(n - 1)))
      BY TrueLiterals, Zenon
    <3> QED BY <3>1, <3>2, <3>3, <3>4, Zenon
  <2> QED BY <2>2, <2>3, Zenon
<1>9. ASSUME NEW j \in 1..(n - 2)
      PROVE  Fulfils(T, mid(j)) <=>
               /\ <<"x", j + 1>> \in T => Id(call, j) \notin T /\ Id(call, j + 1) \in T
               /\ Id(call, j) \in T => Id(call, j + 1) \in T
  <2>1. j + 1 \in 1..n
    OBVIOUS
  <2> HIDE DEF xs, cid
  <2>2. Fulfils(T, mid(j)) <=>
          /\ IsTrue(T, Neg(xs[j + 1])) \/ IsTrue(T, Neg(cid(j)))
          /\ IsTrue(T, Neg(xs[j + 1])) \/ IsTrue(T, cid(j + 1))
          /\ IsTrue(T, Neg(cid(j))) \/ IsTrue(T, cid(j + 1))
    BY DEF Fulfils
  <2> HIDE DEF mid
  <2> QED BY <1>4, <1>5, <2>1, <2>2, TrueLiterals
<1>10. Obeys(T, mids) <=> \A j \in 1..(n - 2) : Fulfils(T, mid(j))
  <2>1. N - 1 = n - 2
    BY <1>1
  <2> HIDE DEF mid, N
  <2> QED BY <2>1 DEF Obeys
<1>11. Obeys(T, <<first>> \o mids \o <<last>>) <=>
         Fulfils(T, first) /\ Obeys(T, mids) /\ Fulfils(T, last)
  <2> HIDE DEF first, mids, last, A
  <2>1. Obeys(T, (<<first>> \o mids) \o <<last>>) <=> Obeys(T, <<first>> \o mids) /\ Obeys(T, <<last>>)
    BY <1>3, ObeysConcat, Zenon
  <2>2. Obeys(T, <<first>> \o mids) <=> Obeys(T, <<first>>) /\ Obeys(T, mids)
    BY <1>3, ObeysConcat, Zenon
  <2> QED BY <2>1, <2>2, ObeysOne, Zenon
<1> HIDE DEF first, mid, mids, last, xs
<1>12. Obeys(T, sc_gen_atmost1(call, xs)) <=> CounterSays(T, call, n)
  BY <1>2, <1>7, <1>8, <1>9, <1>10, <1>11, Zenon DEF CounterSays
<1> QED BY <1>12 DEF xs

LEMMA CounterSound ==
    ASSUME NEW n \in Nat, n > 1, NEW call, NEW T, CounterSays(T, call, n)
    PROVE  Count(T, n) <= 1
<1> DEFINE c(l) == Count(T, l)
           P == {j \in 0..(n - 1) : j # 0 => c(j) <= 1 /\ (c(j) = 1 => Id(call, j) \in T)}
<1>1. 0 \in P
  OBVIOUS
<1>2. ASSUME NEW j \in 1..(n - 1), j - 1 \in P PROVE j \in P
  <2>1. PICK l \in Nat : l = j - 1
    OBVIOUS
  <2>2. c(l) \in Nat /\ c(l + 1) = c(l) + (IF <<"x", l + 1>> \in T THEN 1 ELSE 0)
    BY CountIs
  <2>3. CASE l = 0
    <3>1. j = 1 /\ c(l) = 0
      BY <2>1, <2>3, CountZero
    <3>2. <<"x", 1>> \in T => Id(call, 1) \in T
      BY DEF CounterSays
    <3>3. c(1) = IF <<"x", 1>> \in T THEN 1 ELSE 0
      BY <2>2, <2>3, <3>1
    <3> HIDE DEF c
    <3> QED BY <3>1, <3>2, <3>3
  <2>4. CASE l # 0
    <3>1. l \in 1..(n - 2) /\ j = l + 1
      BY <2>1, <2>4
    <3>2. /\ <<"x", l + 1>> \in T => Id(call, l) \notin T /\ Id(call, l + 1) \in T
          /\ Id(call, l) \in T => Id(call, l + 1) \in T
      BY <3>1 DEF CounterSays
    <3>3. c(l) <= 1 /\ (c(l) = 1 => Id(call, l) \in T)
      BY <1>2, <2>1, <2>4
    <3> HIDE DEF c
    <3>4. CASE <<"x", l + 1>> \in T
      BY <2>2, <3>1, <3>2, <3>3, <3>4
    <3>5. CASE <<"x", l + 1>> \notin T
      BY <2>2, <3>1, <3>2, <3>3, <3>5
    <3> QED BY <3>4, <3>5
  <2> QED BY <2>3, <2>4
<1>3. PICK l \in 1..(n - 1) : l = n - 1
  OBVIOUS
<1>4. l \in P
  <2>1. n - 1 \in Nat /\ l \in 0..(n - 1)
    BY <1>3
  <2> HIDE DEF P
  <2> QED BY <1>1, <1>2, <2>1, UpTo
<1>5. c(l) <= 1 /\ (c(l) = 1 => Id(call, l) \in T) /\ n = l + 1
  BY <1>3, <1>4
<1>6. c(l) \in Nat /\ c(l + 1) = c(l) + (IF <<"x", l + 1>> \in T THEN 1 ELSE 0)
  <2>1. l \in Nat
    BY <1>3
  <2> QED BY <2>1, CountIs
<1>7. <<"x", l + 1>> \in T => Id(call, l) \notin T
  BY <1>3, <1>5 DEF CounterSays
<1> HIDE DEF c
<1>8. c(n) <= 1
  BY <1>5, <1>6, <1>7
<1> QED BY <1>8 DEF c

LEMMA CounterComplete ==
    ASSUME NEW n \in Nat, n > 1, NEW call, NEW T, Count(T, n) <= 1,
           \A j \in 1..(n - 1) : Id(call, j) \in T <=> Count(T, j) >= 1
    PROVE  CounterSays(T, call, n)
<1> DEFINE c(l) == Count(T, l)
<1>1. ASSUME NEW l \in 0..(n - 1)
      PROVE  /\ c(l) \in Nat /\ c(l + 1) \in Nat /\ c(l + 1) <= 1
             /\ <<"x", l + 1>> \in T => c(l + 1) = c(l) + 1
             /\ c(l) <= c(l + 1)
  <2>1. l \in Nat /\ l + 1 \in 0..n
    OBVIOUS
  <2>2. c(l) \in Nat /\ c(l + 1) = c(l) + (IF <<"x", l + 1>> \in T THEN 1 ELSE 0)
    BY <2>1, CountIs
  <2>3. c(l + 1) <= c(n) /\ c(n) \in Nat
    BY <2>1, CountGap, CountIs
  <2>4. c(n) <= 1
    OBVIOUS
  <2> HIDE DEF c
  <2> QED BY <2>2, <2>3, <2>4
<1>2. <<"x", 1>> \in T => Id(call, 1) \in T
  <2>1. 0 \in 0..(n - 1) /\ 0 + 1 = 1 /\ 1 \in 1..(n - 1)
    OBVIOUS
  <2>2. <<"x", 1>> \in T => c(1) = c(0) + 1
    BY <1>1, <2>1
  <2>3. c(0) = 0
    BY CountZero
  <2> QED BY <2>1, <2>2, <2>3
<1>3. ASSUME NEW j \in 1..(n - 2)
      PROVE  /\ <<"x", j + 1>> \in T => Id(call, j) \notin T /\ Id(call, j + 1) \in T
             /\ Id(call, j) \in T => Id(call, j + 1) \in T
  <2>1. j \in 0..(n - 1) /\ j \in 1..(n - 1) /\ j + 1 \in 1..(n - 1)
    OBVIOUS
  <2>2. (Id(call, j) \in T <=> c(j) >= 1) /\ (Id(call, j + 1) \in T <=> c(j + 1) >= 1)
    BY <2>1
  <2>3. /\ c(j) \in Nat /\ c(j + 1) \in Nat /\ c(j + 1) <= 1
        /\ <<"x", j + 1>> \in T => c(j + 1) = c(j) + 1
        /\ c(j) <= c(j + 1)
    BY <1>1, <2>1
  <2> HIDE DEF c
  <2> QED BY <2>2, <2>3
<1>4. <<"x", n>> \in T => Id(call, n - 1) \notin T
  <2>1. PICK l \in 1..(n - 1) : l = n - 1
    OBVIOUS
  <2>2. l \in 0..(n - 1) /\ n = l + 1
    BY <2>1
  <2>3. /\ c(l) \in Nat /\ c(l + 1) <= 1
        /\ <<"x", l + 1>> \in T => c(l + 1) = c(l) + 1
    BY <1>1, <2>2
  <2>4. Id(call, l) \in T <=> c(l) >= 1
    OBVIOUS
  <2> HIDE DEF c
  <2>5. <<"x", l + 1>> \in T => Id(call, l) \notin T
    BY <2>3, <2>4
  <2> QED BY <2>1, <2>2, <2>5, Zenon
<1> QED BY <1>2, <1>3, <1>4 DEF CounterSays

-----------------------------------------------------------------------------
(* The special cases and the pairwise encoding need no variable of their    *)
(* own.                                                                     *)
LEMMA FulfilsAll ==
    ASSUME NEW T, NEW D, NEW F
    PROVE  Fulfils(T, {F[i] : i \in D}) <=> \A i \in D : \E l \in F[i] : IsTrue(T, l)
<1>1. \A i \in D : F[i] \in {F[j] : j \in D}
  OBVIOUS
<1>2. \A c \in {F[i] : i \in D} : \E i \in D : c = F[i]
  OBVIOUS
<1> DEFINE cs == {F[i] : i \in D}
<1> HIDE DEF cs
<1>3. Fulfils(T, cs) <=> \A i \in D : \E l \in F[i] : IsTrue(T, l)
  BY <1>1, <1>2, Zenon DEF Fulfils, cs
<1> QED BY <1>3 DEF cs

LEMMA SpecialObeys ==
    ASSUME NEW n \in Nat, NEW T
    PROVE  /\ Obeys(T, gen_ge1(Inputs(n))) <=> Count(T, n) >= 1
           /\ Obeys(T, gen_geN(Inputs(n))) <=> Count(T, n) = n
           /\ Obeys(T, gen_leNm1(Inputs(n))) <=> Count(T, n) <= n - 1
           /\ Obeys(T, gen_le0(Inputs(n))) <=> Count(T, n) = 0
           /\ Obeys(T, pw_gen_atmost1(Inputs(n))) <=> Count(T, n) <= 1
<1> DEFINE xs == Inputs(n)
<1>1. DOMAIN xs = 1..n /\ Len(xs) = n /\ \A i \in 1..n : IsTrue(T, xs[i]) <=> <<"x", i>> \in T
  BY InputsLen, InputLiterals
<1>2. \A i \in 1..n : IsTrue(T, Neg(xs[i])) <=> <<"x", i>> \notin T
  BY <1>1, TrueLiterals
<1>3. Count(T, n) \in Nat /\ Count(T, n) <= n
  BY CountIs, CountUpTo
<1> HIDE DEF xs
<1>4. Obeys(T, gen_ge1(xs)) <=> \E i \in 1..n : <<"x", i>> \in T
  <2>1. Obeys(T, gen_ge1(xs)) <=> Fulfils(T, {{xs[i] : i \in DOMAIN xs}})
    BY ObeysOne DEF gen_ge1
  <2>2. Fulfils(T, {{xs[i] : i \in DOMAIN xs}}) <=> \E i \in DOMAIN xs : IsTrue(T, xs[i])
    BY DEF Fulfils
  <2> QED BY <1>1, <2>1, <2>2
<1>5. Obeys(T, gen_geN(xs)) <=> \A i \in 1..n : <<"x", i>> \in T
  <2>1. Obeys(T, gen_geN(xs)) <=> Fulfils(T, {{xs[i]} : i \in DOMAIN xs})
    BY ObeysOne DEF gen_geN
  <2>2. Fulfils(T, {{xs[i]} : i \in DOMAIN xs}) <=> \A i \in DOMAIN xs : IsTrue(T, xs[i])
    <3>1. \A i : (\E l \in {xs[i]} : IsTrue(T, l)) <=> IsTrue(T, xs[i])
      OBVIOUS
    <3> DEFINE F == [i \in DOMAIN xs |-> {xs[i]}]
    <3>2. Fulfils(T, {F[i] : i \in DOMAIN xs}) <=> \A i \in DOMAIN xs : \E l \in F[i] : IsTrue(T, l)
      <4> HIDE DEF F
      <4> QED BY FulfilsAll, Zenon
    <3>3. {F[i] : i \in DOMAIN xs} = {{xs[i]} : i \in DOMAIN xs}
      OBVIOUS
    <3>4. \A i \in DOMAIN xs : F[i] = {xs[i]}
      OBVIOUS
    <3> HIDE DEF F
    <3> QED BY <3>1, <3>2, <3>3, <3>4, Zenon
  <2> QED BY <1>1, <2>1, <2>2
<1>6. Obeys(T, gen_leNm1(xs)) <=> \E i \in 1..n : <<"x", i>> \notin T
  <2>1. Obeys(T, gen_leNm1(xs)) <=> Fulfils(T, {{Neg(xs[i]) : i \in DOMAIN xs}})
    BY ObeysOne DEF gen_leNm1
  <2>2. Fulfils(T, {{Neg(xs[i]) : i \in DOMAIN xs}}) <=> \E i \in DOMAIN xs : IsTrue(T, Neg(xs[i]))
    BY DEF Fulfils
  <2> QED BY <1>1, <1>2, <2>1, <2>2
<1>7. Obeys(T, gen_le0(xs)) <=> \A i \in 1..n : <<"x", i>> \notin T
  <2>1. Obeys(T, gen_le0(xs)) <=> Fulfils(T, {{Neg(xs[i])} : i \in DOMAIN xs})
    BY ObeysOne DEF gen_le0
  <2>2. Fulfils(T, {{Neg(xs[i])} : i \in DOMAIN xs}) <=> \A i \in DOMAIN xs : IsTrue(T, Neg(xs[i]))
    <3>1. \A i : (\E l \in {Neg(xs[i])} : IsTrue(T, l)) <=> IsTrue(T, Neg(xs[i]))
      OBVIOUS
    <3> DEFINE F == [i \in DOMAIN xs |-> {Neg(xs[i])}]
    <3>2. Fulfils(T, {F[i] : i \in DOMAIN xs}) <=> \A i \in DOMAIN xs : \E l \in F[i] : IsTrue(T, l)
      <4> HIDE DEF F
      <4> QED BY FulfilsAll, Zenon
    <3>3. {F[i] : i \in DOMAIN xs} = {{Neg(xs[i])} : i \in DOMAIN xs}
      OBVIOUS
    <3>4. \A i \in DOMAIN xs : F[i] = {Neg(xs[i])}
      OBVIOUS
    <3> HIDE DEF F
    <3> QED BY <3>1, <3>2, <3>3, <3>4, Zenon
  <2> QED BY <1>1, <1>2, <2>1, <2>2
<1>8. Obeys(T, pw_gen_atmost1(xs)) <=>
        \A i \in 1..n : \A j \in (i + 1)..n : <<"x", i>> \notin T \/ <<"x", j>> \notin T
  <2> DEFINE pairs(i) == {{Neg(xs[i]), Neg(xs[j])} : j \in (i + 1)..Len(xs)}
             all == UNION {pairs(i) : i \in DOMAIN xs}
  <2>1. Obeys(T, pw_gen_atmost1(xs)) <=> Fulfils(T, all)
    BY ObeysOne, Zenon DEF pw_gen_atmost1
  <2>2. Fulfils(T, all) <=> \A i \in DOMAIN xs : Fulfils(T, pairs(i))
    <3> HIDE DEF pairs
    <3> QED BY Zenon DEF Fulfils
  <2>3. ASSUME NEW i \in DOMAIN xs
        PROVE  Fulfils(T, pairs(i)) <=>
                 \A j \in (i + 1)..n : IsTrue(T, Neg(xs[i])) \/ IsTrue(T, Neg(xs[j]))
    <3>1. \A j : (\E l \in {Neg(xs[i]), Neg(xs[j])} : IsTrue(T, l))
                   <=> IsTrue(T, Neg(xs[i])) \/ IsTrue(T, Neg(xs[j]))
      BY TrueClauses, Zenon
    <3> DEFINE F == [j \in (i + 1)..n |-> {Neg(xs[i]), Neg(xs[j])}]
    <3>2. Fulfils(T, {F[j] : j \in (i + 1)..n}) <=> \A j \in (i + 1)..n : \E l \in F[j] : IsTrue(T, l)
      <4> HIDE DEF F
      <4> QED BY FulfilsAll, Zenon
    <3>3. {F[j] : j \in (i + 1)..n} = pairs(i)
      BY <1>1
    <3>4. \A j \in (i + 1)..n : F[j] = {Neg(xs[i]), Neg(xs[j])}
      OBVIOUS
    <3> HIDE DEF F, pairs
    <3> QED BY <3>1, <3>2, <3>3, <3>4, Zenon
  <2>4. \A i \in 1..n : \A j \in (i + 1)..n : j \in 1..n
    OBVIOUS
  <2> HIDE DEF all, pairs
  <2> QED BY <1>1, <1>2, <2>1, <2>2, <2>3, <2>4
<1>9. Count(T, n) = 0 <=> \A i \in 1..n : <<"x", i>> \notin T
  BY CountNone
<1>10. Count(T, n) = n <=> \A i \in 1..n : <<"x", i>> \in T
  BY CountAll
<1>11. Count(T, n) <= 1 <=>
         \A i \in 1..n : \A j \in (i + 1)..n : <<"x", i>> \notin T \/ <<"x", j>> \notin T
  BY CountOne
<1>12. Count(T, n) >= 1 <=> ~(Count(T, n) = 0)
  BY <1>3
<1>13. Count(T, n) <= n - 1 <=> ~(Count(T, n) = n)
  BY <1>3
<1> QED BY <1>4, <1>5, <1>6, <1>7, <1>8, <1>9, <1>10, <1>11, <1>12, <1>13, Zenon DEF xs

LEMMA ObeysNone == \A T : Obeys(T, <<>>)
BY DEF Obeys

LEMMA SmallObeys ==
    ASSUME NEW n \in Nat \ {0}, NEW rhs \in 0..n, NEW T, IsSmall(Inputs(n), rhs)
    PROVE  /\ SmallAtMost(Inputs(n), rhs).dies = FALSE
           /\ SmallAtMost(Inputs(n), rhs).nc = 0
           /\ Obeys(T, SmallAtMost(Inputs(n), rhs).gates) <=> Count(T, n) <= rhs
<1>0. n \in Nat /\ Len(Inputs(n)) = n
  BY InputsLen
<1>1. Count(T, n) \in Nat /\ Count(T, n) <= n
  BY <1>0, CountIs, CountUpTo
<1>2. CASE rhs = n
  <2>1. SmallAtMost(Inputs(n), rhs) = Made(<<>>, 0)
    BY <1>0, <1>2 DEF SmallAtMost
  <2> QED BY <1>1, <1>2, <2>1, ObeysNone DEF Made
<1>3. CASE rhs = n - 1
  <2>1. SmallAtMost(Inputs(n), rhs) = Made(gen_leNm1(Inputs(n)), 0)
    BY <1>0, <1>3 DEF SmallAtMost
  <2>2. Obeys(T, gen_leNm1(Inputs(n))) <=> Count(T, n) <= n - 1
    BY <1>0, SpecialObeys
  <2> QED BY <1>1, <1>3, <2>1, <2>2 DEF Made
<1>4. CASE rhs # n /\ rhs # n - 1
  <2>1. SmallAtMost(Inputs(n), rhs) = Made(gen_le0(Inputs(n)), 0)
    BY <1>0, <1>4 DEF SmallAtMost
  <2>2. Obeys(T, gen_le0(Inputs(n))) <=> Count(T, n) = 0
    BY <1>0, SpecialObeys
  <2>3. rhs = 0
    BY <1>0, <1>4 DEF IsSmall
  <2> QED BY <1>1, <2>1, <2>2, <2>3 DEF Made
<1> QED BY <1>2, <1>3, <1>4

-----------------------------------------------------------------------------
(* What is made of a request.  The nodes and the counter of a request say   *)
(* in T what they are for.                                                  *)
MostTold(T, k, n, rhs) ==
    \A l \in 0..n : \A p \in Int :
      Y(k, l, p) \in T <=> p + Count(T, n) - Count(T, l) <= rhs

LeastTold(T, k, n, rhs) ==
    \A l \in 0..n : \A p \in Int :
      Y(k, l, p) \in T <=> p + Count(T, n) - Count(T, l) >= rhs

CounterTold(T, call, n) ==
    \A j \in 1..(n - 1) : Id(call, j) \in T <=> Count(T, j) >= 1

LEMMA AtMostBdd ==
    ASSUME NEW n \in Nat, NEW rhs \in 1..(n - 2), NEW k, NEW T
    PROVE  /\ Obeys(T, bdd_gen_atmostN(k, Inputs(n), rhs)) => Count(T, n) <= rhs
           /\ Count(T, n) <= rhs /\ MostTold(T, k, n, rhs)
                => Obeys(T, bdd_gen_atmostN(k, Inputs(n), rhs))
           /\ Obeys(T, bdd_atmostN_implic(k, Inputs(n), rhs)) => Count(T, n) <= rhs
           /\ Count(T, n) <= rhs /\ MostTold(T, k, n, rhs)
                => Obeys(T, bdd_atmostN_implic(k, Inputs(n), rhs))
<1> DEFINE xs == Inputs(n)
           A == {Pos(<<"x", i>>) : i \in 1..n}
           Says(whole) == \A l, p : InStrip(n, rhs - n + 1, rhs, l, p) =>
                                      AtMostSays(T, k, xs, rhs, l, p, whole)
           root == Y(k, 0, 0) \in T
<1>1. xs \in Seq(A) /\ Len(xs) = n /\ rhs \in Int
  <2>1. rhs \in Int
    OBVIOUS
  <2>2. xs \in Seq(A) /\ Len(xs) = n
    BY InputLiterals, Zenon
  <2> QED BY <2>1, <2>2
<1>2. Obeys(T, bdd_gen_atmostN(k, xs, rhs)) <=> root /\ Says(TRUE)
  <2> HIDE DEF xs, A
  <2>1. Obeys(T, bdd_gen_atmostN(k, xs, rhs)) <=>
          /\ Y(k, 0, 0) \in T
          /\ \A l, p : InStrip(Len(xs), rhs - Len(xs) + 1, rhs, l, p) =>
                         AtMostSays(T, k, xs, rhs, l, p, TRUE)
    BY <1>1, AtMostEquivObeys
  <2> QED BY <1>1, <2>1, Zenon
<1>3. Obeys(T, bdd_atmostN_implic(k, xs, rhs)) <=> root /\ Says(FALSE)
  <2> HIDE DEF xs, A
  <2>1. Obeys(T, bdd_atmostN_implic(k, xs, rhs)) <=>
          /\ Y(k, 0, 0) \in T
          /\ \A l, p : InStrip(Len(xs), rhs - Len(xs) + 1, rhs, l, p) =>
                         AtMostSays(T, k, xs, rhs, l, p, FALSE)
    BY <1>1, AtMostImplicObeys
  <2> QED BY <1>1, <2>1, Zenon
<1>4. Says(TRUE) => Says(FALSE)
  BY DEF AtMostSays
<1>5. ASSUME root, Says(FALSE) PROVE Count(T, n) <= rhs
  BY <1>5, AtMostSound
<1>6. ASSUME Count(T, n) <= rhs, MostTold(T, k, n, rhs)
      PROVE  root /\ Says(TRUE)
  <2>1. 0 \in 0..n /\ 0 \in Int
    OBVIOUS
  <2>2. root <=> 0 + Count(T, n) - Count(T, 0) <= rhs
    BY <1>6, <2>1 DEF MostTold
  <2>3. Count(T, 0) = 0 /\ Count(T, n) \in Nat
    BY CountZero, CountIs
  <2>4. root
    BY <1>6, <2>2, <2>3
  <2>5. \A l \in 0..n : \A p \in Int : Y(k, l, p) \in T <=> p + Count(T, n) - Count(T, l) <= rhs
    BY <1>6 DEF MostTold
  <2>6. Says(TRUE)
    BY <2>5, AtMostComplete
  <2> QED BY <2>4, <2>6
<1> HIDE DEF Says, root
<1> QED BY <1>2, <1>3, <1>4, <1>5, <1>6, Zenon DEF xs

LEMMA AtLeastBdd ==
    ASSUME NEW n \in Nat, NEW rhs \in 2..(n - 1), NEW k, NEW T
    PROVE  /\ Obeys(T, bdd_gen_atleastN(k, Inputs(n), rhs)) => Count(T, n) >= rhs
           /\ Count(T, n) >= rhs /\ LeastTold(T, k, n, rhs)
                => Obeys(T, bdd_gen_atleastN(k, Inputs(n), rhs))
<1> DEFINE xs == Inputs(n)
           A == {Pos(<<"x", i>>) : i \in 1..n}
           Says == \A l, p : InStrip(n, rhs - n, rhs - 1, l, p) => AtLeastSays(T, k, xs, rhs, l, p)
           root == Y(k, 0, 0) \in T
<1>1. xs \in Seq(A) /\ Len(xs) = n /\ rhs \in Int
  <2>1. rhs \in Int
    OBVIOUS
  <2>2. xs \in Seq(A) /\ Len(xs) = n
    BY InputLiterals, Zenon
  <2> QED BY <2>1, <2>2
<1>2. Obeys(T, bdd_gen_atleastN(k, xs, rhs)) <=> root /\ Says
  <2> HIDE DEF xs, A
  <2>1. Obeys(T, bdd_gen_atleastN(k, xs, rhs)) <=>
          /\ Y(k, 0, 0) \in T
          /\ \A l, p : InStrip(Len(xs), rhs - Len(xs), rhs - 1, l, p) =>
                         AtLeastSays(T, k, xs, rhs, l, p)
    BY <1>1, AtLeastObeys
  <2> QED BY <1>1, <2>1, Zenon
<1>5. ASSUME root, Says PROVE Count(T, n) >= rhs
  BY <1>5, AtLeastSound
<1>6. ASSUME Count(T, n) >= rhs, LeastTold(T, k, n, rhs)
      PROVE  root /\ Says
  <2>1. 0 \in 0..n /\ 0 \in Int
    OBVIOUS
  <2>2. root <=> 0 + Count(T, n) - Count(T, 0) >= rhs
    BY <1>6, <2>1 DEF LeastTold
  <2>3. Count(T, 0) = 0 /\ Count(T, n) \in Nat
    BY CountZero, CountIs
  <2>4. root
    BY <1>6, <2>2, <2>3
  <2>5. \A l \in 0..n : \A p \in Int : Y(k, l, p) \in T <=> p + Count(T, n) - Count(T, l) >= rhs
    BY <1>6 DEF LeastTold
  <2>6. Says
    BY <2>5, AtLeastComplete
  <2> QED BY <2>4, <2>6
<1> HIDE DEF Says, root
<1> QED BY <1>2, <1>5, <1>6, Zenon DEF xs

LEMMA CounterMost ==
    ASSUME NEW n \in Nat \ {0}, NEW call, NEW T
    PROVE  /\ Obeys(T, sc_gen_atmost1(call, Inputs(n))) => Count(T, n) <= 1
           /\ Count(T, n) <= 1 /\ CounterTold(T, call, n)
                => Obeys(T, sc_gen_atmost1(call, Inputs(n)))
<1>1. CASE n = 1
  <2>1. Len(Inputs(n)) - 1 = 0
    <3>1. n \in Nat /\ Len(Inputs(n)) = n
      BY InputsLen
    <3> QED BY <1>1, <3>1
  <2>2. sc_gen_atmost1(call, Inputs(n)) = <<>>
    BY <2>1 DEF sc_gen_atmost1
  <2>3. Count(T, n) <= 1
    BY <1>1, CountUpTo
  <2> QED BY <2>2, <2>3, ObeysNone
<1>2. CASE n # 1
  <2>1. n \in Nat /\ n > 1
    BY <1>2
  <2>2. Obeys(T, sc_gen_atmost1(call, Inputs(n))) <=> CounterSays(T, call, n)
    BY <2>1, CounterObeys
  <2>3. CounterSays(T, call, n) => Count(T, n) <= 1
    BY <2>1, CounterSound
  <2>4. Count(T, n) <= 1 /\ CounterTold(T, call, n) => CounterSays(T, call, n)
    BY <2>1, CounterComplete DEF CounterTold
  <2> QED BY <2>2, <2>3, <2>4
<1> QED BY <1>1, <1>2

LEMMA Tags ==
    /\ \A k, l, p, k2, l2, p2 : Y(k, l, p) = Y(k2, l2, p2) => k = k2 /\ l = l2 /\ p = p2
    /\ \A c, j, c2, j2 : Id(c, j) = Id(c2, j2) => c = c2 /\ j = j2
    /\ \A k, l, p, c, j : Y(k, l, p) # Id(c, j)
    /\ \A k, l, p, i : Y(k, l, p) # <<"x", i>>
    /\ \A c, j, i : Id(c, j) # <<"x", i>>
<1>1. \A k, l, p, k2, l2, p2 : Y(k, l, p) = Y(k2, l2, p2) => k = k2 /\ l = l2 /\ p = p2
  BY DEF Y
<1>2. ASSUME NEW c, NEW j, NEW c2, NEW j2, Id(c, j) = Id(c2, j2) PROVE c = c2 /\ j = j2
  <2>1. c = c2 /\ <<j>> = <<j2>>
    BY <1>2 DEF Id
  <2>2. j = j2
    BY <2>1
  <2> QED BY <2>1, <2>2
<1>3. \A k, l, p, c, j : Y(k, l, p) # Id(c, j)
  BY DEF Y, Id
<1>4. \A k, l, p, i : Y(k, l, p) # <<"x", i>>
  BY DEF Y
<1>5. \A c, j, i : Id(c, j) # <<"x", i>>
  BY DEF Id
<1> QED BY <1>1, <1>2, <1>3, <1>4, <1>5


-----------------------------------------------------------------------------
(* What is generated is finite. *)
Variables ==
  {w[2] : w \in Wires} \cup {Y(k, l, p) : k \in Nat, l \in Int, p \in Int}
    \cup {Id(call, j) : call \in Nat, j \in Int}
Literals  == BOOLEAN \X Variables
TidyGates == {g \in SUBSET SUBSET Literals : IsFiniteSet(UNION g)}

Both(a, b, c, d) == {a, Neg(a)} \cup {b, Neg(b)} \cup {c, Neg(c)} \cup {d, Neg(d)}

LEMMA LiteralsAre ==
    /\ \A l \in Literals : Neg(l) \in Literals
    /\ \A v \in Variables : Pos(v) \in Literals
<1>1. ASSUME NEW l \in Literals PROVE Neg(l) \in Literals
  <2>1. l[1] \in BOOLEAN /\ l[2] \in Variables
    BY DEF Literals
  <2>2. (~l[1]) \in BOOLEAN
    OBVIOUS
  <2> QED BY <2>1, <2>2, Zenon DEF Neg, Literals
<1>2. ASSUME NEW v \in Variables PROVE Pos(v) \in Literals
  <2>1. TRUE \in BOOLEAN
    OBVIOUS
  <2> QED BY <2>1, Zenon DEF Pos, Literals
<1> QED BY <1>1, <1>2

LEMMA TidyIs ==
    ASSUME NEW g, NEW L, L \subseteq Literals, IsFiniteSet(L), \A c \in g : c \subseteq L
    PROVE  g \in TidyGates
<1>1. UNION g \subseteq L
  OBVIOUS
<1>2. IsFiniteSet(UNION g)
  BY <1>1, FS_Subset
<1>3. g \in SUBSET SUBSET Literals
  OBVIOUS
<1> QED BY <1>2, <1>3, Zenon DEF TidyGates

LEMMA GateTidy ==
    ASSUME NEW a \in Literals, NEW b \in Literals, NEW c \in Literals, NEW d \in Literals,
           NEW g, \A e \in g : e \subseteq Both(a, b, c, d)
    PROVE  g \in TidyGates
<1>1. \A x : IsFiniteSet({x, Neg(x)})
  <2> TAKE x
  <2>1. IsFiniteSet({x})
    BY FS_Singleton
  <2>2. IsFiniteSet({x} \cup {Neg(x)})
    BY <2>1, FS_AddElement
  <2>3. {x} \cup {Neg(x)} = {x, Neg(x)}
    OBVIOUS
  <2> QED BY <2>2, <2>3
<1>2. \A x \in Literals : {x, Neg(x)} \subseteq Literals
  BY LiteralsAre
<1>3. IsFiniteSet({a, Neg(a)} \cup {b, Neg(b)})
  BY <1>1, FS_Union
<1>4. IsFiniteSet(({a, Neg(a)} \cup {b, Neg(b)}) \cup {c, Neg(c)})
  BY <1>1, <1>3, FS_Union
<1>5. IsFiniteSet(Both(a, b, c, d))
  BY <1>1, <1>4, FS_Union DEF Both
<1>6. Both(a, b, c, d) \subseteq Literals
  BY <1>2 DEF Both
<1> QED BY <1>5, <1>6, TidyIs

(* No clause twice.  The clauses of a gate are on its own variable v, on at *)
(* least one other and on no others than those of W.                        *)
Owned(g, v, W) ==
  /\ g \in TidyGates
  /\ \A c \in g :
       /\ \E m \in c : m[2] = v
       /\ \E m \in c : m[2] \in W
       /\ \A m \in c : m[2] = v \/ m[2] \in W

Fits(l, W) == l \in Literals /\ l[2] \in W

(* Clauses on auxiliary variables are on those of names only; and those of  *)
(* two gates are two.                                                       *)
Private(gates, names) ==
  \A i \in DOMAIN gates : \A c \in gates[i] : Auxiliary(c) =>
    /\ \E m \in c : m[2] \in names
    /\ \A m \in c : m[2][1] = "x" \/ m[2] \in names

Apart(gates) ==
  \A i, j \in DOMAIN gates :
    i # j => ~ \E c \in gates[i] \cap gates[j] : Auxiliary(c)

LEMMA GatesOwned ==
    ASSUME NEW o \in Literals, NEW s, NEW x1, NEW x0, NEW W
    PROVE  /\ Fits(s, W) /\ Fits(x1, W) /\ Fits(x0, W) => Owned(gen_ite(o, s, x1, x0), o[2], W)
           /\ Fits(s, W) /\ Fits(x1, W) /\ Fits(x0, W) => Owned(gen_implic_pos_ite(o, s, x1, x0), o[2], W)
           /\ Fits(x1, W) /\ Fits(x0, W) => Owned(gen_and(o, x1, x0), o[2], W)
           /\ Fits(x1, W) /\ Fits(x0, W) => Owned(gen_implic_pos_and(o, x1, x0), o[2], W)
           /\ Fits(x1, W) /\ Fits(x0, W) => Owned(gen_or(o, x1, x0), o[2], W)
           /\ Fits(x1, W) /\ Fits(x0, W) => Owned(gen_implic_pos_or(o, x1, x0), o[2], W)
           /\ Fits(x1, W) => Owned(gen_2equiv(o, x1), o[2], W)
<1>1. \A l : Neg(l)[2] = l[2]
  BY DEF Neg
<1>2. ASSUME Fits(s, W), Fits(x1, W), Fits(x0, W) PROVE Owned(gen_ite(o, s, x1, x0), o[2], W)
  <2>1. \A c \in gen_ite(o, s, x1, x0) : c \subseteq Both(o, s, x1, x0)
    BY DEF gen_ite, Both
  <2>2. gen_ite(o, s, x1, x0) \in TidyGates
    BY <1>2, <2>1, GateTidy DEF Fits
  <2>3. \A c \in gen_ite(o, s, x1, x0) :
          /\ \E m \in c : m[2] = o[2]
          /\ \E m \in c : m[2] \in W
          /\ \A m \in c : m[2] = o[2] \/ m[2] \in W
    BY <1>1, <1>2 DEF gen_ite, Fits
  <2> QED BY <2>2, <2>3, Zenon DEF Owned
<1>3. ASSUME Fits(s, W), Fits(x1, W), Fits(x0, W) PROVE Owned(gen_implic_pos_ite(o, s, x1, x0), o[2], W)
  <2>1. \A c \in gen_implic_pos_ite(o, s, x1, x0) : c \subseteq Both(o, s, x1, x0)
    BY DEF gen_implic_pos_ite, Both
  <2>2. gen_implic_pos_ite(o, s, x1, x0) \in TidyGates
    BY <1>3, <2>1, GateTidy DEF Fits
  <2>3. \A c \in gen_implic_pos_ite(o, s, x1, x0) :
          /\ \E m \in c : m[2] = o[2]
          /\ \E m \in c : m[2] \in W
          /\ \A m \in c : m[2] = o[2] \/ m[2] \in W
    BY <1>1, <1>3 DEF gen_implic_pos_ite, Fits
  <2> QED BY <2>2, <2>3, Zenon DEF Owned
<1>4. ASSUME Fits(x1, W), Fits(x0, W) PROVE Owned(gen_and(o, x1, x0), o[2], W)
  <2>1. \A c \in gen_and(o, x1, x0) : c \subseteq Both(o, o, x1, x0)
    BY DEF gen_and, Both
  <2>2. gen_and(o, x1, x0) \in TidyGates
    BY <1>4, <2>1, GateTidy DEF Fits
  <2>3. \A c \in gen_and(o, x1, x0) :
          /\ \E m \in c : m[2] = o[2]
          /\ \E m \in c : m[2] \in W
          /\ \A m \in c : m[2] = o[2] \/ m[2] \in W
    BY <1>1, <1>4 DEF gen_and, Fits
  <2> QED BY <2>2, <2>3, Zenon DEF Owned
<1>5. ASSUME Fits(x1, W), Fits(x0, W) PROVE Owned(gen_implic_pos_and(o, x1, x0), o[2], W)
  <2>1. \A c \in gen_implic_pos_and(o, x1, x0) : c \subseteq Both(o, o, x1, x0)
    BY DEF gen_implic_pos_and, Both
  <2>2. gen_implic_pos_and(o, x1, x0) \in TidyGates
    BY <1>5, <2>1, GateTidy DEF Fits
  <2>3. \A c \in gen_implic_pos_and(o, x1, x0) :
          /\ \E m \in c : m[2] = o[2]
          /\ \E m \in c : m[2] \in W
          /\ \A m \in c : m[2] = o[2] \/ m[2] \in W
    BY <1>1, <1>5 DEF gen_implic_pos_and, Fits
  <2> QED BY <2>2, <2>3, Zenon DEF Owned
<1>6. ASSUME Fits(x1, W), Fits(x0, W) PROVE Owned(gen_or(o, x1, x0), o[2], W)
  <2>1. \A c \in gen_or(o, x1, x0) : c \subseteq Both(o, o, x1, x0)
    BY DEF gen_or, Both
  <2>2. gen_or(o, x1, x0) \in TidyGates
    BY <1>6, <2>1, GateTidy DEF Fits
  <2>3. \A c \in gen_or(o, x1, x0) :
          /\ \E m \in c : m[2] = o[2]
          /\ \E m \in c : m[2] \in W
          /\ \A m \in c : m[2] = o[2] \/ m[2] \in W
    BY <1>1, <1>6 DEF gen_or, Fits
  <2> QED BY <2>2, <2>3, Zenon DEF Owned
<1>7. ASSUME Fits(x1, W), Fits(x0, W) PROVE Owned(gen_implic_pos_or(o, x1, x0), o[2], W)
  <2>1. \A c \in gen_implic_pos_or(o, x1, x0) : c \subseteq Both(o, o, x1, x0)
    BY DEF gen_implic_pos_or, Both
  <2>2. gen_implic_pos_or(o, x1, x0) \in TidyGates
    BY <1>7, <2>1, GateTidy DEF Fits
  <2>3. \A c \in gen_implic_pos_or(o, x1, x0) :
          /\ \E m \in c : m[2] = o[2]
          /\ \E m \in c : m[2] \in W
          /\ \A m \in c : m[2] = o[2] \/ m[2] \in W
    BY <1>1, <1>7 DEF gen_implic_pos_or, Fits
  <2> QED BY <2>2, <2>3, Zenon DEF Owned
<1>8. ASSUME Fits(x1, W) PROVE Owned(gen_2equiv(o, x1), o[2], W)
  <2>1. \A c \in gen_2equiv(o, x1) : c \subseteq Both(o, o, o, x1)
    BY DEF gen_2equiv, Both
  <2>2. gen_2equiv(o, x1) \in TidyGates
    BY <1>8, <2>1, GateTidy DEF Fits
  <2>3. \A c \in gen_2equiv(o, x1) :
          /\ \E m \in c : m[2] = o[2]
          /\ \E m \in c : m[2] \in W
          /\ \A m \in c : m[2] = o[2] \/ m[2] \in W
    BY <1>1, <1>8 DEF gen_2equiv, Fits
  <2> QED BY <2>2, <2>3, Zenon DEF Owned
<1> QED BY <1>2, <1>3, <1>4, <1>5, <1>6, <1>7, <1>8

LEMMA SeqFrom ==
    ASSUME NEW A, NEW len \in Nat, NEW f \in [1..len -> A]
    PROVE  f \in Seq(A) /\ Len(f) = len /\ DOMAIN f = 1..len
OBVIOUS

LEMMA SeqWithin ==
    ASSUME NEW S, NEW s \in Seq(S), NEW T, \A i \in DOMAIN s : s[i] \in T
    PROVE  s \in Seq(T)
<1>1. Len(s) \in Nat /\ DOMAIN s = 1..Len(s) /\ s \in [1..Len(s) -> S]
  OBVIOUS
<1>2. s \in [1..Len(s) -> T]
  BY <1>1
<1> QED BY <1>1, <1>2

LEMMA ConcatIs ==
    ASSUME NEW A, NEW s \in Seq(A), NEW t \in Seq(A)
    PROVE  /\ s \o t \in Seq(A)
           /\ Len(s) \in Nat /\ Len(t) \in Nat /\ Len(s \o t) = Len(s) + Len(t)
           /\ \A p \in 1..Len(s) : (s \o t)[p] = s[p]
           /\ \A p \in 1..Len(t) : (s \o t)[Len(s) + p] = t[p]
BY ConcatProperties

(* The nodes of a strip are listed once each. *)
LEMMA RowOnce ==
    ASSUME NEW A, NEW l, NEW h \in Int, NEW m \in Int, NEW f \in [1..m -> A],
           \A i \in 1..m : f[i] = <<l, h - i + 1>>
    PROVE  /\ f \in Seq(A)
           /\ \A i, j \in 1..Len(f) : f[i][1] = l /\ (f[i] = f[j] => i = j)
<1>1. PICK len \in Nat : 1..m = 1..len
  <2>1. CASE m \in Nat
    BY <2>1
  <2>2. CASE m \notin Nat
    <3>1. 1..m = 1..0
      BY <2>2
    <3> QED BY <3>1
  <2> QED BY <2>1, <2>2
<1>2. f \in [1..len -> A]
  BY <1>1
<1>3. f \in Seq(A) /\ 1..Len(f) = 1..m
  <2>1. f \in Seq(A) /\ Len(f) = len
    BY <1>2, SeqFrom
  <2> QED BY <1>1, <2>1, Zenon
<1>4. \A i \in 1..m : f[i][1] = l /\ f[i][2] = h - i + 1
  OBVIOUS
<1>5. \A i, j \in 1..m : f[i] = f[j] => i = j
  BY <1>4
<1> QED BY <1>3, <1>4, <1>5

LEMMA StripOnce ==
    ASSUME NEW n \in Nat, NEW base \in Int, NEW high \in Int,
           NEW i \in DOMAIN Strip(n, base, high), NEW j \in DOMAIN Strip(n, base, high),
           Strip(n, base, high)[i] = Strip(n, base, high)[j]
    PROVE  i = j
<1> DEFINE lo(l) == Larger(0, base + l)
           hi(l) == Smaller(l, high)
           row(l) == [q \in 1..(hi(l) - lo(l) + 1) |-> <<l, hi(l) - q + 1>>]
           rows == [k \in 1..n |-> row(n - k)]
           A == (0..(n - 1)) \X Int
<1>1. \A l \in Int : lo(l) \in Int /\ hi(l) \in Int
  BY DEF Larger, Smaller
<1>2. ASSUME NEW k \in 1..n
      PROVE  /\ row(n - k) \in Seq(A)
             /\ \A p, q \in 1..Len(row(n - k)) :
                  row(n - k)[p][1] = n - k /\ (row(n - k)[p] = row(n - k)[q] => p = q)
  <2> DEFINE l == n - k
  <2>1. l \in 0..(n - 1) /\ l \in Int
    OBVIOUS
  <2>2. lo(l) \in Int /\ hi(l) \in Int
    BY <1>1, <2>1
  <2>3. \A q \in 1..(hi(l) - lo(l) + 1) : <<l, hi(l) - q + 1>> \in A
    <3> HIDE DEF l, lo, hi
    <3> QED BY <2>1, <2>2
  <2>4. hi(l) - lo(l) + 1 \in Int
    BY <2>2
  <2> HIDE DEF l, lo, hi, A
  <2>5. /\ row(l) \in Seq(A)
        /\ \A p, q \in 1..Len(row(l)) :
             row(l)[p][1] = l /\ (row(l)[p] = row(l)[q] => p = q)
    <3>1. PICK f : f = [q \in 1..(hi(l) - lo(l) + 1) |-> <<l, hi(l) - q + 1>>]
      OBVIOUS
    <3>2. f = row(l)
      BY <3>1
    <3> DEFINE h == hi(l)
               m == hi(l) - lo(l) + 1
    <3>4. /\ h \in Int /\ m \in Int
          /\ f \in [1..m -> A] /\ \A q \in 1..m : f[q] = <<l, h - q + 1>>
      BY <2>2, <2>3, <2>4, <3>1
    <3> HIDE DEF h, m
    <3>5. f \in Seq(A) /\ \A p, q \in 1..Len(f) : f[p][1] = l /\ (f[p] = f[q] => p = q)
      BY <3>4, RowOnce
    <3> HIDE DEF row
    <3> QED BY <3>2, <3>5
  <2> HIDE DEF row
  <2> QED BY <2>5 DEF l
<1>3. rows \in Seq(Seq(A)) /\ Len(rows) = n
  <2> HIDE DEF row, A
  <2> QED BY <1>2
<1>4. Strip(n, base, high) = FlattenSeq(rows)
  BY Zenon DEF Strip
<1>5. ASSUME NEW k \in 1..n
      PROVE  /\ rows[k] \in Seq(A)
             /\ \A p, q \in 1..Len(rows[k]) :
                  rows[k][p][1] = n - k /\ (rows[k][p] = rows[k][q] => p = q)
  <2> HIDE DEF row, A
  <2>1. rows[k] = row(n - k)
    OBVIOUS
  <2> QED BY <1>2, <2>1, Zenon
<1> HIDE DEF rows, A
<1>6. PICK P : Joins(rows, A, P)
  BY <1>3, FlattenLoop
<1>7. /\ P \in [0..n -> Seq(A)] /\ P[0] = <<>>
      /\ \A k \in 1..n : P[k] = P[k - 1] \o rows[k]
      /\ FlattenSeq(rows) = P[n]
  BY <1>3, <1>6, Zenon DEF Joins
<1> DEFINE Once(k) == \A p, q \in 1..Len(P[k]) :
                        P[k][p][1] >= n - k /\ (P[k][p] = P[k][q] => p = q)
           B == {k \in 0..n : Once(k)}
<1>8. 0 \in B
  BY <1>7
<1>9. ASSUME NEW k \in 1..n, k - 1 \in B PROVE k \in B
  <2>1. k \in 0..n /\ k - 1 \in 0..n
    BY <1>7
  <2>2. P[k - 1] \in Seq(A) /\ rows[k] \in Seq(A) /\ P[k] = P[k - 1] \o rows[k]
    BY <1>5, <1>7, <2>1
  <2> DEFINE s == P[k - 1]
             t == rows[k]
  <2>3. /\ \A p, q \in 1..Len(s) : s[p][1] >= n - (k - 1) /\ (s[p] = s[q] => p = q)
        /\ \A p, q \in 1..Len(t) : t[p][1] = n - k /\ (t[p] = t[q] => p = q)
    BY <1>5, <1>9
  <2>4. /\ Len(s) \in Nat /\ Len(t) \in Nat /\ Len(s \o t) = Len(s) + Len(t)
        /\ \A p \in 1..Len(s) : (s \o t)[p] = s[p]
        /\ \A p \in 1..Len(t) : (s \o t)[Len(s) + p] = t[p]
    <3>1. s \in Seq(A) /\ t \in Seq(A)
      BY <2>2
    <3> HIDE DEF s, t
    <3> QED BY <3>1, ConcatIs
  <2>5. \A p \in 1..Len(s) : s[p][1] \in Int
    <3>1. \A p \in 1..Len(s) : s[p] \in A
      BY <2>2
    <3> QED BY <3>1 DEF A
  <2> HIDE DEF s, t
  <2>6. ASSUME NEW p \in 1..Len(s \o t)
        PROVE  \/ p \in 1..Len(s) /\ (s \o t)[p] = s[p]
               \/ p - Len(s) \in 1..Len(t) /\ (s \o t)[p] = t[p - Len(s)]
    <3>1. CASE p <= Len(s)
      BY <2>4, <3>1
    <3>2. CASE p > Len(s)
      <4>1. p - Len(s) \in 1..Len(t) /\ p = Len(s) + (p - Len(s))
        BY <2>4, <3>2
      <4> QED BY <2>4, <4>1
    <3> QED BY <2>4, <3>1, <3>2
  <2>7. ASSUME NEW p \in 1..Len(s \o t), NEW q \in 1..Len(s \o t)
        PROVE  (s \o t)[p][1] >= n - k /\ ((s \o t)[p] = (s \o t)[q] => p = q)
    <3>1. CASE p \in 1..Len(s) /\ (s \o t)[p] = s[p] /\ q \in 1..Len(s) /\ (s \o t)[q] = s[q]
      BY <2>3, <2>5, <3>1
    <3>2. CASE p - Len(s) \in 1..Len(t) /\ (s \o t)[p] = t[p - Len(s)]
               /\ q - Len(s) \in 1..Len(t) /\ (s \o t)[q] = t[q - Len(s)]
      <4>1. (s \o t)[p][1] = n - k
        BY <2>3, <3>2
      <4>2. (s \o t)[p] = (s \o t)[q] => p - Len(s) = q - Len(s)
        BY <2>3, <3>2
      <4> QED BY <2>4, <4>1, <4>2
    <3>3. CASE p \in 1..Len(s) /\ (s \o t)[p] = s[p]
               /\ q - Len(s) \in 1..Len(t) /\ (s \o t)[q] = t[q - Len(s)]
      <4>1. (s \o t)[p][1] >= n - (k - 1) /\ (s \o t)[q][1] = n - k /\ (s \o t)[p][1] \in Int
        BY <2>3, <2>5, <3>3
      <4> QED BY <4>1
    <3>4. CASE q \in 1..Len(s) /\ (s \o t)[q] = s[q]
               /\ p - Len(s) \in 1..Len(t) /\ (s \o t)[p] = t[p - Len(s)]
      <4>1. (s \o t)[q][1] >= n - (k - 1) /\ (s \o t)[p][1] = n - k /\ (s \o t)[q][1] \in Int
        BY <2>3, <2>5, <3>4
      <4> QED BY <4>1
    <3> QED BY <2>6, <3>1, <3>2, <3>3, <3>4, Zenon
  <2>8. P[k] = s \o t
    BY <2>2 DEF s, t
  <2>9. Once(k)
    BY <2>7, <2>8, Zenon
  <2> QED BY <2>1, <2>9
<1>10. n \in B
  <2>1. n \in 0..n
    OBVIOUS
  <2> HIDE DEF B
  <2> QED BY <1>8, <1>9, <2>1, UpTo
<1>11. P[n] \in Seq(A) /\ DOMAIN P[n] = 1..Len(P[n])
  <2>1. n \in 0..n
    OBVIOUS
  <2>2. P[n] \in Seq(A)
    BY <1>7, <2>1
  <2> QED BY <2>2
<1>12. Once(n)
  BY <1>10
<1>13. Strip(n, base, high) = P[n]
  BY <1>4, <1>7, Zenon
<1> QED BY <1>11, <1>12, <1>13, Zenon

NodeNames(k) == {Y(k, l, p) : l \in Int, p \in Int}
InputNames == {<<"x", i>> : i \in Nat}

(* The variables a node of level l is made of. *)
Below(k, l) == InputNames \cup {Y(k, l + 1, p) : p \in Int}

LEMMA NamesIs ==
    ASSUME NEW k, NEW l \in Int
    PROVE  /\ \A p \in Int : Y(k, l, p) \in NodeNames(k)
           /\ \A v \in Below(k, l) : v[1] = "x" \/ v \in NodeNames(k)
           /\ \A p : Y(k, l, p) \notin Below(k, l)
           /\ \A m \in Int : \A q : m # l /\ Y(k, m, q) \in Below(k, l) => m = l + 1
<1>1. \A p \in Int : Y(k, l, p) \in NodeNames(k)
  BY DEF NodeNames
<1>2. \A v \in InputNames : v[1] = "x" /\ \E i \in Nat : v = <<"x", i>>
  BY DEF InputNames
<1>3. \A p \in Int : Y(k, l + 1, p) \in NodeNames(k)
  BY DEF NodeNames
<1>4. \A m, q : Y(k, m, q) \in Below(k, l) => m = l + 1
  BY <1>2, Tags DEF Below
<1>5. \A v \in Below(k, l) : v[1] = "x" \/ v \in NodeNames(k)
  BY <1>2, <1>3 DEF Below
<1>6. l # l + 1
  OBVIOUS
<1> QED BY <1>1, <1>4, <1>5, <1>6

LEMMA AppendIs ==
    ASSUME NEW A, NEW s \in Seq(A), NEW e
    PROVE  /\ Len(s) \in Nat
           /\ DOMAIN Append(s, e) = 1..(Len(s) + 1)
           /\ \A i \in 1..Len(s) : Append(s, e)[i] = s[i]
           /\ Append(s, e)[Len(s) + 1] = e
<1> DEFINE B == A \cup {e}
<1>1. s \in Seq(B) /\ e \in B
  OBVIOUS
<1> HIDE DEF B
<1> QED BY <1>1

(* The gates of a strip and the root have no clause in common. *)
LEMMA StripApart ==
    ASSUME NEW n \in Nat, NEW base \in Int, NEW high \in Int, NEW k \in Nat,
           NEW G, NEW gates, NEW last,
           gates = [i \in DOMAIN Strip(n, base, high) |-> G[Strip(n, base, high)[i]]],
           last = {{Pos(Y(k, 0, 0))}},
           \A l, p : InStrip(n, base, high, l, p) => Owned(G[<<l, p>>], Y(k, l, p), Below(k, l))
    PROVE  /\ Private(Append(gates, last), NodeNames(k)) /\ Apart(Append(gates, last))
           /\ Append(gates, last) \in Seq(TidyGates)
<1> DEFINE nodes == Strip(n, base, high)
           A == {G[nodes[i]] : i \in DOMAIN nodes}
           all == Append(gates, last)
           L(i) == nodes[i][1]
           V(i) == Y(k, nodes[i][1], nodes[i][2])
<1>1. nodes \in Seq((0..(n - 1)) \X Int)
  BY StripHas, Zenon
<1>2. \A l, p : (\E i \in DOMAIN nodes : nodes[i] = <<l, p>>) <=> InStrip(n, base, high, l, p)
  BY StripHas, Zenon
<1>3. \A i, j \in DOMAIN nodes : nodes[i] = nodes[j] => i = j
  BY StripOnce, Zenon
<1>4. gates = [i \in DOMAIN nodes |-> G[nodes[i]]]
  BY Zenon
<1> HIDE DEF nodes
<1>5. /\ DOMAIN nodes = 1..Len(nodes) /\ Len(nodes) \in Nat
      /\ \A i \in DOMAIN nodes : nodes[i] = <<nodes[i][1], nodes[i][2]>> /\ nodes[i][1] \in Int /\ nodes[i][2] \in Int
  BY <1>1
<1>6. gates \in Seq(A) /\ Len(gates) = Len(nodes)
  BY <1>4, <1>5
<1>7. /\ DOMAIN all = 1..(Len(nodes) + 1)
      /\ \A i \in 1..Len(nodes) : all[i] = G[nodes[i]]
      /\ all[Len(nodes) + 1] = last
  <2>1. \A i \in 1..Len(nodes) : gates[i] = G[nodes[i]]
    BY <1>4, <1>5
  <2>2. /\ DOMAIN all = 1..(Len(gates) + 1)
        /\ \A i \in 1..Len(gates) : all[i] = gates[i]
        /\ all[Len(gates) + 1] = last
    <3> HIDE DEF A
    <3> QED BY <1>6, AppendIs
  <2> HIDE DEF A, all
  <2> QED BY <1>6, <2>1, <2>2
<1>8. ASSUME NEW i \in 1..Len(nodes) PROVE Owned(all[i], V(i), Below(k, L(i)))
  <2>1. InStrip(n, base, high, nodes[i][1], nodes[i][2])
    BY <1>2, <1>5
  <2>2. Owned(G[<<nodes[i][1], nodes[i][2]>>], V(i), Below(k, L(i)))
    BY <2>1
  <2> QED BY <1>5, <1>7, <2>2
<1>9. \A c \in last : c = {Pos(Y(k, 0, 0))} /\ Pos(Y(k, 0, 0))[2] = Y(k, 0, 0)
  BY DEF Pos
<1> HIDE DEF all
<1>10. \A i \in 1..Len(nodes) : L(i) \in Int /\ nodes[i][2] \in Int
  BY <1>5
<1>11. ASSUME NEW i \in DOMAIN all, NEW c \in all[i]
       PROVE  /\ \E m \in c : m[2] \in NodeNames(k)
              /\ \A m \in c : m[2][1] = "x" \/ m[2] \in NodeNames(k)
  <2>1. CASE i \in 1..Len(nodes)
    <3>1. /\ \E m \in c : m[2] = V(i)
          /\ \A m \in c : m[2] = V(i) \/ m[2] \in Below(k, L(i))
      BY <1>8, <1>11, <2>1 DEF Owned
    <3>2. V(i) \in NodeNames(k)
      BY <1>10, <2>1, NamesIs
    <3>3. \A v \in Below(k, L(i)) : v[1] = "x" \/ v \in NodeNames(k)
      BY <1>10, <2>1, NamesIs
    <3> QED BY <3>1, <3>2, <3>3
  <2>2. CASE i \notin 1..Len(nodes)
    <3>1. all[i] = last
      BY <1>5, <1>7, <2>2
    <3>2. Y(k, 0, 0) \in NodeNames(k)
      BY DEF NodeNames
    <3> QED BY <1>9, <1>11, <3>1, <3>2
  <2> QED BY <2>1, <2>2
<1>12. ASSUME NEW i \in 1..Len(nodes), NEW j \in 1..Len(nodes), NEW c \in all[i], c \in all[j]
       PROVE  i = j
  <2>1. /\ \E m \in c : m[2] = V(i)
        /\ \A m \in c : m[2] = V(i) \/ m[2] \in Below(k, L(i))
    BY <1>8, <1>12 DEF Owned
  <2>2. /\ \E m \in c : m[2] = V(j)
        /\ \A m \in c : m[2] = V(j) \/ m[2] \in Below(k, L(j))
    BY <1>8, <1>12 DEF Owned
  <2>3. /\ V(i) = V(j) \/ V(i) \in Below(k, L(j))
        /\ V(j) = V(i) \/ V(j) \in Below(k, L(i))
    BY <2>1, <2>2
  <2>4. L(i) \in Int /\ L(j) \in Int
    BY <1>10
  <2>5. CASE V(i) = V(j)
    <3>1. nodes[i][1] = nodes[j][1] /\ nodes[i][2] = nodes[j][2]
      BY <2>5, Tags
    <3>2. nodes[i] = nodes[j]
      BY <1>5, <3>1
    <3> QED BY <1>3, <1>5, <3>2
  <2>6. CASE V(i) \in Below(k, L(j)) /\ V(j) \in Below(k, L(i))
    <3>1. L(i) # L(j)
      BY <2>4, <2>6, NamesIs
    <3>2. L(i) = L(j) + 1 /\ L(j) = L(i) + 1
      BY <2>4, <2>6, <3>1, NamesIs
    <3> QED BY <2>4, <3>2
  <2> QED BY <2>3, <2>5, <2>6
<1>13. ASSUME NEW i \in 1..Len(nodes), NEW c \in all[i], c \in last PROVE FALSE
  <2>1. /\ \E m \in c : m[2] = V(i)
        /\ \E m \in c : m[2] \in Below(k, L(i))
    BY <1>8, <1>13 DEF Owned
  <2>2. V(i) = Y(k, 0, 0) /\ Y(k, 0, 0) \in Below(k, L(i))
    BY <1>9, <1>13, <2>1
  <2>3. V(i) \in Below(k, L(i)) /\ L(i) \in Int
    BY <1>10, <2>2
  <2> QED BY <2>3, NamesIs
<1>14. Private(all, NodeNames(k))
  BY <1>11, Zenon DEF Private
<1>15. ASSUME NEW i \in DOMAIN all, NEW j \in DOMAIN all, NEW c \in all[i], c \in all[j]
       PROVE  i = j
  <2>1. \A q \in DOMAIN all : q \in 1..Len(nodes) \/ q = Len(nodes) + 1
    BY <1>5, <1>7
  <2> QED BY <1>7, <1>12, <1>13, <1>15, <2>1
<1>16. Apart(all)
  BY <1>15 DEF Apart
<1>17. all \in Seq(TidyGates)
  <2>1. \A i \in 1..Len(nodes) : all[i] \in TidyGates
    BY <1>8, Zenon DEF Owned
  <2>2. last \in TidyGates
    <3>1. Y(k, 0, 0) \in Variables
      <4>1. 0 \in Int
        OBVIOUS
      <4> QED BY <4>1 DEF Variables
    <3>2. Pos(Y(k, 0, 0)) \in Literals
      BY <3>1, LiteralsAre
    <3> DEFINE o == Pos(Y(k, 0, 0))
    <3> HIDE DEF o
    <3>3. o \in Literals /\ last = {{o}}
      BY <3>2 DEF o
    <3>4. \A e \in last : e \subseteq Both(o, o, o, o)
      BY <3>3 DEF Both
    <3> QED BY <3>3, <3>4, GateTidy
  <2>3. \A i \in 1..(Len(nodes) + 1) : all[i] \in TidyGates
    <3>1. \A i \in 1..(Len(nodes) + 1) : i \in 1..Len(nodes) \/ i = Len(nodes) + 1
      BY <1>5
    <3> QED BY <1>7, <2>1, <2>2, <3>1
  <2>4. all \in Seq(A \cup {last})
    <3> HIDE DEF A
    <3>1. gates \in Seq(A \cup {last})
      BY <1>6
    <3> QED BY <3>1 DEF all
  <2> QED BY <1>7, <2>3, <2>4, SeqWithin
<1> QED BY <1>14, <1>16, <1>17 DEF all

InputLits == {Pos(v) : v \in InputNames}

LEMMA InputsFit == InputNames \subseteq Variables /\ InputLits \subseteq Literals
<1>1. ASSUME NEW i \in Nat PROVE <<"x", i>> \in Variables
  <2> DEFINE w == <<TRUE, <<"x", i>>>>
  <2>1. <<"x", i>> \in {"x"} \X Nat
    OBVIOUS
  <2>2. w \in Wires
    BY <2>1 DEF Wires
  <2>3. w[2] = <<"x", i>>
    OBVIOUS
  <2> HIDE DEF w
  <2> QED BY <2>2, <2>3 DEF Variables
<1>2. InputNames \subseteq Variables
  BY <1>1 DEF InputNames
<1> QED BY <1>2, LiteralsAre DEF InputLits

LEMMA BelowHas ==
    ASSUME NEW k \in Nat, NEW l \in Int, NEW p \in Int, NEW x \in InputLits
    PROVE  /\ mk_yvar(k, l, p)[2] = Y(k, l, p) /\ mk_yvar(k, l, p) \in Literals
           /\ Fits(x, Below(k, l)) /\ Fits(Neg(x), Below(k, l))
           /\ Fits(mk_yvar(k, l + 1, p), Below(k, l)) /\ Fits(mk_yvar(k, l + 1, p + 1), Below(k, l))
<1>1. \A m, q : mk_yvar(k, m, q)[2] = Y(k, m, q) /\ mk_yvar(k, m, q) = Pos(Y(k, m, q))
  BY DEF mk_yvar, Pos, Y
<1>2. Neg(x)[2] = x[2] /\ x[2] \in InputNames
  <2>1. PICK v \in InputNames : x = Pos(v)
    BY DEF InputLits
  <2>2. Pos(v)[2] = v
    BY DEF Pos
  <2>3. Neg(x)[2] = x[2]
    BY DEF Neg
  <2> QED BY <2>1, <2>2, <2>3
<1>3. x[2] \in Below(k, l)
  BY <1>2 DEF Below
<1>4. \A q \in Int : Y(k, l + 1, q) \in Below(k, l)
  BY DEF Below
<1>5. p + 1 \in Int /\ l + 1 \in Int
  OBVIOUS
<1>6. \A m, q \in Int : mk_yvar(k, m, q) \in Literals
  <2>1. \A m, q \in Int : Y(k, m, q) \in Variables
    BY DEF Variables
  <2> QED BY <1>1, <2>1, LiteralsAre
<1>7. x \in Literals /\ Neg(x) \in Literals
  BY InputsFit, LiteralsAre
<1>8. Fits(x, Below(k, l)) /\ Fits(Neg(x), Below(k, l))
  BY <1>2, <1>3, <1>7 DEF Fits
<1>9. \A q \in Int : Fits(mk_yvar(k, l + 1, q), Below(k, l))
  BY <1>1, <1>4, <1>5, <1>6 DEF Fits
<1> QED BY <1>1, <1>5, <1>6, <1>8, <1>9

LEMMA AtMostEquivApart ==
    ASSUME NEW A, NEW xs \in Seq(A), NEW tval \in Int, NEW k \in Nat,
           \A i \in 1..Len(xs) : xs[i] \in InputLits
    PROVE  /\ Private(bdd_gen_atmostN(k, xs, tval), NodeNames(k))
           /\ Apart(bdd_gen_atmostN(k, xs, tval))
           /\ bdd_gen_atmostN(k, xs, tval) \in Seq(TidyGates)
<1> DEFINE n == Len(xs)
           nodes == Strip(n, tval - n + 1, tval)
           y(l, p) == mk_yvar(k, l, p)
           not(l) == Neg(xs[l + 1])
           gate(l, p) ==
             CASE p < tval /\ p > tval - (n - l) + 1 -> gen_ite(y(l, p), xs[l + 1], y(l + 1, p + 1), y(l + 1, p))
               [] p < tval /\ p = tval - (n - l) + 1 -> gen_or(y(l, p), not(l), y(l + 1, p + 1))
               [] p = tval /\ p > tval - (n - l) + 1 -> gen_and(y(l, p), not(l), y(l + 1, p))
               [] p = tval /\ p = tval - (n - l) + 1 -> gen_2equiv(y(l, p), not(l))
           G == [q \in (0..(n - 1)) \X Int |-> gate(q[1], q[2])]
           gates == [i \in DOMAIN nodes |-> G[nodes[i]]]
<1>0. n \in Nat /\ tval - n + 1 \in Int /\ tval \in Int
  OBVIOUS
<1>1. bdd_gen_atmostN(k, xs, tval) = Append(gates, {{y(0, 0)}})
  <2>2. bdd_gen_atmostN(k, xs, tval) =
          Append([i \in DOMAIN nodes |-> gate(nodes[i][1], nodes[i][2])], {{y(0, 0)}})
    BY Zenon DEF bdd_gen_atmostN, AtMostNodes
  <2> HIDE DEF n
  <2>3. \A i \in DOMAIN nodes : nodes[i] \in (0..(n - 1)) \X Int
    <3>1. nodes \in Seq((0..(n - 1)) \X Int)
      BY <1>0, StripHas, Zenon
    <3> HIDE DEF nodes
    <3> QED BY <3>1
  <2>4. \A i \in DOMAIN nodes : G[nodes[i]] = gate(nodes[i][1], nodes[i][2])
    <3> HIDE DEF nodes, gate
    <3> QED BY <2>3
  <2>5. [i \in DOMAIN nodes |-> gate(nodes[i][1], nodes[i][2])] = gates
    <3> HIDE DEF nodes, gate, G
    <3> QED BY <2>4
  <2> HIDE DEF gates, nodes, gate
  <2> QED BY <2>2, <2>5
<1>2. ASSUME NEW l, NEW p, InStrip(n, tval - n + 1, tval, l, p)
      PROVE  Owned(G[<<l, p>>], Y(k, l, p), Below(k, l))
  <2>1. l \in 0..(n - 1) /\ p \in Int /\ p <= tval /\ p >= tval - (n - l) + 1
    BY <1>0, <1>2 DEF InStrip
  <2>2. G[<<l, p>>] = gate(l, p)
    <3> HIDE DEF gate
    <3> QED BY <2>1
  <2> DEFINE W == Below(k, l)
  <2>3. /\ y(l, p)[2] = Y(k, l, p) /\ y(l, p) \in Literals /\ Fits(xs[l + 1], W) /\ Fits(not(l), W)
        /\ Fits(y(l + 1, p), W) /\ Fits(y(l + 1, p + 1), W)
    <3>1. xs[l + 1] \in InputLits
      <4>1. l + 1 \in 1..Len(xs)
        BY <1>0, <2>1
      <4> QED BY <4>1
    <3>2. l \in Int /\ p \in Int
      BY <2>1
    <3> HIDE DEF n
    <3> QED BY <3>1, <3>2, BelowHas, Zenon
  <2> HIDE DEF y, not, W, G, n
  <2>5. CASE p < tval /\ p > tval - (n - l) + 1
    <3>1. gate(l, p) = gen_ite(y(l, p), xs[l + 1], y(l + 1, p + 1), y(l + 1, p))
      BY <1>0, <2>1, <2>5
    <3> HIDE DEF gate
    <3> QED BY <2>2, <2>3, <3>1, GatesOwned DEF W
  <2>6. CASE p < tval /\ p = tval - (n - l) + 1
    <3>1. gate(l, p) = gen_or(y(l, p), not(l), y(l + 1, p + 1))
      BY <1>0, <2>1, <2>6
    <3> HIDE DEF gate
    <3> QED BY <2>2, <2>3, <3>1, GatesOwned DEF W
  <2>7. CASE p = tval /\ p > tval - (n - l) + 1
    <3>1. gate(l, p) = gen_and(y(l, p), not(l), y(l + 1, p))
      BY <1>0, <2>1, <2>7
    <3> HIDE DEF gate
    <3> QED BY <2>2, <2>3, <3>1, GatesOwned DEF W
  <2>8. CASE p = tval /\ p = tval - (n - l) + 1
    <3>1. gate(l, p) = gen_2equiv(y(l, p), not(l))
      BY <1>0, <2>1, <2>8
    <3> HIDE DEF gate
    <3> QED BY <2>2, <2>3, <3>1, GatesOwned DEF W
  <2>9. (p < tval \/ p = tval) /\ (p > tval - (n - l) + 1 \/ p = tval - (n - l) + 1)
    BY <1>0, <2>1
  <2> QED BY <2>5, <2>6, <2>7, <2>8, <2>9, Zenon
<1> HIDE DEF G, n
<1>3. {{y(0, 0)}} = {{Pos(Y(k, 0, 0))}}
  BY DEF mk_yvar, Y
<1> HIDE DEF y
<1>4. /\ Private(Append(gates, {{y(0, 0)}}), NodeNames(k)) /\ Apart(Append(gates, {{y(0, 0)}}))
      /\ Append(gates, {{y(0, 0)}}) \in Seq(TidyGates)
  BY <1>0, <1>2, <1>3, StripApart, Zenon
<1> HIDE DEF gates
<1> QED BY <1>1, <1>4, Zenon DEF n

LEMMA AtMostImplicApart ==
    ASSUME NEW A, NEW xs \in Seq(A), NEW tval \in Int, NEW k \in Nat,
           \A i \in 1..Len(xs) : xs[i] \in InputLits
    PROVE  /\ Private(bdd_atmostN_implic(k, xs, tval), NodeNames(k))
           /\ Apart(bdd_atmostN_implic(k, xs, tval))
           /\ bdd_atmostN_implic(k, xs, tval) \in Seq(TidyGates)
<1> DEFINE n == Len(xs)
           nodes == Strip(n, tval - n + 1, tval)
           y(l, p) == mk_yvar(k, l, p)
           not(l) == Neg(xs[l + 1])
           gate(l, p) ==
             CASE p < tval /\ p > tval - (n - l) + 1 -> gen_implic_pos_ite(y(l, p), xs[l + 1], y(l + 1, p + 1), y(l + 1, p))
               [] p < tval /\ p = tval - (n - l) + 1 -> gen_implic_pos_or(y(l, p), not(l), y(l + 1, p + 1))
               [] p = tval /\ p > tval - (n - l) + 1 -> gen_implic_pos_and(y(l, p), not(l), y(l + 1, p))
               [] p = tval /\ p = tval - (n - l) + 1 -> gen_2equiv(y(l, p), not(l))
           G == [q \in (0..(n - 1)) \X Int |-> gate(q[1], q[2])]
           gates == [i \in DOMAIN nodes |-> G[nodes[i]]]
<1>0. n \in Nat /\ tval - n + 1 \in Int /\ tval \in Int
  OBVIOUS
<1>1. bdd_atmostN_implic(k, xs, tval) = Append(gates, {{y(0, 0)}})
  <2>2. bdd_atmostN_implic(k, xs, tval) =
          Append([i \in DOMAIN nodes |-> gate(nodes[i][1], nodes[i][2])], {{y(0, 0)}})
    BY Zenon DEF bdd_atmostN_implic, AtMostNodes
  <2> HIDE DEF n
  <2>3. \A i \in DOMAIN nodes : nodes[i] \in (0..(n - 1)) \X Int
    <3>1. nodes \in Seq((0..(n - 1)) \X Int)
      BY <1>0, StripHas, Zenon
    <3> HIDE DEF nodes
    <3> QED BY <3>1
  <2>4. \A i \in DOMAIN nodes : G[nodes[i]] = gate(nodes[i][1], nodes[i][2])
    <3> HIDE DEF nodes, gate
    <3> QED BY <2>3
  <2>5. [i \in DOMAIN nodes |-> gate(nodes[i][1], nodes[i][2])] = gates
    <3> HIDE DEF nodes, gate, G
    <3> QED BY <2>4
  <2> HIDE DEF gates, nodes, gate
  <2> QED BY <2>2, <2>5
<1>2. ASSUME NEW l, NEW p, InStrip(n, tval - n + 1, tval, l, p)
      PROVE  Owned(G[<<l, p>>], Y(k, l, p), Below(k, l))
  <2>1. l \in 0..(n - 1) /\ p \in Int /\ p <= tval /\ p >= tval - (n - l) + 1
    BY <1>0, <1>2 DEF InStrip
  <2>2. G[<<l, p>>] = gate(l, p)
    <3> HIDE DEF gate
    <3> QED BY <2>1
  <2> DEFINE W == Below(k, l)
  <2>3. /\ y(l, p)[2] = Y(k, l, p) /\ y(l, p) \in Literals /\ Fits(xs[l + 1], W) /\ Fits(not(l), W)
        /\ Fits(y(l + 1, p), W) /\ Fits(y(l + 1, p + 1), W)
    <3>1. xs[l + 1] \in InputLits
      <4>1. l + 1 \in 1..Len(xs)
        BY <1>0, <2>1
      <4> QED BY <4>1
    <3>2. l \in Int /\ p \in Int
      BY <2>1
    <3> HIDE DEF n
    <3> QED BY <3>1, <3>2, BelowHas, Zenon
  <2> HIDE DEF y, not, W, G, n
  <2>5. CASE p < tval /\ p > tval - (n - l) + 1
    <3>1. gate(l, p) = gen_implic_pos_ite(y(l, p), xs[l + 1], y(l + 1, p + 1), y(l + 1, p))
      BY <1>0, <2>1, <2>5
    <3> HIDE DEF gate
    <3> QED BY <2>2, <2>3, <3>1, GatesOwned DEF W
  <2>6. CASE p < tval /\ p = tval - (n - l) + 1
    <3>1. gate(l, p) = gen_implic_pos_or(y(l, p), not(l), y(l + 1, p + 1))
      BY <1>0, <2>1, <2>6
    <3> HIDE DEF gate
    <3> QED BY <2>2, <2>3, <3>1, GatesOwned DEF W
  <2>7. CASE p = tval /\ p > tval - (n - l) + 1
    <3>1. gate(l, p) = gen_implic_pos_and(y(l, p), not(l), y(l + 1, p))
      BY <1>0, <2>1, <2>7
    <3> HIDE DEF gate
    <3> QED BY <2>2, <2>3, <3>1, GatesOwned DEF W
  <2>8. CASE p = tval /\ p = tval - (n - l) + 1
    <3>1. gate(l, p) = gen_2equiv(y(l, p), not(l))
      BY <1>0, <2>1, <2>8
    <3> HIDE DEF gate
    <3> QED BY <2>2, <2>3, <3>1, GatesOwned DEF W
  <2>9. (p < tval \/ p = tval) /\ (p > tval - (n - l) + 1 \/ p = tval - (n - l) + 1)
    BY <1>0, <2>1
  <2> QED BY <2>5, <2>6, <2>7, <2>8, <2>9, Zenon
<1> HIDE DEF G, n
<1>3. {{y(0, 0)}} = {{Pos(Y(k, 0, 0))}}
  BY DEF mk_yvar, Y
<1> HIDE DEF y
<1>4. /\ Private(Append(gates, {{y(0, 0)}}), NodeNames(k)) /\ Apart(Append(gates, {{y(0, 0)}}))
      /\ Append(gates, {{y(0, 0)}}) \in Seq(TidyGates)
  BY <1>0, <1>2, <1>3, StripApart, Zenon
<1> HIDE DEF gates
<1> QED BY <1>1, <1>4, Zenon DEF n

LEMMA AtLeastApart ==
    ASSUME NEW A, NEW xs \in Seq(A), NEW tval \in Int, NEW k \in Nat,
           \A i \in 1..Len(xs) : xs[i] \in InputLits
    PROVE  /\ Private(bdd_gen_atleastN(k, xs, tval), NodeNames(k))
           /\ Apart(bdd_gen_atleastN(k, xs, tval))
           /\ bdd_gen_atleastN(k, xs, tval) \in Seq(TidyGates)
<1> DEFINE n == Len(xs)
           nodes == Strip(n, tval - n, tval - 1)
           y(l, p) == mk_yvar(k, l, p)
           gate(l, p) ==
             CASE p < tval - 1 /\ p > tval - (n - l) -> gen_ite(y(l, p), xs[l + 1], y(l + 1, p + 1), y(l + 1, p))
               [] p < tval - 1 /\ p = tval - (n - l) -> gen_and(y(l, p), xs[l + 1], y(l + 1, p + 1))
               [] p = tval - 1 /\ p > tval - (n - l) -> gen_or(y(l, p), xs[l + 1], y(l + 1, p))
               [] p = tval - 1 /\ p = tval - (n - l) -> gen_2equiv(y(l, p), xs[l + 1])
           G == [q \in (0..(n - 1)) \X Int |-> gate(q[1], q[2])]
           gates == [i \in DOMAIN nodes |-> G[nodes[i]]]
<1>0. n \in Nat /\ tval - n \in Int /\ tval - 1 \in Int /\ tval \in Int
  OBVIOUS
<1>1. bdd_gen_atleastN(k, xs, tval) = Append(gates, {{y(0, 0)}})
  <2>2. bdd_gen_atleastN(k, xs, tval) =
          Append([i \in DOMAIN nodes |-> gate(nodes[i][1], nodes[i][2])], {{y(0, 0)}})
    BY Zenon DEF bdd_gen_atleastN
  <2> HIDE DEF n
  <2>3. \A i \in DOMAIN nodes : nodes[i] \in (0..(n - 1)) \X Int
    <3>1. nodes \in Seq((0..(n - 1)) \X Int)
      BY <1>0, StripHas, Zenon
    <3> HIDE DEF nodes
    <3> QED BY <3>1
  <2>4. \A i \in DOMAIN nodes : G[nodes[i]] = gate(nodes[i][1], nodes[i][2])
    <3> HIDE DEF nodes, gate
    <3> QED BY <2>3
  <2>5. [i \in DOMAIN nodes |-> gate(nodes[i][1], nodes[i][2])] = gates
    <3> HIDE DEF nodes, gate, G
    <3> QED BY <2>4
  <2> HIDE DEF gates, nodes, gate
  <2> QED BY <2>2, <2>5
<1>2. ASSUME NEW l, NEW p, InStrip(n, tval - n, tval - 1, l, p)
      PROVE  Owned(G[<<l, p>>], Y(k, l, p), Below(k, l))
  <2>1. l \in 0..(n - 1) /\ p \in Int /\ p <= tval - 1 /\ p >= tval - (n - l)
    BY <1>0, <1>2 DEF InStrip
  <2>2. G[<<l, p>>] = gate(l, p)
    <3> HIDE DEF gate
    <3> QED BY <2>1
  <2> DEFINE W == Below(k, l)
  <2>3. /\ y(l, p)[2] = Y(k, l, p) /\ y(l, p) \in Literals /\ Fits(xs[l + 1], W)
        /\ Fits(y(l + 1, p), W) /\ Fits(y(l + 1, p + 1), W)
    <3>1. xs[l + 1] \in InputLits
      <4>1. l + 1 \in 1..Len(xs)
        BY <1>0, <2>1
      <4> QED BY <4>1
    <3>2. l \in Int /\ p \in Int
      BY <2>1
    <3> HIDE DEF n
    <3> QED BY <3>1, <3>2, BelowHas, Zenon
  <2> HIDE DEF y, W, G, n
  <2>5. CASE p < tval - 1 /\ p > tval - (n - l)
    <3>1. gate(l, p) = gen_ite(y(l, p), xs[l + 1], y(l + 1, p + 1), y(l + 1, p))
      BY <1>0, <2>1, <2>5
    <3> HIDE DEF gate
    <3> QED BY <2>2, <2>3, <3>1, GatesOwned DEF W
  <2>6. CASE p < tval - 1 /\ p = tval - (n - l)
    <3>1. gate(l, p) = gen_and(y(l, p), xs[l + 1], y(l + 1, p + 1))
      BY <1>0, <2>1, <2>6
    <3> HIDE DEF gate
    <3> QED BY <2>2, <2>3, <3>1, GatesOwned DEF W
  <2>7. CASE p = tval - 1 /\ p > tval - (n - l)
    <3>1. gate(l, p) = gen_or(y(l, p), xs[l + 1], y(l + 1, p))
      BY <1>0, <2>1, <2>7
    <3> HIDE DEF gate
    <3> QED BY <2>2, <2>3, <3>1, GatesOwned DEF W
  <2>8. CASE p = tval - 1 /\ p = tval - (n - l)
    <3>1. gate(l, p) = gen_2equiv(y(l, p), xs[l + 1])
      BY <1>0, <2>1, <2>8
    <3> HIDE DEF gate
    <3> QED BY <2>2, <2>3, <3>1, GatesOwned DEF W
  <2>9. (p < tval - 1 \/ p = tval - 1) /\ (p > tval - (n - l) \/ p = tval - (n - l))
    BY <1>0, <2>1
  <2> QED BY <2>5, <2>6, <2>7, <2>8, <2>9, Zenon
<1> HIDE DEF G, n
<1>3. {{y(0, 0)}} = {{Pos(Y(k, 0, 0))}}
  BY DEF mk_yvar, Y
<1> HIDE DEF y
<1>4. /\ Private(Append(gates, {{y(0, 0)}}), NodeNames(k)) /\ Apart(Append(gates, {{y(0, 0)}}))
      /\ Append(gates, {{y(0, 0)}}) \in Seq(TidyGates)
  BY <1>0, <1>2, <1>3, StripApart, Zenon
<1> HIDE DEF gates
<1> QED BY <1>1, <1>4, Zenon DEF n

-----------------------------------------------------------------------------
(* The counter: each clause of its gate i is on input i and on none else,   *)
(* or says that the id before i makes i true.                               *)
IdNames(call) == {Id(call, j) : j \in Int}

OfCounter(c, call, i) ==
  \/ /\ \E m \in c : m[2] = <<"x", i>>
     /\ \A m \in c : m[2] = <<"x", i>> \/ m[2] \in IdNames(call)
     /\ \E m \in c : m[2] \in IdNames(call)
  \/ c = {Neg(Pos(Id(call, i - 1))), Pos(Id(call, i))}

LEMMA CounterClauses ==
    ASSUME NEW n \in Nat, n > 1, NEW call \in Nat
    PROVE  /\ sc_gen_atmost1(call, Inputs(n)) \in Seq(TidyGates)
           /\ DOMAIN sc_gen_atmost1(call, Inputs(n)) = 1..n
           /\ \A i \in 1..n : \A c \in sc_gen_atmost1(call, Inputs(n))[i] : OfCounter(c, call, i)
<1> DEFINE xs == Inputs(n)
           cid(j) == Pos(<<"id", call, <<j>>>>)
           N == Len(xs) - 1
           first == {{Neg(xs[1]), cid(1)}}
           mid(j) == {{Neg(xs[j + 1]), Neg(cid(j))}, {Neg(xs[j + 1]), cid(j + 1)},
                      {Neg(cid(j)), cid(j + 1)}}
           last == {{Neg(xs[N + 1]), Neg(cid(N))}}
           mids == [j \in 1..(N - 1) |-> mid(j)]
           A == {first, last} \cup {mid(j) : j \in 1..(N - 1)}
           all == (<<first>> \o mids) \o <<last>>
<1>1. N = n - 1 /\ N # 0 /\ N - 1 = n - 2 /\ N + 1 = n /\ N - 1 \in Nat
  BY InputsLen
<1>2. sc_gen_atmost1(call, xs) = all
  BY <1>1, Zenon DEF sc_gen_atmost1
<1>3. /\ <<first>> \in Seq(A) /\ mids \in Seq(A) /\ <<last>> \in Seq(A)
      /\ Len(<<first>>) = 1 /\ <<first>>[1] = first /\ Len(<<last>>) = 1 /\ <<last>>[1] = last
      /\ Len(mids) = n - 2 /\ \A j \in 1..(n - 2) : mids[j] = mid(j)
  <2>1. N - 1 \in Nat /\ N - 1 = n - 2
    BY <1>1
  <2>2. \A j \in 1..(N - 1) : mid(j) \in A
    OBVIOUS
  <2>3. first \in A /\ last \in A
    OBVIOUS
  <2> HIDE DEF first, last, mid, A, N
  <2> QED BY <2>1, <2>2, <2>3
<1>4. /\ all \in Seq(A) /\ DOMAIN all = 1..n /\ all[1] = first /\ all[n] = last
      /\ \A j \in 1..(n - 2) : all[j + 1] = mid(j)
  <2> DEFINE a == <<first>>
             z == <<last>>
             s == a \o mids
  <2> HIDE DEF first, mid, mids, last, A, a, z
  <2>1. /\ s \in Seq(A) /\ Len(s) = Len(a) + Len(mids)
        /\ \A p \in 1..Len(a) : s[p] = a[p]
        /\ \A p \in 1..Len(mids) : s[Len(a) + p] = mids[p]
    <3>1. a \in Seq(A) /\ mids \in Seq(A)
      BY <1>3 DEF a
    <3> QED BY <3>1, ConcatIs DEF s
  <2> HIDE DEF s
  <2>2. /\ s \o z \in Seq(A) /\ Len(s \o z) = Len(s) + Len(z)
        /\ \A p \in 1..Len(s) : (s \o z)[p] = s[p]
        /\ \A p \in 1..Len(z) : (s \o z)[Len(s) + p] = z[p]
    <3>1. z \in Seq(A) /\ s \in Seq(A)
      BY <1>3, <2>1 DEF z
    <3> QED BY <3>1, ConcatIs
  <2>3. DOMAIN (s \o z) = 1..Len(s \o z)
    BY <2>2
  <2>4. Len(a) = 1 /\ a[1] = first /\ Len(z) = 1 /\ z[1] = last /\ Len(mids) = n - 2
    BY <1>3 DEF a, z
  <2>5. Len(s) = n - 1 /\ Len(s \o z) = n
    BY <2>1, <2>2, <2>4
  <2>6. (s \o z)[1] = first /\ (s \o z)[n] = last
    <3>1. 1 \in 1..Len(s) /\ 1 \in 1..Len(a) /\ 1 \in 1..Len(z) /\ Len(s) + 1 = n
      BY <2>4, <2>5
    <3>2. (s \o z)[1] = s[1] /\ s[1] = a[1]
      BY <2>1, <2>2, <3>1, Zenon
    <3>3. (s \o z)[Len(s) + 1] = z[1]
      BY <2>2, <3>1, Zenon
    <3> QED BY <2>4, <3>1, <3>2, <3>3
  <2>7. ASSUME NEW j \in 1..(n - 2) PROVE (s \o z)[j + 1] = mid(j)
    <3>1. j \in 1..Len(mids) /\ Len(a) + j = j + 1 /\ j + 1 \in 1..Len(s)
      BY <2>4, <2>5
    <3>2. (s \o z)[j + 1] = s[j + 1]
      BY <2>2, <3>1
    <3>3. s[j + 1] = mids[j]
      BY <2>1, <3>1
    <3> QED BY <1>3, <3>2, <3>3
  <2> QED BY <2>2, <2>3, <2>5, <2>6, <2>7 DEF s, a, z
<1>5. \A i \in 1..n : xs[i][2] = <<"x", i>> /\ Neg(xs[i])[2] = <<"x", i>>
  BY DEF Inputs, Pos, Neg
<1>6. \A j : cid(j) = Pos(Id(call, j)) /\ cid(j)[2] = Id(call, j) /\ Neg(cid(j))[2] = Id(call, j)
  BY DEF Pos, Neg, Id
<1>7. \A j \in Int : Id(call, j) \in IdNames(call)
  BY DEF IdNames
<1>7a. \A i \in 1..n : xs[i] \in Literals
  <2> TAKE i \in 1..n
  <2>1. xs[i] = Pos(<<"x", i>>)
    BY DEF Inputs
  <2>2. <<"x", i>> \in InputNames
    BY DEF InputNames
  <2> HIDE DEF xs
  <2> QED BY <2>1, <2>2, InputsFit, LiteralsAre
<1>7b. \A j \in Int : cid(j) \in Literals
  <2> TAKE j \in Int
  <2>1. Id(call, j) \in Variables
    BY DEF Variables
  <2> HIDE DEF cid
  <2> QED BY <1>6, <2>1, LiteralsAre
<1> HIDE DEF cid, xs, N
<1>7c. \A g \in A : g \in TidyGates
  <2>1. first \in TidyGates
    <3>1. xs[1] \in Literals /\ cid(1) \in Literals
      BY <1>7a, <1>7b
    <3>2. \A e \in first : e \subseteq Both(xs[1], xs[1], xs[1], cid(1))
      BY DEF Both
    <3> HIDE DEF first
    <3> QED BY <3>1, <3>2, GateTidy
  <2>2. last \in TidyGates
    <3>1. xs[N + 1] \in Literals /\ cid(N) \in Literals
      BY <1>1, <1>7a, <1>7b
    <3>2. \A e \in last : e \subseteq Both(xs[N + 1], xs[N + 1], xs[N + 1], cid(N))
      BY DEF Both
    <3> HIDE DEF last
    <3> QED BY <3>1, <3>2, GateTidy
  <2>3. ASSUME NEW j \in 1..(N - 1) PROVE mid(j) \in TidyGates
    <3>0. j + 1 \in 1..n /\ j \in Int /\ j + 1 \in Int
      BY <1>1
    <3>1. xs[j + 1] \in Literals /\ cid(j) \in Literals /\ cid(j + 1) \in Literals
      BY <1>7a, <1>7b, <3>0
    <3>2. \A e \in mid(j) : e \subseteq Both(xs[j + 1], xs[j + 1], cid(j), cid(j + 1))
      BY DEF Both
    <3> HIDE DEF mid
    <3> QED BY <3>1, <3>2, GateTidy
  <2> HIDE DEF first, last, mid
  <2> QED BY <2>1, <2>2, <2>3
<1>7d. all \in Seq(TidyGates)
  <2> HIDE DEF A, all
  <2>1. \A i \in DOMAIN all : all[i] \in A
    BY <1>4
  <2> QED BY <1>4, <1>7c, <2>1, SeqWithin
<1>8. ASSUME NEW i \in 1..n, NEW j \in Int
      PROVE  OfCounter({Neg(xs[i]), cid(j)}, call, i) /\ OfCounter({Neg(xs[i]), Neg(cid(j))}, call, i)
  BY <1>5, <1>6, <1>7 DEF OfCounter
<1>9. ASSUME NEW i \in 1..n, NEW c \in all[i] PROVE OfCounter(c, call, i)
  <2>1. CASE i = 1
    <3>1. c = {Neg(xs[1]), cid(1)}
      BY <1>4, <1>9, <2>1
    <3>2. 1 \in 1..n /\ 1 \in Int
      OBVIOUS
    <3>3. OfCounter({Neg(xs[1]), cid(1)}, call, 1)
      BY <1>8, <3>2
    <3> HIDE DEF all
    <3> QED BY <2>1, <3>1, <3>3
  <2>2. CASE i = n
    <3>1. c = {Neg(xs[n]), Neg(cid(n - 1))}
      BY <1>1, <1>4, <1>9, <2>2
    <3>2. n - 1 \in Int
      OBVIOUS
    <3> QED BY <1>8, <2>2, <3>1, <3>2
  <2>3. CASE i # 1 /\ i # n
    <3>1. i - 1 \in 1..(n - 2) /\ (i - 1) + 1 = i
      BY <2>3
    <3>2. all[i] = mid(i - 1)
      BY <1>4, <3>1
    <3>3. mid(i - 1) = {{Neg(xs[i]), Neg(cid(i - 1))}, {Neg(xs[i]), cid(i)}, {Neg(cid(i - 1)), cid(i)}}
      BY <3>1
    <3>4. OfCounter({Neg(cid(i - 1)), cid(i)}, call, i)
      BY <1>6 DEF OfCounter
    <3>5. i - 1 \in Int /\ i \in Int
      BY <3>1
    <3> HIDE DEF mid, all
    <3> QED BY <1>8, <1>9, <3>2, <3>3, <3>4, <3>5
  <2> QED BY <2>1, <2>2, <2>3
<1> QED BY <1>2, <1>4, <1>7d, <1>9 DEF xs

LEMMA CounterApart ==
    ASSUME NEW n \in Nat \ {0}, NEW call \in Nat
    PROVE  /\ Private(sc_gen_atmost1(call, Inputs(n)), IdNames(call))
           /\ Apart(sc_gen_atmost1(call, Inputs(n)))
           /\ sc_gen_atmost1(call, Inputs(n)) \in Seq(TidyGates)
<1> DEFINE g == sc_gen_atmost1(call, Inputs(n))
<1>1. CASE n = 1
  <2>1. Len(Inputs(n)) - 1 = 0
    <3>1. n \in Nat /\ Len(Inputs(n)) = n
      BY InputsLen
    <3> QED BY <1>1, <3>1
  <2>2. g = <<>>
    BY <2>1 DEF sc_gen_atmost1
  <2>3. g \in Seq(TidyGates)
    BY <2>2
  <2> QED BY <2>2, <2>3 DEF Private, Apart
<1>2. CASE n # 1
  <2>1. n \in Nat /\ n > 1
    BY <1>2
  <2>0. g \in Seq(TidyGates)
    BY <2>1, CounterClauses
  <2>2. DOMAIN g = 1..n /\ \A i \in 1..n : \A c \in g[i] : OfCounter(c, call, i)
    BY <2>1, CounterClauses
  <2> HIDE DEF g
  <2>3. \A j \in Int : Id(call, j) \in IdNames(call)
    BY DEF IdNames
  <2>4. \A v \in IdNames(call) : \E j \in Int : v = Id(call, j)
    BY DEF IdNames
  <2>5. \A l : Neg(l)[2] = l[2] /\ Neg(l)[1] = ~l[1] /\ Pos(l)[1] = TRUE /\ Pos(l)[2] = l
    BY DEF Neg, Pos
  <2>6. ASSUME NEW i \in 1..n, NEW c \in g[i]
        PROVE  /\ \E m \in c : m[2] \in IdNames(call)
               /\ \A m \in c : m[2][1] = "x" \/ m[2] \in IdNames(call)
    <3>1. CASE c = {Neg(Pos(Id(call, i - 1))), Pos(Id(call, i))}
      BY <2>3, <2>5, <3>1
    <3>2. CASE c # {Neg(Pos(Id(call, i - 1))), Pos(Id(call, i))}
      <4>1. /\ \E m \in c : m[2] \in IdNames(call)
            /\ \A m \in c : m[2] = <<"x", i>> \/ m[2] \in IdNames(call)
        BY <2>2, <2>6, <3>2 DEF OfCounter
      <4>2. <<"x", i>>[1] = "x"
        OBVIOUS
      <4> QED BY <4>1, <4>2
    <3> QED BY <3>1, <3>2
  <2>7. ASSUME NEW i \in 1..n, NEW j \in 1..n, NEW c \in g[i], c \in g[j] PROVE i = j
    <3>1. OfCounter(c, call, i) /\ OfCounter(c, call, j)
      BY <2>2, <2>7
    <3>2. \A q : <<"x", q>> \notin IdNames(call)
      BY <2>4, Tags
    <3>3. CASE c = {Neg(Pos(Id(call, i - 1))), Pos(Id(call, i))} /\ c = {Neg(Pos(Id(call, j - 1))), Pos(Id(call, j))}
      <4>1. Neg(Pos(Id(call, i - 1))) \in {Neg(Pos(Id(call, j - 1))), Pos(Id(call, j))}
        BY <3>3
      <4>2. Neg(Pos(Id(call, i - 1))) # Pos(Id(call, j))
        BY <2>5
      <4>3. Pos(Id(call, i - 1))[2] = Pos(Id(call, j - 1))[2]
        BY <2>5, <4>1, <4>2
      <4>4. i - 1 = j - 1
        BY <2>5, <4>3, Tags
      <4> QED BY <4>4
    <3>4. ASSUME NEW a \in Int, NEW b \in Int, \E m \in c : m[2] = <<"x", a>>,
                 c = {Neg(Pos(Id(call, b - 1))), Pos(Id(call, b))}
          PROVE  FALSE
      <4>1. \A m \in c : m[2] \in IdNames(call)
        BY <2>3, <2>5, <3>4
      <4> QED BY <3>2, <3>4, <4>1
    <3>5. CASE /\ \E m \in c : m[2] = <<"x", i>>
               /\ \A m \in c : m[2] = <<"x", j>> \/ m[2] \in IdNames(call)
      <4>1. <<"x", i>> = <<"x", j>> \/ <<"x", i>> \in IdNames(call)
        BY <3>5
      <4>2. <<"x", i>> = <<"x", j>>
        BY <3>2, <4>1
      <4> QED BY <4>2
    <3>6. i \in Int /\ j \in Int
      OBVIOUS
    <3> QED BY <3>1, <3>3, <3>4, <3>5, <3>6 DEF OfCounter
  <2>8. Private(g, IdNames(call))
    BY <2>2, <2>6 DEF Private
  <2>9. Apart(g)
    BY <2>2, <2>7 DEF Apart
  <2> QED BY <2>0, <2>8, <2>9 DEF g
<1> QED BY <1>1, <1>2

-----------------------------------------------------------------------------
(* The special cases have no auxiliary variables at all. *)
LEMMA PlainApart ==
    ASSUME NEW gates, \A i \in DOMAIN gates : \A c \in gates[i] : ~Auxiliary(c), NEW names
    PROVE  Private(gates, names) /\ Apart(gates)
<1>1. Private(gates, names)
  BY DEF Private
<1>2. Apart(gates)
  BY DEF Apart
<1> QED BY <1>1, <1>2

LEMMA SpecialApart ==
    ASSUME NEW n \in Nat, NEW names
    PROVE  /\ Private(gen_ge1(Inputs(n)), names) /\ Apart(gen_ge1(Inputs(n)))
           /\ Private(gen_geN(Inputs(n)), names) /\ Apart(gen_geN(Inputs(n)))
           /\ Private(gen_leNm1(Inputs(n)), names) /\ Apart(gen_leNm1(Inputs(n)))
           /\ Private(gen_le0(Inputs(n)), names) /\ Apart(gen_le0(Inputs(n)))
           /\ Private(pw_gen_atmost1(Inputs(n)), names) /\ Apart(pw_gen_atmost1(Inputs(n)))
           /\ Private(<<>>, names) /\ Apart(<<>>)
<1> DEFINE xs == Inputs(n)
           NoAux(g) == \A i \in DOMAIN g : \A c \in g[i] : ~Auxiliary(c)
           Lits == {xs[i] : i \in 1..n} \cup {Neg(xs[i]) : i \in 1..n}
<1>1. Len(xs) = n /\ DOMAIN xs = 1..n
  BY InputsLen
<1>2. \A i \in 1..n : xs[i][2][1] = "x" /\ Neg(xs[i])[2][1] = "x"
  BY DEF Inputs, Pos, Neg
<1>3. \A m \in Lits : m[2][1] = "x"
  <2> HIDE DEF xs
  <2> QED BY <1>2
<1>4. ASSUME NEW c, \A m \in c : m \in Lits PROVE ~Auxiliary(c)
  <2> HIDE DEF Lits
  <2> QED BY <1>3, <1>4 DEF Auxiliary
<1>5. \A i \in 1..n : xs[i] \in Lits /\ Neg(xs[i]) \in Lits
  <2> HIDE DEF xs
  <2> QED OBVIOUS
<1> HIDE DEF Lits, xs
<1>6. NoAux(gen_ge1(xs))
  BY <1>1, <1>4, <1>5 DEF gen_ge1
<1>7. NoAux(gen_geN(xs))
  BY <1>1, <1>4, <1>5 DEF gen_geN
<1>8. NoAux(gen_leNm1(xs))
  BY <1>1, <1>4, <1>5 DEF gen_leNm1
<1>9. NoAux(gen_le0(xs))
  BY <1>1, <1>4, <1>5 DEF gen_le0
<1>10. NoAux(pw_gen_atmost1(xs))
  <2>1. ASSUME NEW i \in DOMAIN pw_gen_atmost1(xs), NEW c \in pw_gen_atmost1(xs)[i]
        PROVE  \E p \in 1..n : \E q \in (p + 1)..n : c = {Neg(xs[p]), Neg(xs[q])}
    BY <1>1, <2>1 DEF pw_gen_atmost1
  <2>2. \A p \in 1..n : \A q \in (p + 1)..n : q \in 1..n
    OBVIOUS
  <2>3. \A p, q \in 1..n : \A m \in {Neg(xs[p]), Neg(xs[q])} : m \in Lits
    BY <1>5
  <2>4. \A p, q \in 1..n : ~Auxiliary({Neg(xs[p]), Neg(xs[q])})
    BY <1>4, <2>3
  <2> HIDE DEF xs
  <2> QED BY <2>1, <2>2, <2>4
<1>11. NoAux(<<>>)
  OBVIOUS
<1> QED BY <1>6, <1>7, <1>8, <1>9, <1>10, <1>11, PlainApart, Zenon DEF xs

LEMMA SpecialTidy ==
    ASSUME NEW n \in Nat
    PROVE  /\ gen_ge1(Inputs(n)) \in Seq(TidyGates)
           /\ gen_geN(Inputs(n)) \in Seq(TidyGates)
           /\ gen_leNm1(Inputs(n)) \in Seq(TidyGates)
           /\ gen_le0(Inputs(n)) \in Seq(TidyGates)
           /\ pw_gen_atmost1(Inputs(n)) \in Seq(TidyGates)
           /\ <<>> \in Seq(TidyGates)
<1> DEFINE xs == Inputs(n)
           L == BOOLEAN \X Xs(n)
<1>1. Len(xs) = n /\ DOMAIN xs = 1..n
  BY InputsLen
<1>2. IsFiniteSet(L)
  <2>1. IsFiniteSet({TRUE} \cup {FALSE})
    BY FS_Singleton, FS_AddElement
  <2>2. BOOLEAN = {TRUE} \cup {FALSE}
    OBVIOUS
  <2>3. IsFiniteSet(BOOLEAN)
    BY <2>1, <2>2
  <2> QED BY <2>3, XsFinite, FS_Product
<1>3. \A i \in 1..n : xs[i] \in L /\ Neg(xs[i]) \in L
  <2>1. \A i \in 1..n : xs[i] = Pos(<<"x", i>>) /\ <<"x", i>> \in Xs(n)
    BY InputsLen DEF Xs
  <2>2. ASSUME NEW v \in Xs(n) PROVE Pos(v) \in L
    <3>1. TRUE \in BOOLEAN
      OBVIOUS
    <3> QED BY <3>1, Zenon DEF Pos
  <2>3. ASSUME NEW l \in L PROVE Neg(l) \in L
    <3>1. l[1] \in BOOLEAN /\ l[2] \in Xs(n)
      OBVIOUS
    <3>2. (~l[1]) \in BOOLEAN
      OBVIOUS
    <3> QED BY <3>1, <3>2, Zenon DEF Neg
  <2> HIDE DEF xs, L
  <2> QED BY <2>1, <2>2, <2>3
<1>4. L \subseteq Literals
  <2>1. Xs(n) \subseteq InputNames
    BY DEF Xs, InputNames
  <2> QED BY <2>1, InputsFit DEF Literals
<1> HIDE DEF xs, L
<1>5. ASSUME NEW g, \A c \in g : c \subseteq L PROVE <<g>> \in Seq(TidyGates)
  <2>1. g \in TidyGates
    BY <1>2, <1>4, <1>5, TidyIs
  <2> QED BY <2>1
<1>6. gen_ge1(xs) \in Seq(TidyGates)
  <2>1. \A c \in {{xs[i] : i \in DOMAIN xs}} : c \subseteq L
    BY <1>1, <1>3
  <2> QED BY <1>5, <2>1 DEF gen_ge1
<1>7. gen_geN(xs) \in Seq(TidyGates)
  <2>1. \A c \in {{xs[i]} : i \in DOMAIN xs} : c \subseteq L
    BY <1>1, <1>3
  <2> QED BY <1>5, <2>1 DEF gen_geN
<1>8. gen_leNm1(xs) \in Seq(TidyGates)
  <2>1. \A c \in {{Neg(xs[i]) : i \in DOMAIN xs}} : c \subseteq L
    BY <1>1, <1>3
  <2> QED BY <1>5, <2>1 DEF gen_leNm1
<1>9. gen_le0(xs) \in Seq(TidyGates)
  <2>1. \A c \in {{Neg(xs[i])} : i \in DOMAIN xs} : c \subseteq L
    BY <1>1, <1>3
  <2> QED BY <1>5, <2>1 DEF gen_le0
<1>10. pw_gen_atmost1(xs) \in Seq(TidyGates)
  <2> DEFINE g == UNION {{{Neg(xs[i]), Neg(xs[j])} : j \in (i + 1)..Len(xs)} : i \in DOMAIN xs}
  <2>1. \A i \in 1..n : \A j \in (i + 1)..n : {Neg(xs[i]), Neg(xs[j])} \subseteq L
    BY <1>3
  <2>2. \A c \in g : c \subseteq L
    BY <1>1, <2>1
  <2>3. pw_gen_atmost1(xs) = <<g>>
    BY DEF pw_gen_atmost1
  <2> HIDE DEF g
  <2> QED BY <1>5, <2>2, <2>3
<1>11. <<>> \in Seq(TidyGates)
  OBVIOUS
<1> QED BY <1>6, <1>7, <1>8, <1>9, <1>10, <1>11 DEF xs

-----------------------------------------------------------------------------
LEMMA PowerIs ==
    /\ Power[0] = 1
    /\ \A k \in Nat : Power[k] \in Nat \ {0} /\ Power[k + 1] = 2 * Power[k]
<1> DEFINE V == [n \in Nat |-> Nat \ {0}]
           step == [n \in Nat |-> [x \in Nat \ {0} |-> 2 * x]]
<1>1. 1 \in V[0] /\ \A n \in Nat : n # 0 => \A x \in V[n - 1] : step[n][x] \in V[n]
  OBVIOUS
<1> HIDE DEF V, step
<1>2. PICK f : IsRecursion(f, 1, step)
  BY <1>1, RecursionExists
<1>3. \A n \in Nat : f[n] \in Nat \ {0}
  <2>1. \A n \in Nat : f[n] \in V[n]
    BY <1>1, <1>2, RecursionExists
  <2> QED BY <2>1 DEF V
<1>4. f = [k \in Nat |-> IF k = 0 THEN 1 ELSE 2 * f[k - 1]]
  <2>1. ASSUME NEW k \in Nat
        PROVE  (IF k = 0 THEN 1 ELSE step[k][f[k - 1]]) = (IF k = 0 THEN 1 ELSE 2 * f[k - 1])
    <3>1. CASE k # 0
      <4>1. k - 1 \in Nat
        BY <3>1
      <4>2. f[k - 1] \in Nat \ {0}
        BY <1>3, <4>1
      <4> QED BY <4>2 DEF step
    <3> QED BY <3>1
  <2>2. [k \in Nat |-> IF k = 0 THEN 1 ELSE step[k][f[k - 1]]]
          = [k \in Nat |-> IF k = 0 THEN 1 ELSE 2 * f[k - 1]]
    BY <2>1, Zenon
  <2> QED BY <1>2, <2>2, Zenon DEF IsRecursion
<1>5. Power = [k \in Nat |-> IF k = 0 THEN 1 ELSE 2 * Power[k - 1]]
  BY <1>4, Zenon DEF Power
<1>6. \A k \in Nat : Power[k] = IF k = 0 THEN 1 ELSE 2 * Power[k - 1]
  <2> DEFINE R(k) == IF k = 0 THEN 1 ELSE 2 * Power[k - 1]
  <2>1. Power = [k \in Nat |-> R(k)]
    BY <1>5
  <2> HIDE DEF R
  <2>2. \A k \in Nat : Power[k] = R(k)
    BY <2>1
  <2> QED BY <2>2 DEF R
<1>7. Power[0] = 1
  BY <1>6
<1>8. \A k \in Nat : Power[k + 1] = 2 * Power[k]
  <2> TAKE k \in Nat
  <2>1. k + 1 \in Nat /\ k + 1 # 0 /\ (k + 1) - 1 = k
    OBVIOUS
  <2> QED BY <1>6, <2>1
<1>9. \A k \in Nat : Power[k] \in Nat \ {0}
  <2> DEFINE S == {k \in Nat : Power[k] \in Nat \ {0}}
  <2>1. 0 \in S
    BY <1>7
  <2>2. \A k \in Nat : k \in S => k + 1 \in S
    BY <1>8
  <2>3. \A k \in Nat : k \in S
    <3> HIDE DEF S
    <3> QED BY <2>1, <2>2, AllNat
  <2> QED BY <2>3
<1> QED BY <1>7, <1>8, <1>9

(* The least power of two above n. *)
LEMMA RadixIs ==
    ASSUME NEW n \in Nat \ {0}
    PROVE  /\ Radix(n) \in Nat \ {0}
           /\ Power[Radix(n)] > n /\ Power[Radix(n)] <= 2 * n
<1> DEFINE S == {k \in Nat : n < Power[k]}
<1>1. \A k \in Nat : Power[k] > k
  <2> DEFINE B == {k \in Nat : Power[k] > k}
  <2>1. 0 \in B
    BY PowerIs
  <2>2. \A k \in Nat : k \in B => k + 1 \in B
    BY PowerIs
  <2>3. \A k \in Nat : k \in B
    <3> HIDE DEF B
    <3> QED BY <2>1, <2>2, AllNat
  <2> QED BY <2>3
<1>2. n \in S
  BY <1>1
<1>3. PICK k \in S : \A j \in S : k <= j
  BY <1>2, LeastNatural
<1>4. k \in 1..n
  <2>1. k <= n
    BY <1>2, <1>3
  <2>2. k # 0
    BY <1>3, PowerIs
  <2> QED BY <2>1, <2>2
<1>5. Power[k - 1] <= n /\ n < Power[k]
  <2>1. k - 1 \in Nat /\ ~(k <= k - 1)
    BY <1>4
  <2>2. Power[k - 1] \in Nat
    BY <2>1, PowerIs
  <2> QED BY <1>3, <2>1, <2>2
<1>6. Radix(n) \in 1..n /\ Power[Radix(n) - 1] <= n /\ n < Power[Radix(n)]
  <2> HIDE DEF S
  <2> QED BY <1>4, <1>5, Zenon DEF Radix
<1> DEFINE q == Radix(n)
<1>7. q - 1 \in Nat /\ (q - 1) + 1 = q /\ q \in Nat \ {0}
  BY <1>6
<1> HIDE DEF q
<1>8. Power[q] = 2 * Power[q - 1] /\ Power[q - 1] \in Nat /\ Power[q] \in Nat
  BY <1>7, PowerIs
<1>9. Power[q - 1] <= n /\ n < Power[q]
  BY <1>6 DEF q
<1>10. q \in Nat \ {0} /\ Power[q] > n /\ Power[q] <= 2 * n
  BY <1>7, <1>8, <1>9
<1> QED BY <1>10 DEF q

-----------------------------------------------------------------------------
(***************************************************************************)
(* Sorters.  The recursive functions that make them are defined for every  *)
(* size, and what they make is a net: its outputs, and its gates.          *)
(***************************************************************************)
Lits == Wires \cup {Neg(w) : w \in Wires}
GateSet == SUBSET SUBSET Lits
Nets(n) == [out : [1..n -> Wires], gates : Seq(GateSet)]

Merges(k) == [at : Places, A : Blocks(k), B : Blocks(k)]
MergeOf(k, m) == srt_recur_odd_even_merge[k][m]

LEMMA PlacesDown ==
    ASSUME NEW at \in Places, NEW move \in Moves
    PROVE  /\ Down(at, move) \in Places
           /\ Down(at, move).call = at.call
           /\ Down(at, move).path = Append(at.path, move)
<1>1. at.path \in Seq(Moves) /\ at.call \in Nat
  BY DEF Places
<1>2. Append(at.path, move) \in Seq(Moves)
  BY <1>1
<1>3. Down(at, move) = [call |-> at.call, path |-> Append(at.path, move)]
  BY DEF Down, Places
<1> QED BY <1>1, <1>2, <1>3 DEF Places

LEMMA WiresAre ==
    ASSUME NEW at \in Places, NEW i \in Nat
    PROVE  MinId(at, i) \in Wires /\ MaxId(at, i) \in Wires
<1>1. at.path \in Seq(Moves) /\ at.call \in Nat
  BY DEF Places
<1>2. /\ <<"min", at.call, at.path, i>> \in {"min", "max"} \X Nat \X Seq(Moves) \X Nat
      /\ <<"max", at.call, at.path, i>> \in {"min", "max"} \X Nat \X Seq(Moves) \X Nat
  BY <1>1
<1>3. \A v \in {"min", "max"} \X Nat \X Seq(Moves) \X Nat : <<TRUE, v>> \in Wires
  BY DEF Wires
<1> QED BY <1>2, <1>3, Zenon DEF MinId, MaxId, Pos

LEMMA LitsAre ==
    ASSUME NEW w \in Wires
    PROVE  w \in Lits /\ Neg(w) \in Lits /\ w = Pos(w[2])
<1> DEFINE V == ({"x"} \X Nat) \cup ({"zero"} \X Nat \X Nat)
                  \cup ({"min", "max"} \X Nat \X Seq(Moves) \X Nat)
           one == TRUE
<1>1. Wires = {one} \X V
  BY Zenon DEF Wires
<1> HIDE DEF V, one
<1>2. w = <<one, w[2]>>
  BY <1>1
<1>3. w = Pos(w[2])
  BY <1>2 DEF Pos, one
<1>4. w \in Lits /\ Neg(w) \in Lits
  <2> HIDE DEF Wires
  <2> QED BY DEF Lits
<1> QED BY <1>3, <1>4

LEMMA GatesAre ==
    ASSUME NEW a \in Wires, NEW b \in Wires, NEW x \in Wires, NEW y \in Wires
    PROVE  gen_comparator(a, b, x, y) \in GateSet
<1>1. /\ a \in Lits /\ b \in Lits /\ x \in Lits /\ y \in Lits
      /\ Neg(a) \in Lits /\ Neg(b) \in Lits /\ Neg(x) \in Lits /\ Neg(y) \in Lits
  BY LitsAre
<1> HIDE DEF Lits
<1>2. gen_and(a, x, y) \in GateSet
  BY <1>1 DEF gen_and, GateSet
<1>3. gen_or(b, x, y) \in GateSet
  BY <1>1 DEF gen_or, GateSet
<1> QED BY <1>2, <1>3 DEF gen_comparator, GateSet

LEMMA ComparatorIs ==
    ASSUME NEW at \in Places, NEW i \in Nat, NEW x \in Wires, NEW y \in Wires
    PROVE  Comparator(at, i, x, y) \in GateSet
BY WiresAre, GatesAre DEF Comparator

LEMMA HalvesAre ==
    ASSUME NEW k \in Nat \ {0}, NEW xs \in Blocks(k)
    PROVE  /\ k - 1 \in Nat /\ Power[k - 1] \in Nat \ {0} /\ Power[k] = 2 * Power[k - 1]
           /\ Odds(xs) \in Blocks(k - 1) /\ Evens(xs) \in Blocks(k - 1)
           /\ Lower(xs) \in Blocks(k - 1) /\ Upper(xs) \in Blocks(k - 1)
           /\ \A i \in 1..Power[k - 1] :
                /\ Odds(xs)[i] = xs[2 * i - 1] /\ Evens(xs)[i] = xs[2 * i]
                /\ Lower(xs)[i] = xs[i] /\ Upper(xs)[i] = xs[Power[k - 1] + i]
<1> DEFINE h == Power[k - 1]
<1>1. k - 1 \in Nat /\ (k - 1) + 1 = k
  OBVIOUS
<1>2. h \in Nat \ {0} /\ Power[k] = 2 * h
  BY <1>1, PowerIs
<1> HIDE DEF h
<1>3. Blocks(k) = [1..(2 * h) -> Wires] /\ Blocks(k - 1) = [1..h -> Wires]
  BY <1>2 DEF Blocks, h
<1>4. Len(xs) = 2 * h /\ Len(xs) \div 2 = h
  <2>1. xs \in [1..(2 * h) -> Wires] /\ 2 * h \in Nat
    BY <1>2, <1>3
  <2>2. Len(xs) = 2 * h
    BY <2>1
  <2> QED BY <1>2, <2>2
<1>5. \A i \in 1..h : /\ 2 * i - 1 \in 1..(2 * h) /\ 2 * i \in 1..(2 * h)
                      /\ i \in 1..(2 * h) /\ h + i \in 1..(2 * h)
  BY <1>2
<1>6. \A i \in 1..(2 * h) : xs[i] \in Wires
  BY <1>3
<1>7. Odds(xs) = [i \in 1..h |-> xs[2 * i - 1]] /\ Evens(xs) = [i \in 1..h |-> xs[2 * i]]
  BY <1>4, Zenon DEF Odds, Evens
<1>8. Lower(xs) = [i \in 1..h |-> xs[i]] /\ Upper(xs) = [i \in 1..h |-> xs[h + i]]
  BY <1>4, Zenon DEF Lower, Upper
<1> HIDE DEF Wires
<1>9. /\ Odds(xs) \in Blocks(k - 1) /\ Evens(xs) \in Blocks(k - 1)
      /\ Lower(xs) \in Blocks(k - 1) /\ Upper(xs) \in Blocks(k - 1)
  BY <1>3, <1>5, <1>6, <1>7, <1>8
<1>10. \A i \in 1..h :
         /\ Odds(xs)[i] = xs[2 * i - 1] /\ Evens(xs)[i] = xs[2 * i]
         /\ Lower(xs)[i] = xs[i] /\ Upper(xs)[i] = xs[h + i]
  BY <1>7, <1>8
<1> QED BY <1>1, <1>2, <1>9, <1>10 DEF h

(* The final comparison stage of a merge. *)
Stage(at, n, odd, even) == [i \in 1..(n - 1) |-> Comparator(at, i, odd.out[i + 1], even.out[i])]

IsCompared(net, at, n, odd, even) ==
    /\ net \in Nets(2 * n)
    /\ net.out[1] = odd.out[1] /\ net.out[2 * n] = even.out[n]
    /\ \A i \in 1..(n - 1) : net.out[2 * i] = MinId(at, i) /\ net.out[2 * i + 1] = MaxId(at, i)
    /\ net.gates = (odd.gates \o even.gates) \o Stage(at, n, odd, even)
    /\ Stage(at, n, odd, even) \in Seq(GateSet)

LEMMA ComparedIs ==
    ASSUME NEW at \in Places, NEW n \in Nat \ {0}, NEW odd \in Nets(n), NEW even \in Nets(n)
    PROVE  IsCompared(Compared(at, n, odd, even), at, n, odd, even)
<1> DEFINE out == [i \in 1..(2 * n) |->
                     CASE i = 1     -> odd.out[1]
                       [] i = 2 * n -> even.out[n]
                       [] i > 1 /\ i < 2 * n /\ i % 2 = 0 -> MinId(at, i \div 2)
                       [] i > 1 /\ i < 2 * n /\ i % 2 = 1 -> MaxId(at, i \div 2)]
           stage == Stage(at, n, odd, even)
           gates == (odd.gates \o even.gates) \o stage
           net == Compared(at, n, odd, even)
<1>1. net.out = out /\ net.gates = gates /\ net = [out |-> out, gates |-> gates]
  <2>1. net = [out |-> out, gates |-> gates]
    BY Zenon DEF Compared, Stage
  <2> HIDE DEF net, out, gates
  <2>2. \A x, y : [out |-> x, gates |-> y].out = x /\ [out |-> x, gates |-> y].gates = y
    OBVIOUS
  <2> QED BY <2>1, <2>2, Zenon
<1>2. /\ odd.out \in [1..n -> Wires] /\ even.out \in [1..n -> Wires]
      /\ odd.gates \in Seq(GateSet) /\ even.gates \in Seq(GateSet)
  BY Zenon DEF Nets
<1>3. \A i \in 1..n : odd.out[i] \in Wires /\ even.out[i] \in Wires
  BY <1>2, Zenon
<1>4. stage \in Seq(GateSet)
  <2>1. n - 1 \in Nat
    OBVIOUS
  <2>2. \A i \in 1..(n - 1) : Comparator(at, i, odd.out[i + 1], even.out[i]) \in GateSet
    <3> TAKE i \in 1..(n - 1)
    <3>1. i \in Nat /\ i + 1 \in 1..n /\ i \in 1..n
      OBVIOUS
    <3> QED BY <1>3, <3>1, ComparatorIs
  <2>3. stage \in [1..(n - 1) -> GateSet]
    <3> HIDE DEF GateSet
    <3> QED BY <2>2, Zenon DEF Stage
  <2> HIDE DEF stage, GateSet
  <2> QED BY <2>1, <2>3, SeqFrom
<1>5. gates \in Seq(GateSet)
  <2> HIDE DEF stage, GateSet
  <2> QED BY <1>2, <1>4, ConcatIs
<1>6. out[1] = odd.out[1] /\ out[2 * n] = even.out[n]
  BY DEF MinId
<1>7. ASSUME NEW i \in 1..(n - 1)
      PROVE  out[2 * i] = MinId(at, i) /\ out[2 * i + 1] = MaxId(at, i)
  <2>1. /\ 2 * i \in 1..(2 * n) /\ 2 * i + 1 \in 1..(2 * n)
        /\ 2 * i # 1 /\ 2 * i # 2 * n /\ 2 * i > 1 /\ 2 * i < 2 * n /\ (2 * i) % 2 = 0
        /\ 2 * i + 1 # 1 /\ 2 * i + 1 # 2 * n /\ 2 * i + 1 > 1 /\ 2 * i + 1 < 2 * n /\ (2 * i + 1) % 2 = 1
        /\ (2 * i) \div 2 = i /\ (2 * i + 1) \div 2 = i
    OBVIOUS
  <2> QED BY <2>1
<1>8. out \in [1..(2 * n) -> Wires]
  <2>1. \A i \in 1..(2 * n) : out[i] \in Wires
    <3> TAKE i \in 1..(2 * n)
    <3>1. i = 1 \/ i = 2 * n \/ (\E j \in 1..(n - 1) : i = 2 * j \/ i = 2 * j + 1)
      <4>1. PICK j \in Int : i = 2 * j \/ i = 2 * j + 1
        <5>1. i = 2 * (i \div 2) \/ i = 2 * (i \div 2) + 1
          OBVIOUS
        <5> QED BY <5>1
      <4> QED BY <4>1
    <3>2. 1 \in 1..n /\ n \in 1..n
      OBVIOUS
    <3>3. CASE i = 1
      <4> HIDE DEF out
      <4> QED BY <1>3, <1>6, <3>2, <3>3
    <3>4. CASE i = 2 * n
      <4> HIDE DEF out
      <4> QED BY <1>3, <1>6, <3>2, <3>4
    <3>5. ASSUME NEW j \in 1..(n - 1), i = 2 * j \/ i = 2 * j + 1 PROVE out[i] \in Wires
      <4>1. MinId(at, j) \in Wires /\ MaxId(at, j) \in Wires
        BY WiresAre
      <4> HIDE DEF out
      <4> QED BY <1>7, <3>5, <4>1
    <3> HIDE DEF out
    <3> QED BY <3>1, <3>3, <3>4, <3>5
  <2> DEFINE v(i) == CASE i = 1     -> odd.out[1]
                       [] i = 2 * n -> even.out[n]
                       [] i > 1 /\ i < 2 * n /\ i % 2 = 0 -> MinId(at, i \div 2)
                       [] i > 1 /\ i < 2 * n /\ i % 2 = 1 -> MaxId(at, i \div 2)
  <2>2. out = [i \in 1..(2 * n) |-> v(i)]
    BY Zenon
  <2> HIDE DEF out, v
  <2>3. \A i \in 1..(2 * n) : v(i) \in Wires
    BY <2>1, <2>2
  <2> QED BY <2>2, <2>3
<1> HIDE DEF out, gates, stage, net
<1>9. net \in Nets(2 * n)
  BY <1>1, <1>5, <1>8, Zenon DEF Nets
<1>10. net.out[1] = odd.out[1] /\ net.out[2 * n] = even.out[n]
  BY <1>1, <1>6, Zenon
<1>11. \A i \in 1..(n - 1) : net.out[2 * i] = MinId(at, i) /\ net.out[2 * i + 1] = MaxId(at, i)
  BY <1>1, <1>7, Zenon
<1>12. net.gates = (odd.gates \o even.gates) \o stage
  BY <1>1 DEF gates
<1>13. IsCompared(net, at, n, odd, even)
  BY <1>4, <1>9, <1>10, <1>11, <1>12, Zenon DEF IsCompared, stage
<1> QED BY <1>13 DEF net

(* A merge of 2^k wires each, and its parts. *)
FirstMerge(m) == [out   |-> <<MinId(m.at, 1), MaxId(m.at, 1)>>,
                  gates |-> <<Comparator(m.at, 1, m.A[1], m.B[1])>>]
OddPart(m)  == [at |-> Down(m.at, "odd"), A |-> Odds(m.A), B |-> Odds(m.B)]
EvenPart(m) == [at |-> Down(m.at, "even"), A |-> Evens(m.A), B |-> Evens(m.B)]

LEMMA PartsAre ==
    ASSUME NEW k \in Nat \ {0}, NEW m \in Merges(k)
    PROVE  /\ OddPart(m) \in Merges(k - 1) /\ EvenPart(m) \in Merges(k - 1)
           /\ OddPart(m).at = Down(m.at, "odd") /\ EvenPart(m).at = Down(m.at, "even")
           /\ OddPart(m).A = Odds(m.A) /\ OddPart(m).B = Odds(m.B)
           /\ EvenPart(m).A = Evens(m.A) /\ EvenPart(m).B = Evens(m.B)
<1>1. m.at \in Places /\ m.A \in Blocks(k) /\ m.B \in Blocks(k)
  BY DEF Merges
<1>2. Down(m.at, "odd") \in Places /\ Down(m.at, "even") \in Places
  BY <1>1, PlacesDown DEF Moves
<1>3. /\ Odds(m.A) \in Blocks(k - 1) /\ Evens(m.A) \in Blocks(k - 1)
      /\ Odds(m.B) \in Blocks(k - 1) /\ Evens(m.B) \in Blocks(k - 1)
  BY <1>1, HalvesAre
<1>4. \A x, y, z : /\ [at |-> x, A |-> y, B |-> z].at = x
                  /\ [at |-> x, A |-> y, B |-> z].A = y
                  /\ [at |-> x, A |-> y, B |-> z].B = z
  OBVIOUS
<1>5. \A x \in Places, y, z \in Blocks(k - 1) : [at |-> x, A |-> y, B |-> z] \in Merges(k - 1)
  BY Zenon DEF Merges
<1>6. OddPart(m) \in Merges(k - 1) /\ EvenPart(m) \in Merges(k - 1)
  BY <1>2, <1>3, <1>5, Zenon DEF OddPart, EvenPart
<1> QED BY <1>4, <1>6, Zenon DEF OddPart, EvenPart

LEMMA FirstMergeIs ==
    ASSUME NEW m \in Merges(0)
    PROVE  FirstMerge(m) \in Nets(2) /\ Comparator(m.at, 1, m.A[1], m.B[1]) \in GateSet
<1>1. m.at \in Places /\ m.A \in Blocks(0) /\ m.B \in Blocks(0)
  BY DEF Merges
<1>2. m.A[1] \in Wires /\ m.B[1] \in Wires
  <2>1. Blocks(0) = [1..1 -> Wires] /\ 1 \in 1..1
    BY PowerIs DEF Blocks
  <2> HIDE DEF Wires
  <2> QED BY <1>1, <2>1
<1>3. MinId(m.at, 1) \in Wires /\ MaxId(m.at, 1) \in Wires
  BY <1>1, WiresAre
<1>4. Comparator(m.at, 1, m.A[1], m.B[1]) \in GateSet
  BY <1>1, <1>2, ComparatorIs
<1>5. \A w, x \in Wires : <<w, x>> \in [1..2 -> Wires]
  OBVIOUS
<1>6. \A g \in GateSet : <<g>> \in Seq(GateSet)
  <2> HIDE DEF GateSet
  <2> QED OBVIOUS
<1> QED BY <1>3, <1>4, <1>5, <1>6, Zenon DEF FirstMerge, Nets

LEMMA MergeDefined ==
    /\ \A k \in Nat : \A m \in Merges(k) : MergeOf(k, m) \in Nets(2 * Power[k])
    /\ \A m \in Merges(0) : MergeOf(0, m) = FirstMerge(m)
    /\ \A k \in Nat \ {0} : \A m \in Merges(k) :
         MergeOf(k, m) = Compared(m.at, Power[k], MergeOf(k - 1, OddPart(m)), MergeOf(k - 1, EvenPart(m)))
<1> DEFINE V == [k \in Nat |-> [Merges(k) -> Nets(2 * Power[k])]]
           base == [m \in Merges(0) |-> FirstMerge(m)]
           Turn(k, g) == [m \in Merges(k) |-> Compared(m.at, Power[k], g[OddPart(m)], g[EvenPart(m)])]
           step == [k \in Nat |-> [g \in V[k - 1] |-> Turn(k, g)]]
<1>1. base \in V[0]
  <2>1. 2 * Power[0] = 2 /\ 0 \in Nat
    BY PowerIs
  <2>2. \A m \in Merges(0) : FirstMerge(m) \in Nets(2 * Power[0])
    BY <2>1, FirstMergeIs
  <2>3. base \in [Merges(0) -> Nets(2 * Power[0])]
    BY <2>2, Zenon
  <2> HIDE DEF base
  <2> QED BY <2>1, <2>3, Zenon
<1>2. ASSUME NEW k \in Nat, k # 0, NEW g \in V[k - 1]
      PROVE  step[k][g] = Turn(k, g) /\ Turn(k, g) \in V[k]
  <2>0. k \in Nat \ {0} /\ k - 1 \in Nat
    BY <1>2
  <2>1. g \in [Merges(k - 1) -> Nets(2 * Power[k - 1])]
    BY <2>0
  <2>2. Power[k] \in Nat \ {0} /\ Power[k] = 2 * Power[k - 1]
    <3>1. (k - 1) + 1 = k
      OBVIOUS
    <3> QED BY <2>0, <3>1, PowerIs
  <2>3. \A m \in Merges(k) : Compared(m.at, Power[k], g[OddPart(m)], g[EvenPart(m)]) \in Nets(2 * Power[k])
    <3> TAKE m \in Merges(k)
    <3>1. OddPart(m) \in Merges(k - 1) /\ EvenPart(m) \in Merges(k - 1)
      BY <2>0, PartsAre
    <3>2. g[OddPart(m)] \in Nets(Power[k]) /\ g[EvenPart(m)] \in Nets(Power[k])
      BY <2>1, <2>2, <3>1, Zenon
    <3>3. m.at \in Places
      BY DEF Merges
    <3>4. IsCompared(Compared(m.at, Power[k], g[OddPart(m)], g[EvenPart(m)]),
                     m.at, Power[k], g[OddPart(m)], g[EvenPart(m)])
      BY <2>2, <3>2, <3>3, ComparedIs
    <3> QED BY <3>4, Zenon DEF IsCompared
  <2>4. Turn(k, g) \in [Merges(k) -> Nets(2 * Power[k])]
    BY <2>3, Zenon
  <2>5. step[k][g] = Turn(k, g)
    <3>1. step[k] = [h \in V[k - 1] |-> Turn(k, h)]
      BY Zenon
    <3> HIDE DEF step, Turn, V
    <3> QED BY <1>2, <3>1, Zenon
  <2> HIDE DEF step, Turn
  <2> QED BY <2>4, <2>5, Zenon
<1>3. \A k \in Nat : k # 0 => \A g \in V[k - 1] : step[k][g] \in V[k]
  <2> HIDE DEF step, Turn, V
  <2> QED BY <1>2, Zenon
<1>4. PICK f : IsRecursion(f, base, step)
  <2> HIDE DEF step, V, base
  <2> QED BY <1>1, <1>3, RecursionExists
<1>5. \A k \in Nat : f[k] \in V[k]
  <2> HIDE DEF step, V, base
  <2> QED BY <1>1, <1>3, <1>4, RecursionExists
<1> DEFINE D(g, k) == [m \in Merges(k) |->
                         IF k = 0 THEN FirstMerge(m)
                         ELSE Compared(m.at, Power[k], g[k - 1][OddPart(m)], g[k - 1][EvenPart(m)])]
<1>6. \A k \in Nat : D(f, k) = IF k = 0 THEN base ELSE step[k][f[k - 1]]
  <2> TAKE k \in Nat
  <2>1. CASE k = 0
    <3>1. D(f, 0) = base
      OBVIOUS
    <3> HIDE DEF D, base, step
    <3> QED BY <2>1, <3>1
  <2>2. CASE k # 0
    <3>1. k - 1 \in Nat
      BY <2>2
    <3>2. step[k][f[k - 1]] = Turn(k, f[k - 1])
      <4> HIDE DEF step, V, Turn
      <4> QED BY <1>2, <1>5, <2>2, <3>1
    <3>3. D(f, k) = Turn(k, f[k - 1])
      BY <2>2, Zenon
    <3> HIDE DEF D, step, Turn
    <3> QED BY <2>2, <3>2, <3>3
  <2> QED BY <2>1, <2>2
<1>7. f = [k \in Nat |-> D(f, k)]
  <2> HIDE DEF D, base, step
  <2>1. [k \in Nat |-> D(f, k)] = [k \in Nat |-> IF k = 0 THEN base ELSE step[k][f[k - 1]]]
    BY <1>6, Zenon
  <2> QED BY <1>4, <2>1, Zenon DEF IsRecursion
<1>8. srt_recur_odd_even_merge = CHOOSE g : g = [k \in Nat |-> D(g, k)]
  BY Zenon DEF srt_recur_odd_even_merge, FirstMerge, OddPart, EvenPart, Merges
<1> DEFINE s == srt_recur_odd_even_merge
<1>9. s = [k \in Nat |-> D(s, k)]
  <2> HIDE DEF D
  <2> QED BY <1>7, <1>8, Zenon
<1>10. \A k \in Nat : s[k] = D(s, k)
  <2> HIDE DEF D
  <2> QED BY <1>9, Zenon
<1>11. s[0] = base
  <2>1. D(s, 0) = base
    <3> HIDE DEF s
    <3> QED OBVIOUS
  <2> HIDE DEF D, base, s
  <2> QED BY <1>10, <2>1
<1>12. \A k \in Nat : k # 0 => s[k] = Turn(k, s[k - 1])
  <2> TAKE k \in Nat
  <2> HAVE k # 0
  <2>1. D(s, k) = Turn(k, s[k - 1])
    <3> HIDE DEF s
    <3> QED BY Zenon
  <2> HIDE DEF D, Turn, s
  <2> QED BY <1>10, <2>1, Zenon
<1> HIDE DEF s, D, base, Turn, step
<1> DEFINE S == {k \in Nat : s[k] \in V[k]}
<1>13. 0 \in S
  BY <1>1, <1>11
<1>14. \A k \in Nat : k \in S => k + 1 \in S
  <2> TAKE k \in Nat
  <2> HAVE k \in S
  <2>1. k + 1 \in Nat /\ k + 1 # 0 /\ (k + 1) - 1 = k /\ s[k] \in V[k]
    OBVIOUS
  <2> HIDE DEF V
  <2>2. Turn(k + 1, s[k]) \in V[k + 1]
    BY <1>2, <2>1
  <2>3. s[k + 1] = Turn(k + 1, s[k])
    BY <1>12, <2>1
  <2> QED BY <2>1, <2>2, <2>3
<1>15. \A k \in Nat : k \in S
  <2> HIDE DEF S
  <2> QED BY <1>13, <1>14, AllNat
<1>16. \A k \in Nat : s[k] \in [Merges(k) -> Nets(2 * Power[k])]
  BY <1>15
<1>17. \A k \in Nat : \A m \in Merges(k) : MergeOf(k, m) \in Nets(2 * Power[k])
  <2> HIDE DEF V, S
  <2> QED BY <1>16, Zenon DEF MergeOf, s
<1>18. \A m \in Merges(0) : MergeOf(0, m) = FirstMerge(m)
  BY <1>11, Zenon DEF MergeOf, s, base
<1>19. \A k \in Nat \ {0} : \A m \in Merges(k) :
         MergeOf(k, m) = Compared(m.at, Power[k], MergeOf(k - 1, OddPart(m)), MergeOf(k - 1, EvenPart(m)))
  <2> TAKE k \in Nat \ {0}
  <2> TAKE m \in Merges(k)
  <2>1. s[k] = Turn(k, s[k - 1])
    BY <1>12
  <2>2. Turn(k, s[k - 1])[m]
          = Compared(m.at, Power[k], s[k - 1][OddPart(m)], s[k - 1][EvenPart(m)])
    BY Zenon DEF Turn
  <2> QED BY <2>1, <2>2, Zenon DEF MergeOf, s
<1> QED BY <1>17, <1>18, <1>19, Zenon

-----------------------------------------------------------------------------
(* A sorter of 2^k wires, and its parts. *)
Sorts(k) == [at : Places, xs : Blocks(k)]
SortOf(k, s) == recur_srt_gen[k][s]
LowerOf(s) == [at |-> Down(s.at, "A"), xs |-> Lower(s.xs)]
UpperOf(s) == [at |-> Down(s.at, "B"), xs |-> Upper(s.xs)]
LastPart(at, A, B) == [at |-> Down(at, "merge"), A |-> A.out, B |-> B.out]
FirstSort(s) == [out |-> s.xs, gates |-> <<>>]

LEMMA LastIs ==
    \A at, A, B : /\ LastPart(at, A, B).at = Down(at, "merge")
                  /\ LastPart(at, A, B).A = A.out /\ LastPart(at, A, B).B = B.out
<1>1. \A x, y, z : /\ [at |-> x, A |-> y, B |-> z].at = x
                   /\ [at |-> x, A |-> y, B |-> z].A = y
                   /\ [at |-> x, A |-> y, B |-> z].B = z
  OBVIOUS
<1> QED BY <1>1, Zenon DEF LastPart

IsMerged(net, k, at, A, B) ==
    /\ LastPart(at, A, B) \in Merges(k)
    /\ net.out = MergeOf(k, LastPart(at, A, B)).out
    /\ net.gates = (A.gates \o B.gates) \o MergeOf(k, LastPart(at, A, B)).gates
    /\ A.gates \in Seq(GateSet) /\ B.gates \in Seq(GateSet)
    /\ MergeOf(k, LastPart(at, A, B)).gates \in Seq(GateSet)
    /\ net \in Nets(2 * Power[k])

LEMMA MergedIs ==
    ASSUME NEW k \in Nat, NEW at \in Places, NEW A \in Nets(Power[k]), NEW B \in Nets(Power[k])
    PROVE  IsMerged(Merged(k, at, A, B), k, at, A, B)
<1> DEFINE m == LastPart(at, A, B)
           net == MergeOf(k, m)
           g == (A.gates \o B.gates) \o net.gates
<1>1. /\ A.out \in Blocks(k) /\ B.out \in Blocks(k)
      /\ A.gates \in Seq(GateSet) /\ B.gates \in Seq(GateSet)
  BY Zenon DEF Nets, Blocks
<1>2. Down(at, "merge") \in Places
  BY PlacesDown DEF Moves
<1>3. m \in Merges(k)
  BY <1>1, <1>2, Zenon DEF LastPart, Merges
<1>4. net \in Nets(2 * Power[k])
  BY <1>3, MergeDefined, Zenon
<1>5. net.out \in [1..(2 * Power[k]) -> Wires] /\ net.gates \in Seq(GateSet)
  BY <1>4, Zenon DEF Nets
<1>6. g \in Seq(GateSet)
  <2> HIDE DEF net, GateSet
  <2> QED BY <1>1, <1>5, ConcatIs
<1>7. Merged(k, at, A, B) = [out |-> net.out, gates |-> g]
  BY Zenon DEF Merged, MergeOf, LastPart
<1> HIDE DEF net, g
<1>8. \A x, y : [out |-> x, gates |-> y].out = x /\ [out |-> x, gates |-> y].gates = y
  OBVIOUS
<1>9. Merged(k, at, A, B).out = net.out /\ Merged(k, at, A, B).gates = g
  BY <1>7, <1>8, Zenon
<1>10. Merged(k, at, A, B) \in Nets(2 * Power[k])
  <2>1. \A n, x, y : x \in [1..n -> Wires] /\ y \in Seq(GateSet)
                       => [out |-> x, gates |-> y] \in Nets(n)
    BY Zenon DEF Nets
  <2> QED BY <1>5, <1>6, <1>7, <2>1, Zenon
<1> QED BY <1>1, <1>3, <1>5, <1>9, <1>10, Zenon DEF IsMerged, net, g

LEMMA SortPartsAre ==
    ASSUME NEW k \in Nat \ {0}, NEW s \in Sorts(k)
    PROVE  /\ LowerOf(s) \in Sorts(k - 1) /\ UpperOf(s) \in Sorts(k - 1)
           /\ LowerOf(s).at = Down(s.at, "A") /\ UpperOf(s).at = Down(s.at, "B")
           /\ LowerOf(s).xs = Lower(s.xs) /\ UpperOf(s).xs = Upper(s.xs)
<1>1. s.at \in Places /\ s.xs \in Blocks(k)
  BY DEF Sorts
<1>2. Down(s.at, "A") \in Places /\ Down(s.at, "B") \in Places
  BY <1>1, PlacesDown DEF Moves
<1>3. Lower(s.xs) \in Blocks(k - 1) /\ Upper(s.xs) \in Blocks(k - 1)
  BY <1>1, HalvesAre
<1>4. \A x, y : [at |-> x, xs |-> y].at = x /\ [at |-> x, xs |-> y].xs = y
  OBVIOUS
<1>5. LowerOf(s) \in Sorts(k - 1) /\ UpperOf(s) \in Sorts(k - 1)
  BY <1>2, <1>3, Zenon DEF Sorts, LowerOf, UpperOf
<1> QED BY <1>4, <1>5, Zenon DEF LowerOf, UpperOf

LEMMA SortDefined ==
    /\ \A k \in Nat : \A s \in Sorts(k) : SortOf(k, s) \in Nets(Power[k])
    /\ \A s \in Sorts(0) : SortOf(0, s) = FirstSort(s)
    /\ \A k \in Nat \ {0} : \A s \in Sorts(k) :
         SortOf(k, s) = Merged(k - 1, s.at, SortOf(k - 1, LowerOf(s)), SortOf(k - 1, UpperOf(s)))
<1> DEFINE V == [k \in Nat |-> [Sorts(k) -> Nets(Power[k])]]
           base == [s \in Sorts(0) |-> FirstSort(s)]
           Turn(k, g) == [s \in Sorts(k) |-> Merged(k - 1, s.at, g[LowerOf(s)], g[UpperOf(s)])]
           step == [k \in Nat |-> [g \in V[k - 1] |-> Turn(k, g)]]
<1>1. base \in V[0]
  <2>1. \A s \in Sorts(0) : FirstSort(s) \in Nets(Power[0])
    <3> TAKE s \in Sorts(0)
    <3>1. s.xs \in [1..Power[0] -> Wires]
      BY Zenon DEF Sorts, Blocks
    <3>2. <<>> \in Seq(GateSet)
      <4> HIDE DEF GateSet
      <4> QED OBVIOUS
    <3> QED BY <3>1, <3>2, Zenon DEF FirstSort, Nets
  <2>2. base \in [Sorts(0) -> Nets(Power[0])]
    BY <2>1, Zenon
  <2>3. V[0] = [Sorts(0) -> Nets(Power[0])]
    OBVIOUS
  <2> HIDE DEF base, V
  <2> QED BY <2>2, <2>3
<1>2. ASSUME NEW k \in Nat, k # 0, NEW g \in V[k - 1]
      PROVE  step[k][g] = Turn(k, g) /\ Turn(k, g) \in V[k]
  <2>0. k \in Nat \ {0} /\ k - 1 \in Nat
    BY <1>2
  <2>1. g \in [Sorts(k - 1) -> Nets(Power[k - 1])]
    BY <2>0
  <2>2. Power[k] = 2 * Power[k - 1]
    <3>1. (k - 1) + 1 = k
      OBVIOUS
    <3> QED BY <2>0, <3>1, PowerIs
  <2>3. \A s \in Sorts(k) : Merged(k - 1, s.at, g[LowerOf(s)], g[UpperOf(s)]) \in Nets(Power[k])
    <3> TAKE s \in Sorts(k)
    <3>1. LowerOf(s) \in Sorts(k - 1) /\ UpperOf(s) \in Sorts(k - 1)
      BY <2>0, SortPartsAre
    <3>2. g[LowerOf(s)] \in Nets(Power[k - 1]) /\ g[UpperOf(s)] \in Nets(Power[k - 1])
      BY <2>1, <3>1, Zenon
    <3>3. s.at \in Places
      BY DEF Sorts
    <3>4. Merged(k - 1, s.at, g[LowerOf(s)], g[UpperOf(s)]) \in Nets(2 * Power[k - 1])
      <4>1. IsMerged(Merged(k - 1, s.at, g[LowerOf(s)], g[UpperOf(s)]),
                     k - 1, s.at, g[LowerOf(s)], g[UpperOf(s)])
        BY <2>0, <3>2, <3>3, MergedIs
      <4> QED BY <4>1, Zenon DEF IsMerged
    <3> QED BY <2>2, <3>4
  <2>4. Turn(k, g) \in [Sorts(k) -> Nets(Power[k])]
    BY <2>3, Zenon
  <2>5. step[k][g] = Turn(k, g)
    <3>1. step[k] = [h \in V[k - 1] |-> Turn(k, h)]
      BY Zenon
    <3> HIDE DEF step, Turn, V
    <3> QED BY <1>2, <3>1, Zenon
  <2> HIDE DEF step, Turn
  <2> QED BY <2>4, <2>5, Zenon
<1>3. \A k \in Nat : k # 0 => \A g \in V[k - 1] : step[k][g] \in V[k]
  <2> HIDE DEF step, Turn, V
  <2> QED BY <1>2, Zenon
<1>4. PICK f : IsRecursion(f, base, step)
  <2> HIDE DEF step, V, base
  <2> QED BY <1>1, <1>3, RecursionExists
<1>5. \A k \in Nat : f[k] \in V[k]
  <2> HIDE DEF step, V, base
  <2> QED BY <1>1, <1>3, <1>4, RecursionExists
<1> DEFINE D(g, k) == [s \in Sorts(k) |->
                         IF k = 0 THEN FirstSort(s)
                         ELSE Merged(k - 1, s.at, g[k - 1][LowerOf(s)], g[k - 1][UpperOf(s)])]
<1>6. \A k \in Nat : D(f, k) = IF k = 0 THEN base ELSE step[k][f[k - 1]]
  <2> TAKE k \in Nat
  <2>1. CASE k = 0
    <3>1. D(f, 0) = base
      OBVIOUS
    <3> HIDE DEF D, base, step
    <3> QED BY <2>1, <3>1
  <2>2. CASE k # 0
    <3>1. k - 1 \in Nat
      BY <2>2
    <3>2. step[k][f[k - 1]] = Turn(k, f[k - 1])
      <4> HIDE DEF step, V, Turn
      <4> QED BY <1>2, <1>5, <2>2, <3>1
    <3>3. D(f, k) = Turn(k, f[k - 1])
      BY <2>2, Zenon
    <3> HIDE DEF D, step, Turn
    <3> QED BY <2>2, <3>2, <3>3
  <2> QED BY <2>1, <2>2
<1>7. f = [k \in Nat |-> D(f, k)]
  <2> HIDE DEF D, base, step
  <2>1. [k \in Nat |-> D(f, k)] = [k \in Nat |-> IF k = 0 THEN base ELSE step[k][f[k - 1]]]
    BY <1>6, Zenon
  <2> QED BY <1>4, <2>1, Zenon DEF IsRecursion
<1>8. recur_srt_gen = CHOOSE g : g = [k \in Nat |-> D(g, k)]
  BY Zenon DEF recur_srt_gen, FirstSort, LowerOf, UpperOf, Sorts
<1> DEFINE r == recur_srt_gen
<1>9. r = [k \in Nat |-> D(r, k)]
  <2> HIDE DEF D
  <2> QED BY <1>7, <1>8, Zenon
<1>10. \A k \in Nat : r[k] = D(r, k)
  <2> HIDE DEF D
  <2> QED BY <1>9, Zenon
<1>11. r[0] = base
  <2>1. D(r, 0) = base
    <3> HIDE DEF r
    <3> QED OBVIOUS
  <2> HIDE DEF D, base, r
  <2> QED BY <1>10, <2>1
<1>12. \A k \in Nat : k # 0 => r[k] = Turn(k, r[k - 1])
  <2> TAKE k \in Nat
  <2> HAVE k # 0
  <2>1. D(r, k) = Turn(k, r[k - 1])
    <3> HIDE DEF r
    <3> QED BY Zenon
  <2> HIDE DEF D, Turn, r
  <2> QED BY <1>10, <2>1, Zenon
<1> HIDE DEF r, D, base, Turn, step
<1> DEFINE S == {k \in Nat : r[k] \in V[k]}
<1>13. 0 \in S
  BY <1>1, <1>11
<1>14. \A k \in Nat : k \in S => k + 1 \in S
  <2> TAKE k \in Nat
  <2> HAVE k \in S
  <2>1. k + 1 \in Nat /\ k + 1 # 0 /\ (k + 1) - 1 = k /\ r[k] \in V[k]
    OBVIOUS
  <2> HIDE DEF V
  <2>2. Turn(k + 1, r[k]) \in V[k + 1]
    BY <1>2, <2>1
  <2>3. r[k + 1] = Turn(k + 1, r[k])
    BY <1>12, <2>1
  <2> QED BY <2>1, <2>2, <2>3
<1>15. \A k \in Nat : k \in S
  <2> HIDE DEF S
  <2> QED BY <1>13, <1>14, AllNat
<1>16. \A k \in Nat : r[k] \in [Sorts(k) -> Nets(Power[k])]
  BY <1>15
<1>17. \A k \in Nat : \A s \in Sorts(k) : SortOf(k, s) \in Nets(Power[k])
  <2> HIDE DEF V, S
  <2> QED BY <1>16, Zenon DEF SortOf, r
<1>18. \A s \in Sorts(0) : SortOf(0, s) = FirstSort(s)
  BY <1>11, Zenon DEF SortOf, r, base
<1>19. \A k \in Nat \ {0} : \A s \in Sorts(k) :
         SortOf(k, s) = Merged(k - 1, s.at, SortOf(k - 1, LowerOf(s)), SortOf(k - 1, UpperOf(s)))
  <2> TAKE k \in Nat \ {0}
  <2> TAKE s \in Sorts(k)
  <2>1. r[k] = Turn(k, r[k - 1])
    BY <1>12
  <2>2. Turn(k, r[k - 1])[s] = Merged(k - 1, s.at, r[k - 1][LowerOf(s)], r[k - 1][UpperOf(s)])
    BY Zenon DEF Turn
  <2> QED BY <2>1, <2>2, Zenon DEF SortOf, r
<1> QED BY <1>17, <1>18, <1>19, Zenon

-----------------------------------------------------------------------------
(***************************************************************************)
(* Sorters sort.  Sorted(T, xs, n, p): of n wires p are true, and they are *)
(* the last ones.                                                          *)
(***************************************************************************)
Sorted(T, xs, n, p) == p \in 0..n /\ \A i \in 1..n : IsTrue(T, xs[i]) <=> i > n - p

LEMMA WireTrue == \A T : \A w \in Wires : IsTrue(T, w) <=> w[2] \in T
<1> SUFFICES ASSUME NEW T, NEW w \in Wires PROVE IsTrue(T, w) <=> w[2] \in T
  OBVIOUS
<1>1. w = Pos(w[2])
  BY LitsAre
<1>2. IsTrue(T, Pos(w[2])) <=> w[2] \in T
  BY TrueLiterals
<1> QED BY <1>1, <1>2

LEMMA ComparatorObeyed ==
    ASSUME NEW T, NEW at \in Places, NEW i \in Nat, NEW x, NEW y,
           Fulfils(T, Comparator(at, i, x, y))
    PROVE  /\ IsTrue(T, MinId(at, i)) <=> IsTrue(T, x) /\ IsTrue(T, y)
           /\ IsTrue(T, MaxId(at, i)) <=> IsTrue(T, x) \/ IsTrue(T, y)
<1>1. Fulfils(T, gen_and(MinId(at, i), x, y)) /\ Fulfils(T, gen_or(MaxId(at, i), x, y))
  BY DEF Comparator, gen_comparator, Fulfils
<1> QED BY <1>1, GateAnd, GateOr

(* Every other wire of a sorted list. *)
LEMMA OthersSorted ==
    ASSUME NEW T, NEW k \in Nat \ {0}, NEW xs \in Blocks(k), NEW p, Sorted(T, xs, Power[k], p)
    PROVE  /\ Sorted(T, Odds(xs), Power[k - 1], p \div 2)
           /\ Sorted(T, Evens(xs), Power[k - 1], (p + 1) \div 2)
<1> DEFINE h == Power[k - 1]
<1>1. h \in Nat \ {0} /\ Power[k] = 2 * h
  BY HalvesAre
<1>2. \A i \in 1..h : Odds(xs)[i] = xs[2 * i - 1] /\ Evens(xs)[i] = xs[2 * i]
  BY HalvesAre
<1> HIDE DEF h
<1>3. p \in 0..(2 * h) /\ \A i \in 1..(2 * h) : IsTrue(T, xs[i]) <=> i > 2 * h - p
  BY <1>1 DEF Sorted
<1>4. PICK a \in Int : p = 2 * a \/ p = 2 * a + 1
  <2>1. p = 2 * (p \div 2) \/ p = 2 * (p \div 2) + 1
    BY <1>3
  <2> QED BY <1>3, <2>1
<1>5. /\ p \div 2 = a /\ (p = 2 * a => (p + 1) \div 2 = a)
      /\ (p = 2 * a + 1 => (p + 1) \div 2 = a + 1)
  BY <1>4
<1>6. p \div 2 \in 0..h /\ (p + 1) \div 2 \in 0..h
  BY <1>1, <1>3, <1>4, <1>5
<1>7. \A i \in 1..h : IsTrue(T, Odds(xs)[i]) <=> i > h - (p \div 2)
  <2> TAKE i \in 1..h
  <2>1. 2 * i - 1 \in 1..(2 * h)
    BY <1>1
  <2>2. IsTrue(T, Odds(xs)[i]) <=> 2 * i - 1 > 2 * h - p
    BY <1>2, <1>3, <2>1
  <2>3. (2 * i - 1 > 2 * h - p) <=> (i > h - a)
    BY <1>1, <1>4
  <2> QED BY <1>5, <2>2, <2>3
<1>8. \A i \in 1..h : IsTrue(T, Evens(xs)[i]) <=> i > h - ((p + 1) \div 2)
  <2> TAKE i \in 1..h
  <2>1. 2 * i \in 1..(2 * h)
    BY <1>1
  <2>2. IsTrue(T, Evens(xs)[i]) <=> 2 * i > 2 * h - p
    BY <1>2, <1>3, <2>1
  <2>3. CASE p = 2 * a
    BY <1>1, <1>5, <2>2, <2>3
  <2>4. CASE p = 2 * a + 1
    BY <1>1, <1>5, <2>2, <2>4
  <2> QED BY <1>4, <2>3, <2>4
<1> QED BY <1>6, <1>7, <1>8 DEF Sorted, h

(* The comparison stage: if the even wires have up to two more true ones    *)
(* than the odd wires, it sorts.                                            *)
LEMMA ComparedSorts ==
    ASSUME NEW T, NEW at \in Places, NEW n \in Nat \ {0}, NEW odd \in Nets(n), NEW even \in Nets(n),
           NEW o, NEW e, Sorted(T, odd.out, n, o), Sorted(T, even.out, n, e),
           o <= e, e <= o + 2, Obeys(T, Stage(at, n, odd, even))
    PROVE  Sorted(T, Compared(at, n, odd, even).out, 2 * n, o + e)
<1> DEFINE out == Compared(at, n, odd, even).out
           p == o + e
<1>1. o \in 0..n /\ e \in 0..n /\ p \in 0..(2 * n)
  BY DEF Sorted
<1>2. \A i \in 1..n : (IsTrue(T, odd.out[i]) <=> i > n - o) /\ (IsTrue(T, even.out[i]) <=> i > n - e)
  BY DEF Sorted
<1>3. /\ out[1] = odd.out[1] /\ out[2 * n] = even.out[n]
      /\ \A i \in 1..(n - 1) : out[2 * i] = MinId(at, i) /\ out[2 * i + 1] = MaxId(at, i)
  <2>1. IsCompared(Compared(at, n, odd, even), at, n, odd, even)
    BY ComparedIs
  <2> QED BY <2>1, Zenon DEF IsCompared
<1> HIDE DEF out
<1>4. ASSUME NEW i \in 1..(n - 1)
      PROVE  /\ IsTrue(T, MinId(at, i)) <=> IsTrue(T, odd.out[i + 1]) /\ IsTrue(T, even.out[i])
             /\ IsTrue(T, MaxId(at, i)) <=> IsTrue(T, odd.out[i + 1]) \/ IsTrue(T, even.out[i])
  <2>1. Fulfils(T, Comparator(at, i, odd.out[i + 1], even.out[i]))
    <3>1. /\ DOMAIN Stage(at, n, odd, even) = 1..(n - 1)
          /\ Stage(at, n, odd, even)[i] = Comparator(at, i, odd.out[i + 1], even.out[i])
      BY Zenon DEF Stage
    <3> QED BY <3>1, Zenon DEF Obeys
  <2>2. i \in Nat
    OBVIOUS
  <2> QED BY <2>1, <2>2, ComparatorObeyed
<1>5. IsTrue(T, out[1]) <=> 1 > 2 * n - p
  <2>1. IsTrue(T, out[1]) <=> 1 > n - o
    BY <1>2, <1>3
  <2> QED BY <1>1, <2>1
<1>6. IsTrue(T, out[2 * n]) <=> 2 * n > 2 * n - p
  <2>1. IsTrue(T, out[2 * n]) <=> n > n - e
    BY <1>2, <1>3
  <2> QED BY <1>1, <2>1
<1>7. ASSUME NEW i \in 1..(n - 1)
      PROVE  /\ IsTrue(T, out[2 * i]) <=> 2 * i > 2 * n - p
             /\ IsTrue(T, out[2 * i + 1]) <=> 2 * i + 1 > 2 * n - p
  <2>1. i + 1 \in 1..n /\ i \in 1..n
    OBVIOUS
  <2>2. /\ IsTrue(T, out[2 * i]) <=> i + 1 > n - o /\ i > n - e
        /\ IsTrue(T, out[2 * i + 1]) <=> i + 1 > n - o \/ i > n - e
    BY <1>2, <1>3, <1>4, <2>1
  <2>3. e = o \/ e = o + 1 \/ e = o + 2
    BY <1>1
  <2> QED BY <1>1, <2>2, <2>3
<1>8. \A j \in 1..(2 * n) : j = 1 \/ j = 2 * n \/ \E i \in 1..(n - 1) : j = 2 * i \/ j = 2 * i + 1
  <2> TAKE j \in 1..(2 * n)
  <2>1. PICK i \in Int : j = 2 * i \/ j = 2 * i + 1
    <3>1. j = 2 * (j \div 2) \/ j = 2 * (j \div 2) + 1
      OBVIOUS
    <3> QED BY <3>1
  <2> QED BY <2>1
<1>9. \A j \in 1..(2 * n) : IsTrue(T, out[j]) <=> j > 2 * n - p
  <2> TAKE j \in 1..(2 * n)
  <2>1. CASE j = 1
    BY <1>5, <2>1
  <2>2. CASE j = 2 * n
    BY <1>6, <2>2
  <2>3. ASSUME NEW i \in 1..(n - 1), j = 2 * i \/ j = 2 * i + 1
        PROVE  IsTrue(T, out[j]) <=> j > 2 * n - p
    BY <1>7, <2>3
  <2> QED BY <1>8, <2>1, <2>2, <2>3
<1> QED BY <1>1, <1>9 DEF Sorted, out

(* A merge of two sorted lists. *)
LEMMA MergeSorts ==
    \A T : \A k \in Nat : \A m \in Merges(k) : \A p, q :
      Sorted(T, m.A, Power[k], p) /\ Sorted(T, m.B, Power[k], q) /\ Obeys(T, MergeOf(k, m).gates)
        => Sorted(T, MergeOf(k, m).out, 2 * Power[k], p + q)
<1> TAKE T
<1> DEFINE Fine(k) == \A m \in Merges(k) : \A p, q :
             Sorted(T, m.A, Power[k], p) /\ Sorted(T, m.B, Power[k], q) /\ Obeys(T, MergeOf(k, m).gates)
               => Sorted(T, MergeOf(k, m).out, 2 * Power[k], p + q)
           S == {k \in Nat : Fine(k)}
<1>1. Fine(0)
  <2> SUFFICES ASSUME NEW m \in Merges(0), NEW p, NEW q,
                      Sorted(T, m.A, Power[0], p), Sorted(T, m.B, Power[0], q),
                      Obeys(T, MergeOf(0, m).gates)
               PROVE  Sorted(T, MergeOf(0, m).out, 2 * Power[0], p + q)
    OBVIOUS
  <2> DEFINE lo == MinId(m.at, 1)
             hi == MaxId(m.at, 1)
  <2>1. Power[0] = 1
    BY PowerIs
  <2>2. p \in 0..1 /\ q \in 0..1 /\ (IsTrue(T, m.A[1]) <=> p = 1) /\ (IsTrue(T, m.B[1]) <=> q = 1)
    BY <2>1 DEF Sorted
  <2>3. /\ MergeOf(0, m).out = <<lo, hi>>
        /\ MergeOf(0, m).gates = <<Comparator(m.at, 1, m.A[1], m.B[1])>>
    <3>1. MergeOf(0, m) = FirstMerge(m)
      BY MergeDefined
    <3>2. \A x, y : [out |-> x, gates |-> y].out = x /\ [out |-> x, gates |-> y].gates = y
      OBVIOUS
    <3> QED BY <3>1, <3>2, Zenon DEF FirstMerge
  <2>4. Fulfils(T, Comparator(m.at, 1, m.A[1], m.B[1]))
    BY <2>3, ObeysOne
  <2>5. (IsTrue(T, lo) <=> p = 1 /\ q = 1) /\ (IsTrue(T, hi) <=> p = 1 \/ q = 1)
    <3>1. m.at \in Places
      BY DEF Merges
    <3> QED BY <2>2, <2>4, <3>1, ComparatorObeyed
  <2> HIDE DEF lo, hi
  <2>6. <<lo, hi>>[1] = lo /\ <<lo, hi>>[2] = hi
    OBVIOUS
  <2>7. \A i \in 1..2 : IsTrue(T, <<lo, hi>>[i]) <=> i > 2 - (p + q)
    <3>1. (IsTrue(T, lo) <=> 1 > 2 - (p + q)) /\ (IsTrue(T, hi) <=> 2 > 2 - (p + q))
      BY <2>2, <2>5
    <3>2. \A i \in 1..2 : i = 1 \/ i = 2
      OBVIOUS
    <3> QED BY <2>6, <3>1, <3>2
  <2>8. p + q \in 0..2 /\ 2 * Power[0] = 2
    BY <2>1, <2>2
  <2> QED BY <2>3, <2>7, <2>8, Zenon DEF Sorted
<1>2. ASSUME NEW j \in Nat, Fine(j) PROVE Fine(j + 1)
  <2> DEFINE k == j + 1
             n == Power[k]
  <2>0. k \in Nat \ {0} /\ k - 1 = j
    OBVIOUS
  <2> HIDE DEF k
  <2> SUFFICES ASSUME NEW m \in Merges(k), NEW p, NEW q,
                      Sorted(T, m.A, n, p), Sorted(T, m.B, n, q), Obeys(T, MergeOf(k, m).gates)
               PROVE  Sorted(T, MergeOf(k, m).out, 2 * n, p + q)
    BY DEF k
  <2> DEFINE odd == MergeOf(j, OddPart(m))
             even == MergeOf(j, EvenPart(m))
             op == p \div 2
             oq == q \div 2
             ep == (p + 1) \div 2
             eq == (q + 1) \div 2
  <2>1. m.at \in Places /\ m.A \in Blocks(k) /\ m.B \in Blocks(k)
    BY DEF Merges
  <2>2. n \in Nat \ {0} /\ n = 2 * Power[j]
    <3>1. Power[k - 1] \in Nat \ {0} /\ Power[k] = 2 * Power[k - 1]
      BY <2>0, <2>1, HalvesAre
    <3> QED BY <2>0, <3>1
  <2>3. /\ OddPart(m) \in Merges(j) /\ EvenPart(m) \in Merges(j)
        /\ OddPart(m).A = Odds(m.A) /\ OddPart(m).B = Odds(m.B)
        /\ EvenPart(m).A = Evens(m.A) /\ EvenPart(m).B = Evens(m.B)
    BY <2>0, PartsAre
  <2>4. odd \in Nets(n) /\ even \in Nets(n)
    <3>1. odd \in Nets(2 * Power[j]) /\ even \in Nets(2 * Power[j])
      BY <2>3, MergeDefined, Zenon
    <3> QED BY <2>2, <3>1
  <2>5. MergeOf(k, m) = Compared(m.at, n, odd, even)
    BY <2>0, MergeDefined
  <2>6. /\ Sorted(T, Odds(m.A), Power[j], op) /\ Sorted(T, Odds(m.B), Power[j], oq)
        /\ Sorted(T, Evens(m.A), Power[j], ep) /\ Sorted(T, Evens(m.B), Power[j], eq)
    BY <2>0, <2>1, OthersSorted
  <2>7. /\ op + oq <= ep + eq /\ ep + eq <= (op + oq) + 2
        /\ (op + oq) + (ep + eq) = p + q
    <3>1. p \in Nat /\ q \in Nat
      BY <2>2 DEF Sorted
    <3>2. \A i \in Nat : /\ i \div 2 \in Nat /\ (i + 1) \div 2 \in Nat
                         /\ (i + 1) \div 2 = i \div 2 \/ (i + 1) \div 2 = i \div 2 + 1
                         /\ i \div 2 + (i + 1) \div 2 = i
      OBVIOUS
    <3>3. op \in Nat /\ ep \in Nat /\ (ep = op \/ ep = op + 1) /\ op + ep = p
      BY <3>1, <3>2
    <3>4. oq \in Nat /\ eq \in Nat /\ (eq = oq \/ eq = oq + 1) /\ oq + eq = q
      BY <3>1, <3>2
    <3> HIDE DEF op, oq, ep, eq
    <3> QED BY <3>3, <3>4
  <2> HIDE DEF odd, even, op, oq, ep, eq, n
  <2>8. /\ odd.gates \in Seq(GateSet) /\ even.gates \in Seq(GateSet)
        /\ Stage(m.at, n, odd, even) \in Seq(GateSet)
        /\ Compared(m.at, n, odd, even).gates = (odd.gates \o even.gates) \o Stage(m.at, n, odd, even)
    <3>1. odd.gates \in Seq(GateSet) /\ even.gates \in Seq(GateSet)
      BY <2>4, Zenon DEF Nets
    <3>2. IsCompared(Compared(m.at, n, odd, even), m.at, n, odd, even)
      BY <2>1, <2>2, <2>4, ComparedIs
    <3> QED BY <3>1, <3>2, Zenon DEF IsCompared
  <2>9. Obeys(T, odd.gates) /\ Obeys(T, even.gates) /\ Obeys(T, Stage(m.at, n, odd, even))
    <3>1. odd.gates \o even.gates \in Seq(GateSet)
      BY <2>8, ConcatIs
    <3>2. Obeys(T, (odd.gates \o even.gates) \o Stage(m.at, n, odd, even))
      BY <2>5, <2>8
    <3> HIDE DEF GateSet
    <3>3. Obeys(T, odd.gates \o even.gates) /\ Obeys(T, Stage(m.at, n, odd, even))
      BY <2>8, <3>1, <3>2, ObeysConcat
    <3> QED BY <2>8, <3>3, ObeysConcat
  <2>10. Sorted(T, odd.out, n, op + oq) /\ Sorted(T, even.out, n, ep + eq)
    <3>1. Sorted(T, odd.out, 2 * Power[j], op + oq)
      <4> HIDE DEF Sorted
      <4> QED BY <1>2, <2>3, <2>6, <2>9, Zenon DEF odd
    <3>2. Sorted(T, even.out, 2 * Power[j], ep + eq)
      <4> HIDE DEF Sorted
      <4> QED BY <1>2, <2>3, <2>6, <2>9, Zenon DEF even
    <3> QED BY <2>2, <3>1, <3>2, Zenon
  <2>11. Sorted(T, Compared(m.at, n, odd, even).out, 2 * n, (op + oq) + (ep + eq))
    BY <2>1, <2>2, <2>4, <2>7, <2>9, <2>10, ComparedSorts
  <2> QED BY <2>5, <2>7, <2>11, Zenon
<1>3. \A k \in Nat : k \in S
  <2>1. 0 \in S
    BY <1>1
  <2> HIDE DEF Fine
  <2>2. \A k \in Nat : k \in S => k + 1 \in S
    BY <1>2
  <2> HIDE DEF S
  <2> QED BY <2>1, <2>2, AllNat
<1> HIDE DEF Fine
<1>4. \A k \in Nat : Fine(k)
  BY <1>3
<1> QED BY <1>4, Zenon DEF Fine

-----------------------------------------------------------------------------
(* How many of n wires are true. *)
Ones(T, xs) == {i \in Nat : IsTrue(T, xs[i])}
Trues(T, xs, n) == Cardinality(Ones(T, xs) \cap 1..n)

LEMMA TruesNext ==
    ASSUME NEW T, NEW xs, NEW n \in Nat
    PROVE  /\ Trues(T, xs, n) \in Nat /\ Trues(T, xs, 0) = 0
           /\ Trues(T, xs, n + 1) = Trues(T, xs, n) + (IF IsTrue(T, xs[n + 1]) THEN 1 ELSE 0)
<1>1. n + 1 \in Nat /\ n + 1 # 0 /\ (n + 1) - 1 = n
  OBVIOUS
<1>2. n + 1 \in Ones(T, xs) <=> IsTrue(T, xs[n + 1])
  BY <1>1 DEF Ones
<1>3. /\ Cardinality(Ones(T, xs) \cap 1..(n + 1)) \in Nat
      /\ Cardinality(Ones(T, xs) \cap 1..(n + 1))
           = Cardinality(Ones(T, xs) \cap 1..((n + 1) - 1)) + (IF n + 1 \in Ones(T, xs) THEN 1 ELSE 0)
  BY <1>1, CountNext
<1>4. Cardinality(Ones(T, xs) \cap 1..n) \in Nat
  <2>1. IsFiniteSet(1..n)
    BY FS_Interval
  <2>2. IsFiniteSet(Ones(T, xs) \cap 1..n)
    BY <2>1, FS_Subset
  <2> QED BY <2>2, FS_CardinalityType
<1>5. Ones(T, xs) \cap 1..0 = {}
  OBVIOUS
<1>6. Cardinality(Ones(T, xs) \cap 1..0) = 0
  BY <1>5, FS_EmptySet
<1> QED BY <1>1, <1>2, <1>3, <1>4, <1>6 DEF Trues

LEMMA TruesSame ==
    ASSUME NEW T, NEW xs, NEW ys, NEW n \in Nat, \A i \in 1..n : IsTrue(T, xs[i]) <=> IsTrue(T, ys[i])
    PROVE  Trues(T, xs, n) = Trues(T, ys, n)
<1>1. Ones(T, xs) \cap 1..n = Ones(T, ys) \cap 1..n
  BY DEF Ones
<1> QED BY <1>1 DEF Trues

(* A list and what follows it. *)
LEMMA TruesJoin ==
    ASSUME NEW T, NEW xs, NEW ys, NEW m \in Nat, NEW n \in Nat,
           \A i \in 1..n : IsTrue(T, ys[i]) <=> IsTrue(T, xs[m + i])
    PROVE  Trues(T, xs, m + n) = Trues(T, xs, m) + Trues(T, ys, n)
<1> DEFINE S == {i \in 0..n : Trues(T, xs, m + i) = Trues(T, xs, m) + Trues(T, ys, i)}
<1>1. 0 \in S
  <2>1. Trues(T, ys, 0) = 0 /\ Trues(T, xs, m) \in Nat
    BY TruesNext
  <2> QED BY <2>1
<1>2. ASSUME NEW i \in 1..n, i - 1 \in S PROVE i \in S
  <2>1. i - 1 \in Nat /\ (i - 1) + 1 = i /\ m + (i - 1) \in Nat /\ (m + (i - 1)) + 1 = m + i
    OBVIOUS
  <2>2. /\ Trues(T, ys, i - 1) \in Nat
        /\ Trues(T, ys, i) = Trues(T, ys, i - 1) + (IF IsTrue(T, ys[i]) THEN 1 ELSE 0)
    <3>1. /\ Trues(T, ys, i - 1) \in Nat
          /\ Trues(T, ys, (i - 1) + 1) = Trues(T, ys, i - 1) + (IF IsTrue(T, ys[(i - 1) + 1]) THEN 1 ELSE 0)
      BY <2>1, TruesNext
    <3> QED BY <2>1, <3>1
  <2>3. Trues(T, xs, m + i) = Trues(T, xs, m + (i - 1)) + (IF IsTrue(T, xs[m + i]) THEN 1 ELSE 0)
    <3> DEFINE j == m + (i - 1)
    <3>1. j \in Nat /\ j + 1 = m + i
      BY <2>1
    <3> HIDE DEF j
    <3>2. Trues(T, xs, j + 1) = Trues(T, xs, j) + (IF IsTrue(T, xs[j + 1]) THEN 1 ELSE 0)
      BY <3>1, TruesNext
    <3>3. Trues(T, xs, m + i) = Trues(T, xs, j) + (IF IsTrue(T, xs[m + i]) THEN 1 ELSE 0)
      BY <3>1, <3>2
    <3> QED BY <3>3 DEF j
  <2>4. Trues(T, xs, m + (i - 1)) = Trues(T, xs, m) + Trues(T, ys, i - 1)
    BY <1>2
  <2>5. IsTrue(T, ys[i]) <=> IsTrue(T, xs[m + i])
    OBVIOUS
  <2>6. Trues(T, xs, m) \in Nat
    BY TruesNext
  <2>7. Trues(T, xs, m + i) = Trues(T, xs, m) + Trues(T, ys, i)
    BY <2>2, <2>3, <2>4, <2>5, <2>6
  <2>8. i \in 0..n
    OBVIOUS
  <2> QED BY <2>7, <2>8
<1>3. n \in S
  <2>1. n \in 0..n
    OBVIOUS
  <2> HIDE DEF S
  <2> QED BY <1>1, <1>2, <2>1, UpTo
<1> QED BY <1>3

LEMMA TruesHalves ==
    ASSUME NEW T, NEW k \in Nat \ {0}, NEW xs \in Blocks(k)
    PROVE  Trues(T, xs, Power[k]) = Trues(T, Lower(xs), Power[k - 1]) + Trues(T, Upper(xs), Power[k - 1])
<1> DEFINE h == Power[k - 1]
<1>1. h \in Nat \ {0} /\ Power[k] = h + h
  <2>1. Power[k - 1] \in Nat \ {0} /\ Power[k] = 2 * Power[k - 1]
    BY HalvesAre
  <2> QED BY <2>1
<1>2. \A i \in 1..h : Lower(xs)[i] = xs[i] /\ Upper(xs)[i] = xs[h + i]
  BY HalvesAre
<1> HIDE DEF h
<1>3. Trues(T, xs, h) = Trues(T, Lower(xs), h)
  BY <1>1, <1>2, TruesSame
<1>4. Trues(T, xs, h + h) = Trues(T, xs, h) + Trues(T, Upper(xs), h)
  BY <1>1, <1>2, TruesJoin
<1>5. Trues(T, xs, Power[k]) = Trues(T, Lower(xs), h) + Trues(T, Upper(xs), h)
  BY <1>1, <1>3, <1>4
<1> QED BY <1>5 DEF h

(* A sorter sorts. *)
LEMMA SortSorts ==
    \A T : \A k \in Nat : \A s \in Sorts(k) :
      Obeys(T, SortOf(k, s).gates) => Sorted(T, SortOf(k, s).out, Power[k], Trues(T, s.xs, Power[k]))
<1> TAKE T
<1> DEFINE Fine(k) == \A s \in Sorts(k) :
             Obeys(T, SortOf(k, s).gates) => Sorted(T, SortOf(k, s).out, Power[k], Trues(T, s.xs, Power[k]))
           S == {k \in Nat : Fine(k)}
<1>1. Fine(0)
  <2> SUFFICES ASSUME NEW s \in Sorts(0) PROVE Sorted(T, SortOf(0, s).out, Power[0], Trues(T, s.xs, Power[0]))
    OBVIOUS
  <2>1. Power[0] = 1
    BY PowerIs
  <2>2. SortOf(0, s).out = s.xs
    <3>1. SortOf(0, s) = FirstSort(s)
      BY SortDefined
    <3>2. \A x, y : [out |-> x, gates |-> y].out = x
      OBVIOUS
    <3> QED BY <3>1, <3>2, Zenon DEF FirstSort
  <2>3. Trues(T, s.xs, 1) = IF IsTrue(T, s.xs[1]) THEN 1 ELSE 0
    <3>1. 0 \in Nat /\ 0 + 1 = 1
      OBVIOUS
    <3>2. /\ Trues(T, s.xs, 0) = 0
          /\ Trues(T, s.xs, 0 + 1) = Trues(T, s.xs, 0) + (IF IsTrue(T, s.xs[0 + 1]) THEN 1 ELSE 0)
      BY <3>1, TruesNext
    <3> QED BY <3>1, <3>2
  <2>4. Sorted(T, s.xs, 1, Trues(T, s.xs, 1))
    BY <2>3 DEF Sorted
  <2> QED BY <2>1, <2>2, <2>4
<1>2. ASSUME NEW j \in Nat, Fine(j) PROVE Fine(j + 1)
  <2> DEFINE k == j + 1
             n == Power[k]
             h == Power[j]
  <2>0. k \in Nat \ {0} /\ k - 1 = j
    OBVIOUS
  <2> HIDE DEF k
  <2> SUFFICES ASSUME NEW s \in Sorts(k), Obeys(T, SortOf(k, s).gates)
               PROVE  Sorted(T, SortOf(k, s).out, n, Trues(T, s.xs, n))
    BY DEF k
  <2> DEFINE A == SortOf(j, LowerOf(s))
             B == SortOf(j, UpperOf(s))
             m == LastPart(s.at, A, B)
             p == Trues(T, Lower(s.xs), h)
             q == Trues(T, Upper(s.xs), h)
  <2>1. s.at \in Places /\ s.xs \in Blocks(k)
    BY DEF Sorts
  <2>2. n = 2 * h
    <3>1. Power[k] = 2 * Power[k - 1]
      BY <2>0, <2>1, HalvesAre
    <3> QED BY <2>0, <3>1
  <2>3. /\ LowerOf(s) \in Sorts(j) /\ UpperOf(s) \in Sorts(j)
        /\ LowerOf(s).xs = Lower(s.xs) /\ UpperOf(s).xs = Upper(s.xs)
    BY <2>0, SortPartsAre
  <2>4. A \in Nets(h) /\ B \in Nets(h)
    BY <2>3, SortDefined, Zenon
  <2>5. SortOf(k, s) = Merged(j, s.at, A, B)
    BY <2>0, SortDefined
  <2>6. m.A = A.out /\ m.B = B.out
    BY LastIs, Zenon
  <2>7. IsMerged(Merged(j, s.at, A, B), j, s.at, A, B)
    <3> HIDE DEF A, B
    <3> QED BY <2>1, <2>4, MergedIs
  <2>8. /\ m \in Merges(j) /\ SortOf(k, s).out = MergeOf(j, m).out
        /\ SortOf(k, s).gates = (A.gates \o B.gates) \o MergeOf(j, m).gates
        /\ A.gates \in Seq(GateSet) /\ B.gates \in Seq(GateSet) /\ MergeOf(j, m).gates \in Seq(GateSet)
    BY <2>5, <2>7, Zenon DEF IsMerged
  <2> HIDE DEF A, B, m, p, q
  <2>9. Obeys(T, A.gates) /\ Obeys(T, B.gates) /\ Obeys(T, MergeOf(j, m).gates)
    <3>1. A.gates \o B.gates \in Seq(GateSet)
      BY <2>8, ConcatIs
    <3> HIDE DEF GateSet
    <3>2. Obeys(T, A.gates \o B.gates) /\ Obeys(T, MergeOf(j, m).gates)
      BY <2>8, <3>1, ObeysConcat
    <3> QED BY <2>8, <3>2, ObeysConcat
  <2>10. Sorted(T, A.out, h, p) /\ Sorted(T, B.out, h, q)
    <3> HIDE DEF Sorted
    <3>1. Sorted(T, SortOf(j, LowerOf(s)).out, Power[j], Trues(T, LowerOf(s).xs, Power[j]))
      BY <1>2, <2>3, <2>9 DEF A
    <3>2. Sorted(T, SortOf(j, UpperOf(s)).out, Power[j], Trues(T, UpperOf(s).xs, Power[j]))
      BY <1>2, <2>3, <2>9 DEF B
    <3> QED BY <2>3, <3>1, <3>2 DEF A, B, p, q
  <2>11. Sorted(T, MergeOf(j, m).out, 2 * Power[j], p + q)
    BY <2>6, <2>8, <2>9, <2>10, MergeSorts, Zenon
  <2>12. Trues(T, s.xs, n) = p + q
    <3>1. Trues(T, s.xs, Power[k]) = Trues(T, Lower(s.xs), Power[k - 1]) + Trues(T, Upper(s.xs), Power[k - 1])
      BY <2>0, <2>1, TruesHalves
    <3> QED BY <2>0, <3>1 DEF p, q
  <2> QED BY <2>2, <2>8, <2>11, <2>12, Zenon
<1>3. \A k \in Nat : k \in S
  <2>1. 0 \in S
    BY <1>1
  <2> HIDE DEF Fine
  <2>2. \A k \in Nat : k \in S => k + 1 \in S
    BY <1>2
  <2> HIDE DEF S
  <2> QED BY <2>1, <2>2, AllNat
<1> HIDE DEF Fine
<1>4. \A k \in Nat : Fine(k)
  BY <1>3
<1> QED BY <1>4, Zenon DEF Fine

-----------------------------------------------------------------------------
(***************************************************************************)
(* The variables of a sorter.  Own(at): those made at a place or below it, *)
(* Here(at): those made at the place itself.                               *)
(***************************************************************************)
Under(at) == {p \in Seq(Moves) : /\ Len(p) >= Len(at.path)
                                 /\ \A i \in 1..Len(at.path) : p[i] = at.path[i]}
Named(call, paths) == {<<"min", call, p, i>> : p \in paths, i \in Nat}
                        \cup {<<"max", call, p, i>> : p \in paths, i \in Nat}
Here(at) == Named(at.call, {at.path})
Own(at)  == Named(at.call, Under(at))

LEMMA NamedIs ==
    ASSUME NEW call, NEW P, NEW Q
    PROVE  /\ P \subseteq Q => Named(call, P) \subseteq Named(call, Q)
           /\ P \cap Q = {} => Named(call, P) \cap Named(call, Q) = {}
<1>1. \A v : v \in Named(call, P) => \E p \in P, i \in Nat : v \in {<<"min", call, p, i>>, <<"max", call, p, i>>}
  BY DEF Named
<1>2. \A v : v \in Named(call, Q) => \E p \in Q, i \in Nat : v \in {<<"min", call, p, i>>, <<"max", call, p, i>>}
  BY DEF Named
<1>3. \A p \in Q, i \in Nat : {<<"min", call, p, i>>, <<"max", call, p, i>>} \subseteq Named(call, Q)
  BY DEF Named
<1>4. \A p, q, i, j : {<<"min", call, p, i>>, <<"max", call, p, i>>}
                        \cap {<<"min", call, q, j>>, <<"max", call, q, j>>} # {} => p = q
  OBVIOUS
<1>5. ASSUME P \subseteq Q, NEW v \in Named(call, P) PROVE v \in Named(call, Q)
  <2>1. PICK p \in P, i \in Nat : v \in {<<"min", call, p, i>>, <<"max", call, p, i>>}
    BY <1>1
  <2>2. p \in Q
    BY <1>5
  <2>3. {<<"min", call, p, i>>, <<"max", call, p, i>>} \subseteq Named(call, Q)
    BY <1>3, <2>2
  <2> QED BY <2>1, <2>3
<1>6. ASSUME P \cap Q = {}, NEW v \in Named(call, P), v \in Named(call, Q) PROVE FALSE
  <2>1. PICK p \in P, i \in Nat : v \in {<<"min", call, p, i>>, <<"max", call, p, i>>}
    BY <1>1, <1>6
  <2>2. PICK q \in Q, j \in Nat : v \in {<<"min", call, q, j>>, <<"max", call, q, j>>}
    BY <1>2, <1>6
  <2>3. p = q
    BY <1>4, <2>1, <2>2
  <2> QED BY <1>6, <2>3
<1> QED BY <1>5, <1>6

LEMMA UnderIs ==
    ASSUME NEW at \in Places
    PROVE  /\ at.path \in Under(at)
           /\ \A a \in Moves : Under(Down(at, a)) \subseteq Under(at) /\ at.path \notin Under(Down(at, a))
           /\ \A a, b \in Moves : a # b => Under(Down(at, a)) \cap Under(Down(at, b)) = {}
<1> DEFINE n == Len(at.path)
<1>1. at.path \in Seq(Moves) /\ n \in Nat
  BY DEF Places
<1> HIDE DEF n
<1>2. at.path \in Under(at)
  BY <1>1 DEF Under, n
<1>3. ASSUME NEW a \in Moves, NEW p \in Under(Down(at, a))
      PROVE  p \in Under(at) /\ Len(p) >= n + 1 /\ p[n + 1] = a
  <2>1. /\ Down(at, a).path = Append(at.path, a) /\ Len(Append(at.path, a)) = n + 1
        /\ Append(at.path, a)[n + 1] = a /\ \A i \in 1..n : Append(at.path, a)[i] = at.path[i]
    <3>1. Down(at, a).path = Append(at.path, a)
      BY PlacesDown
    <3> QED BY <1>1, <3>1 DEF n
  <2>2. p \in Seq(Moves) /\ Len(p) >= n + 1 /\ \A i \in 1..(n + 1) : p[i] = Append(at.path, a)[i]
    BY <2>1 DEF Under
  <2>3. Len(p) \in Nat
    BY <2>2
  <2>4. Len(p) >= n /\ \A i \in 1..n : p[i] = at.path[i]
    BY <1>1, <2>1, <2>2, <2>3
  <2>5. p[n + 1] = a
    BY <1>1, <2>1, <2>2
  <2> QED BY <2>2, <2>4, <2>5 DEF Under, n
<1>4. ASSUME NEW a \in Moves PROVE at.path \notin Under(Down(at, a))
  BY <1>1, <1>3 DEF n
<1>5. ASSUME NEW a \in Moves, NEW b \in Moves, a # b PROVE Under(Down(at, a)) \cap Under(Down(at, b)) = {}
  BY <1>3, <1>5
<1> QED BY <1>2, <1>3, <1>4, <1>5

LEMMA OwnIs ==
    ASSUME NEW at \in Places
    PROVE  /\ Here(at) \subseteq Own(at)
           /\ \A a \in Moves : Own(Down(at, a)) \subseteq Own(at) /\ Own(Down(at, a)) \cap Here(at) = {}
           /\ \A a, b \in Moves : a # b => Own(Down(at, a)) \cap Own(Down(at, b)) = {}
<1>1. Here(at) \subseteq Own(at)
  <2>1. {at.path} \subseteq Under(at)
    BY UnderIs
  <2> QED BY <2>1, NamedIs DEF Here, Own
<1>2. ASSUME NEW a \in Moves PROVE Own(Down(at, a)) \subseteq Own(at) /\ Own(Down(at, a)) \cap Here(at) = {}
  <2>1. Down(at, a).call = at.call
    BY PlacesDown
  <2>2. Under(Down(at, a)) \subseteq Under(at) /\ Under(Down(at, a)) \cap {at.path} = {}
    BY UnderIs
  <2> QED BY <2>1, <2>2, NamedIs DEF Here, Own
<1>3. ASSUME NEW a \in Moves, NEW b \in Moves, a # b PROVE Own(Down(at, a)) \cap Own(Down(at, b)) = {}
  <2>1. Down(at, a).call = at.call /\ Down(at, b).call = at.call
    BY PlacesDown
  <2>2. Under(Down(at, a)) \cap Under(Down(at, b)) = {}
    BY <1>3, UnderIs
  <2> QED BY <2>1, <2>2, NamedIs DEF Own
<1> QED BY <1>1, <1>2, <1>3

LEMMA IdsAre ==
    ASSUME NEW at
    PROVE  /\ \A i \in Nat : MinId(at, i)[2] \in Here(at) /\ MaxId(at, i)[2] \in Here(at)
           /\ \A i : MinId(at, i) = Pos(MinId(at, i)[2]) /\ MaxId(at, i) = Pos(MaxId(at, i)[2])
           /\ \A i, j : MinId(at, i)[2] # MaxId(at, j)[2]
           /\ \A i, j : i # j => MinId(at, i)[2] # MinId(at, j)[2] /\ MaxId(at, i)[2] # MaxId(at, j)[2]
<1>1. \A i : /\ MinId(at, i)[2] = <<"min", at.call, at.path, i>>
             /\ MaxId(at, i)[2] = <<"max", at.call, at.path, i>>
  BY DEF MinId, MaxId, Pos
<1>2. \A i \in Nat : /\ <<"min", at.call, at.path, i>> \in Here(at)
                     /\ <<"max", at.call, at.path, i>> \in Here(at)
  BY DEF Here, Named
<1>3. \A i, j : <<"min", at.call, at.path, i>> # <<"max", at.call, at.path, j>>
  OBVIOUS
<1>4. \A i, j : i # j => /\ <<"min", at.call, at.path, i>> # <<"min", at.call, at.path, j>>
                         /\ <<"max", at.call, at.path, i>> # <<"max", at.call, at.path, j>>
  OBVIOUS
<1>5. \A i : MinId(at, i) = Pos(MinId(at, i)[2]) /\ MaxId(at, i) = Pos(MaxId(at, i)[2])
  BY <1>1 DEF MinId, MaxId
<1>6. \A i \in Nat : MinId(at, i)[2] \in Here(at) /\ MaxId(at, i)[2] \in Here(at)
  BY <1>1, <1>2, Zenon
<1>7. \A i, j : MinId(at, i)[2] # MaxId(at, j)[2]
  BY <1>1, <1>3, Zenon
<1>8. \A i, j : i # j => MinId(at, i)[2] # MinId(at, j)[2] /\ MaxId(at, i)[2] # MaxId(at, j)[2]
  <2> SUFFICES ASSUME NEW i, NEW j, i # j
               PROVE  MinId(at, i)[2] # MinId(at, j)[2] /\ MaxId(at, i)[2] # MaxId(at, j)[2]
    BY Zenon
  <2>1. /\ <<"min", at.call, at.path, i>> # <<"min", at.call, at.path, j>>
        /\ <<"max", at.call, at.path, i>> # <<"max", at.call, at.path, j>>
    BY <1>4
  <2> QED BY <1>1, <2>1, Zenon
<1> QED BY <1>5, <1>6, <1>7, <1>8, Zenon

(***************************************************************************)
(* A circuit: each gate is a comparator and adds two variables of V, which *)
(* the gates before it and its inputs do not have.                         *)
(***************************************************************************)
GateVars(g) == {l[2] : l \in UNION g}
In(gates, W) == \A i \in DOMAIN gates : GateVars(gates[i]) \subseteq W
Adds(gates, i, a, b) ==
    /\ a # b
    /\ \E x, y \in Wires : /\ gates[i] = gen_comparator(Pos(a), Pos(b), x, y)
                           /\ {x[2], y[2]} \cap {a, b} = {}
    /\ \A j \in 1..(i - 1) : {a, b} \cap GateVars(gates[j]) = {}
Circuit(gates, V) == \A i \in DOMAIN gates : \E a \in V, b \in V : Adds(gates, i, a, b)
On(xs, n, W) == \A i \in 1..n : xs[i][2] \in W

LEMMA ComparatorVars ==
    \A a, b, x, y :
      /\ GateVars(gen_comparator(Pos(a), Pos(b), x, y)) \subseteq {a, b, x[2], y[2]}
      /\ \A c \in gen_comparator(Pos(a), Pos(b), x, y) :
           (\E l \in c : l[2] \in {a, b}) /\ (\E l \in c : l[2] \in {x[2], y[2]})
<1> SUFFICES ASSUME NEW a, NEW b, NEW x, NEW y
             PROVE  \A c \in gen_comparator(Pos(a), Pos(b), x, y) :
                      /\ \A l \in c : l[2] \in {a, b, x[2], y[2]}
                      /\ (\E l \in c : l[2] \in {a, b}) /\ (\E l \in c : l[2] \in {x[2], y[2]})
  BY DEF GateVars
<1>1. Pos(a)[2] = a /\ Pos(b)[2] = b /\ \A l : Neg(l)[2] = l[2]
  BY DEF Pos, Neg
<1>2. gen_comparator(Pos(a), Pos(b), x, y) =
        {{x, Neg(Pos(a))}, {y, Neg(Pos(a))}, {Neg(x), Neg(y), Pos(a)}}
          \cup {{Neg(x), Pos(b)}, {Neg(y), Pos(b)}, {x, y, Neg(Pos(b))}}
  BY DEF gen_comparator, gen_and, gen_or
<1> QED BY <1>1, <1>2

LEMMA InUp ==
    ASSUME NEW gates, NEW V1, NEW V2, NEW W1, NEW W2, V1 \subseteq V2, W1 \subseteq W2
    PROVE  /\ Circuit(gates, V1) => Circuit(gates, V2)
           /\ In(gates, W1) => In(gates, W2)
<1>1. Circuit(gates, V1) => Circuit(gates, V2)
  BY DEF Circuit
<1>2. In(gates, W1) => In(gates, W2)
  BY DEF In
<1> QED BY <1>1, <1>2

LEMMA CircuitConcat ==
    ASSUME NEW A, NEW s \in Seq(A), NEW t \in Seq(A), NEW V1, NEW V2, NEW W1, NEW W2,
           Circuit(s, V1), In(s, W1), Circuit(t, V2), In(t, W2), V2 \cap W1 = {}
    PROVE  Circuit(s \o t, V1 \cup V2) /\ In(s \o t, W1 \cup W2)
<1> DEFINE g == s \o t
           m == Len(s)
           n == Len(t)
<1>1. /\ m \in Nat /\ n \in Nat /\ DOMAIN s = 1..m /\ DOMAIN t = 1..n /\ DOMAIN g = 1..(m + n)
      /\ \A i \in 1..m : g[i] = s[i]
      /\ \A i \in 1..n : g[m + i] = t[i]
  BY ConcatProperties
<1> HIDE DEF g, m, n
<1>2. \A i \in 1..(m + n) : i \in 1..m \/ (i - m \in 1..n /\ i = m + (i - m))
  BY <1>1
<1>3. ASSUME NEW i \in 1..(m + n) PROVE GateVars(g[i]) \subseteq W1 \cup W2
  <2>1. CASE i \in 1..m
    BY <1>1, <2>1 DEF In
  <2>2. CASE i \notin 1..m
    <3>1. i - m \in 1..n /\ g[i] = t[i - m]
      BY <1>1, <1>2, <2>2
    <3> QED BY <1>1, <3>1 DEF In
  <2> QED BY <2>1, <2>2
<1>4. ASSUME NEW i \in 1..(m + n) PROVE \E a, b \in V1 \cup V2 : Adds(g, i, a, b)
  <2>1. CASE i \in 1..m
    <3>1. PICK a \in V1, b \in V1 : Adds(s, i, a, b)
      BY <1>1, <2>1 DEF Circuit
    <3>2. g[i] = s[i] /\ \A j \in 1..(i - 1) : g[j] = s[j]
      BY <1>1, <2>1
    <3>3. Adds(g, i, a, b)
      BY <3>1, <3>2 DEF Adds
    <3> QED BY <3>3
  <2>2. CASE i \notin 1..m
    <3> DEFINE k == i - m
    <3>1. k \in 1..n /\ i = m + k
      BY <1>2, <2>2
    <3> HIDE DEF k
    <3>2. PICK a \in V2, b \in V2 : Adds(t, k, a, b)
      BY <1>1, <3>1 DEF Circuit
    <3>3. \A j \in 1..(i - 1) : {a, b} \cap GateVars(g[j]) = {}
      <4> TAKE j \in 1..(i - 1)
      <4>1. CASE j \in 1..m
        <5>1. GateVars(g[j]) \subseteq W1
          BY <1>1, <4>1 DEF In
        <5> QED BY <5>1
      <4>2. CASE j \notin 1..m
        <5>1. j - m \in 1..(k - 1) /\ j - m \in 1..n /\ j = m + (j - m)
          BY <1>1, <3>1, <4>2
        <5>2. g[j] = t[j - m]
          BY <1>1, <5>1
        <5> QED BY <3>2, <5>1, <5>2 DEF Adds
      <4> QED BY <4>1, <4>2
    <3>4. g[i] = t[k]
      BY <1>1, <3>1
    <3>5. Adds(g, i, a, b)
      BY <3>2, <3>3, <3>4 DEF Adds
    <3> QED BY <3>5
  <2> QED BY <2>1, <2>2
<1>5. Circuit(g, V1 \cup V2)
  BY <1>1, <1>4 DEF Circuit
<1>6. In(g, W1 \cup W2)
  BY <1>1, <1>3 DEF In
<1> QED BY <1>5, <1>6 DEF g

LEMMA StageCircuit ==
    ASSUME NEW at \in Places, NEW n \in Nat \ {0}, NEW odd \in Nets(n), NEW even \in Nets(n), NEW W,
           On(odd.out, n, W), On(even.out, n, W), W \cap Here(at) = {}
    PROVE  /\ Circuit(Stage(at, n, odd, even), Here(at))
           /\ In(Stage(at, n, odd, even), W \cup Here(at))
<1> DEFINE g == Stage(at, n, odd, even)
           a(i) == MinId(at, i)[2]
           b(i) == MaxId(at, i)[2]
           x(i) == odd.out[i + 1]
           y(i) == even.out[i]
<1>1. DOMAIN g = 1..(n - 1) /\ \A i \in 1..(n - 1) : g[i] = Comparator(at, i, x(i), y(i))
  BY Zenon DEF Stage
<1>2. \A i \in 1..(n - 1) : i \in Nat /\ i \in 1..n /\ i + 1 \in 1..n
  OBVIOUS
<1>3. \A i \in 1..(n - 1) : x(i) \in Wires /\ y(i) \in Wires /\ x(i)[2] \in W /\ y(i)[2] \in W
  <2>1. odd.out \in [1..n -> Wires] /\ even.out \in [1..n -> Wires]
    BY Zenon DEF Nets
  <2> QED BY <1>2, <2>1, Zenon DEF On
<1>4. /\ \A i \in Nat : a(i) \in Here(at) /\ b(i) \in Here(at)
      /\ \A i : MinId(at, i) = Pos(a(i)) /\ MaxId(at, i) = Pos(b(i))
      /\ \A i, j : a(i) # b(j)
      /\ \A i, j : i # j => a(i) # a(j) /\ b(i) # b(j)
  BY IdsAre, Zenon
<1> HIDE DEF a, b, x, y, g
<1>5. \A i \in 1..(n - 1) : g[i] = gen_comparator(Pos(a(i)), Pos(b(i)), x(i), y(i))
  BY <1>1, <1>4, Zenon DEF Comparator
<1>6. \A i \in 1..(n - 1) : GateVars(g[i]) \subseteq {a(i), b(i), x(i)[2], y(i)[2]}
  BY <1>5, ComparatorVars, Zenon
<1>7. ASSUME NEW i \in 1..(n - 1) PROVE Adds(g, i, a(i), b(i))
  <2>1. {x(i)[2], y(i)[2]} \cap {a(i), b(i)} = {}
    BY <1>2, <1>3, <1>4
  <2>2. \A j \in 1..(i - 1) : {a(i), b(i)} \cap GateVars(g[j]) = {}
    <3> TAKE j \in 1..(i - 1)
    <3>1. j \in 1..(n - 1) /\ j # i
      OBVIOUS
    <3>2. {a(i), b(i)} \cap {a(j), b(j), x(j)[2], y(j)[2]} = {}
      BY <1>2, <1>3, <1>4, <3>1
    <3> QED BY <1>6, <3>1, <3>2
  <2>3. a(i) # b(i)
    BY <1>4
  <2>4. \E v, w \in Wires : g[i] = gen_comparator(Pos(a(i)), Pos(b(i)), v, w) /\ {v[2], w[2]} \cap {a(i), b(i)} = {}
    BY <1>3, <1>5, <2>1
  <2> QED BY <2>2, <2>3, <2>4 DEF Adds
<1>8. Circuit(g, Here(at))
  BY <1>1, <1>2, <1>4, <1>7 DEF Circuit
<1>9. In(g, W \cup Here(at))
  <2>1. \A i \in 1..(n - 1) : {a(i), b(i), x(i)[2], y(i)[2]} \subseteq W \cup Here(at)
    BY <1>2, <1>3, <1>4
  <2> QED BY <1>1, <1>6, <2>1 DEF In
<1> QED BY <1>8, <1>9 DEF g

-----------------------------------------------------------------------------
AllDiffer(xs, n) == \A i, j \in 1..n : i # j => xs[i][2] # xs[j][2]

(* The wires that a comparison stage puts out are all different. *)
LEMMA StageOut ==
    ASSUME NEW at, NEW n \in Nat \ {0}, NEW out, NEW O, NEW E,
           out[1][2] \in O, out[2 * n][2] \in E,
           \A i \in 1..(n - 1) : out[2 * i] = MinId(at, i) /\ out[2 * i + 1] = MaxId(at, i),
           O \cap E = {}, O \cap Here(at) = {}, E \cap Here(at) = {}
    PROVE  /\ \A i \in 1..(2 * n) : out[i][2] \in (O \cup E) \cup Here(at)
           /\ AllDiffer(out, 2 * n)
<1> DEFINE v(j) == out[j][2]
           a(i) == MinId(at, i)[2]
           b(i) == MaxId(at, i)[2]
<1>1. \A j \in 1..(2 * n) : j = 1 \/ j = 2 * n \/ \E i \in 1..(n - 1) : j = 2 * i \/ j = 2 * i + 1
  <2> TAKE j \in 1..(2 * n)
  <2>1. PICK i \in Int : j = 2 * i \/ j = 2 * i + 1
    <3>1. j = 2 * (j \div 2) \/ j = 2 * (j \div 2) + 1
      OBVIOUS
    <3> QED BY <3>1
  <2> QED BY <2>1
<1>2. /\ v(1) \in O /\ v(2 * n) \in E
      /\ \A i \in 1..(n - 1) : v(2 * i) = a(i) /\ v(2 * i + 1) = b(i)
  OBVIOUS
<1>3. /\ \A i \in Nat : a(i) \in Here(at) /\ b(i) \in Here(at)
      /\ \A i, j : a(i) # b(j)
      /\ \A i, j : i # j => a(i) # a(j) /\ b(i) # b(j)
  BY IdsAre, Zenon
<1> HIDE DEF v, a, b
<1>4. \A i \in 1..(n - 1) : v(2 * i) \in Here(at) /\ v(2 * i + 1) \in Here(at)
  <2> TAKE i \in 1..(n - 1)
  <2>1. i \in Nat
    OBVIOUS
  <2>2. v(2 * i) = a(i) /\ v(2 * i + 1) = b(i)
    BY <1>2
  <2>3. a(i) \in Here(at) /\ b(i) \in Here(at)
    BY <1>3, <2>1
  <2> QED BY <2>2, <2>3
<1>5. \A j \in 1..(2 * n) : v(j) \in (O \cup E) \cup Here(at)
  BY <1>1, <1>2, <1>4
<1>6. ASSUME NEW i \in 1..(2 * n), NEW j \in 1..(2 * n), i # j PROVE v(i) # v(j)
  <2>1. CASE v(i) \in Here(at) /\ v(j) \in Here(at)
    <3>1. i # 1 /\ i # 2 * n /\ j # 1 /\ j # 2 * n
      BY <1>2, <2>1
    <3>2. PICK p \in 1..(n - 1) : i = 2 * p \/ i = 2 * p + 1
      BY <1>1, <3>1
    <3>3. PICK q \in 1..(n - 1) : j = 2 * q \/ j = 2 * q + 1
      BY <1>1, <3>1
    <3>4. /\ v(2 * p) = a(p) /\ v(2 * p + 1) = b(p) /\ v(2 * q) = a(q) /\ v(2 * q + 1) = b(q)
      BY <1>2
    <3>5. CASE p = q
      <4>1. a(p) # b(p)
        BY <1>3
      <4> QED BY <1>6, <3>2, <3>3, <3>4, <3>5, <4>1
    <3>6. CASE p # q
      <4>1. a(p) # a(q) /\ b(p) # b(q) /\ a(p) # b(q) /\ a(q) # b(p)
        BY <1>3, <3>6
      <4> QED BY <3>2, <3>3, <3>4, <4>1
    <3> QED BY <3>5, <3>6
  <2>2. CASE ~(v(i) \in Here(at) /\ v(j) \in Here(at))
    <3>1. i \in {1, 2 * n} \/ j \in {1, 2 * n}
      BY <1>1, <1>4, <2>2
    <3>2. \A l \in 1..(2 * n) : l \notin {1, 2 * n} => v(l) \in Here(at)
      BY <1>1, <1>4
    <3> QED BY <1>2, <1>6, <3>1, <3>2
  <2> QED BY <2>1, <2>2
<1> QED BY <1>5, <1>6, Zenon DEF v, AllDiffer

(* A merge is a circuit, of its own variables. *)
LEMMA MergeCircuit ==
    \A k \in Nat : \A m \in Merges(k) : \A W :
      On(m.A, Power[k], W) /\ On(m.B, Power[k], W) /\ W \cap Own(m.at) = {} =>
        /\ Circuit(MergeOf(k, m).gates, Own(m.at))
        /\ In(MergeOf(k, m).gates, W \cup Own(m.at))
        /\ On(MergeOf(k, m).out, 2 * Power[k], Own(m.at))
        /\ AllDiffer(MergeOf(k, m).out, 2 * Power[k])
<1> DEFINE Says(k, m, W) ==
             /\ Circuit(MergeOf(k, m).gates, Own(m.at))
             /\ In(MergeOf(k, m).gates, W \cup Own(m.at))
             /\ On(MergeOf(k, m).out, 2 * Power[k], Own(m.at))
             /\ AllDiffer(MergeOf(k, m).out, 2 * Power[k])
           Fine(k) == \A m \in Merges(k) : \A W :
             On(m.A, Power[k], W) /\ On(m.B, Power[k], W) /\ W \cap Own(m.at) = {} => Says(k, m, W)
           S == {k \in Nat : Fine(k)}
<1>1. Fine(0)
  <2> SUFFICES ASSUME NEW m \in Merges(0), NEW W, On(m.A, Power[0], W), On(m.B, Power[0], W),
                      W \cap Own(m.at) = {}
               PROVE  Says(0, m, W)
    OBVIOUS
  <2> DEFINE at == m.at
             a == MinId(at, 1)[2]
             b == MaxId(at, 1)[2]
             x == m.A[1]
             y == m.B[1]
             g == <<Comparator(at, 1, x, y)>>
  <2>1. Power[0] = 1 /\ at \in Places /\ m.A \in Blocks(0) /\ m.B \in Blocks(0)
    BY PowerIs DEF Merges
  <2>2. x \in Wires /\ y \in Wires /\ x[2] \in W /\ y[2] \in W
    <3>1. Blocks(0) = [1..1 -> Wires] /\ 1 \in 1..1
      BY <2>1 DEF Blocks
    <3> HIDE DEF Wires
    <3> QED BY <2>1, <3>1 DEF On
  <2>3. /\ MergeOf(0, m).out = <<MinId(at, 1), MaxId(at, 1)>>
        /\ MergeOf(0, m).gates = g
    <3>1. MergeOf(0, m) = FirstMerge(m)
      BY MergeDefined
    <3>2. \A p, q : [out |-> p, gates |-> q].out = p /\ [out |-> p, gates |-> q].gates = q
      OBVIOUS
    <3> QED BY <3>1, <3>2, Zenon DEF FirstMerge
  <2>4. a \in Own(at) /\ b \in Own(at) /\ a # b
    <3>1. a \in Here(at) /\ b \in Here(at) /\ a # b
      BY IdsAre
    <3>2. Here(at) \subseteq Own(at)
      BY <2>1, OwnIs
    <3> QED BY <3>1, <3>2
  <2>5. g[1] = gen_comparator(Pos(a), Pos(b), x, y) /\ DOMAIN g = {1}
    <3>1. g[1] = Comparator(at, 1, x, y) /\ DOMAIN g = {1}
      OBVIOUS
    <3>2. MinId(at, 1) = Pos(a) /\ MaxId(at, 1) = Pos(b)
      BY IdsAre
    <3> HIDE DEF g, a, b
    <3> QED BY <3>1, <3>2, Zenon DEF Comparator
  <2>6. {x[2], y[2]} \cap {a, b} = {}
    <3> HIDE DEF a, b, x, y
    <3> QED BY <2>2, <2>4
  <2> HIDE DEF a, b, x, y, g
  <2>7. Circuit(g, Own(at))
    <3>1. \A j \in 1..(1 - 1) : FALSE
      OBVIOUS
    <3>2. Adds(g, 1, a, b)
      BY <2>2, <2>4, <2>5, <2>6, <3>1, Zenon DEF Adds
    <3> QED BY <2>4, <2>5, <3>2 DEF Circuit
  <2>8. In(g, W \cup Own(at))
    <3>1. GateVars(g[1]) \subseteq {a, b, x[2], y[2]}
      BY <2>5, ComparatorVars, Zenon
    <3> QED BY <2>2, <2>4, <2>5, <3>1 DEF In
  <2>9. /\ On(<<MinId(at, 1), MaxId(at, 1)>>, 2, Own(at))
        /\ AllDiffer(<<MinId(at, 1), MaxId(at, 1)>>, 2)
    <3>1. \A i \in 1..2 : i = 1 \/ i = 2
      OBVIOUS
    <3>2. \A p, q : <<p, q>>[1] = p /\ <<p, q>>[2] = q
      OBVIOUS
    <3>3. MinId(at, 1)[2] \in Own(at) /\ MaxId(at, 1)[2] \in Own(at) /\ MinId(at, 1)[2] # MaxId(at, 1)[2]
      BY <2>4 DEF a, b
    <3> HIDE DEF at
    <3> QED BY <3>1, <3>2, <3>3 DEF On, AllDiffer
  <2>10. 2 * Power[0] = 2
    BY <2>1
  <2> QED BY <2>3, <2>7, <2>8, <2>9, <2>10, Zenon
<1>2. ASSUME NEW j \in Nat, Fine(j) PROVE Fine(j + 1)
  <2> DEFINE k == j + 1
             n == Power[k]
  <2>0. k \in Nat \ {0} /\ k - 1 = j
    OBVIOUS
  <2> HIDE DEF k
  <2> SUFFICES ASSUME NEW m \in Merges(k), NEW W, On(m.A, n, W), On(m.B, n, W), W \cap Own(m.at) = {}
               PROVE  Says(k, m, W)
    BY DEF k
  <2> DEFINE h == Power[j]
             at == m.at
             odd == MergeOf(j, OddPart(m))
             even == MergeOf(j, EvenPart(m))
             stage == Stage(at, n, odd, even)
             g == odd.gates \o even.gates
             O == Own(Down(at, "odd"))
             E == Own(Down(at, "even"))
             H == Here(at)
             out == MergeOf(k, m).out
  <2>1. at \in Places /\ m.A \in Blocks(k) /\ m.B \in Blocks(k)
    BY DEF Merges
  <2>2. h \in Nat \ {0} /\ n \in Nat \ {0} /\ n = 2 * h
    <3>1. Power[k - 1] \in Nat \ {0} /\ Power[k] = 2 * Power[k - 1]
      BY <2>0, <2>1, HalvesAre
    <3> QED BY <2>0, <3>1
  <2>3. /\ OddPart(m) \in Merges(j) /\ EvenPart(m) \in Merges(j)
        /\ OddPart(m).at = Down(at, "odd") /\ EvenPart(m).at = Down(at, "even")
        /\ OddPart(m).A = Odds(m.A) /\ OddPart(m).B = Odds(m.B)
        /\ EvenPart(m).A = Evens(m.A) /\ EvenPart(m).B = Evens(m.B)
    BY <2>0, PartsAre
  <2>4. odd \in Nets(n) /\ even \in Nets(n)
    <3>1. odd \in Nets(2 * Power[j]) /\ even \in Nets(2 * Power[j])
      BY <2>3, MergeDefined, Zenon
    <3> QED BY <2>2, <3>1
  <2>5. MergeOf(k, m) = Compared(at, n, odd, even)
    BY <2>0, MergeDefined
  <2>6. /\ O \subseteq Own(at) /\ E \subseteq Own(at) /\ H \subseteq Own(at)
        /\ O \cap E = {} /\ O \cap H = {} /\ E \cap H = {}
    BY <2>1, OwnIs DEF Moves
  <2>7. On(Odds(m.A), h, W) /\ On(Odds(m.B), h, W) /\ On(Evens(m.A), h, W) /\ On(Evens(m.B), h, W)
    <3>1. \A i \in 1..h : 2 * i - 1 \in 1..n /\ 2 * i \in 1..n
      BY <2>2
    <3>2. \A xs \in Blocks(k) : On(xs, n, W) => On(Odds(xs), h, W) /\ On(Evens(xs), h, W)
      <4> TAKE xs \in Blocks(k)
      <4>1. \A i \in 1..h : Odds(xs)[i] = xs[2 * i - 1] /\ Evens(xs)[i] = xs[2 * i]
        <5>1. \A i \in 1..Power[k - 1] : Odds(xs)[i] = xs[2 * i - 1] /\ Evens(xs)[i] = xs[2 * i]
          BY <2>0, HalvesAre
        <5> QED BY <2>0, <5>1
      <4> HIDE DEF n, h
      <4> QED BY <3>1, <4>1, Zenon DEF On
    <3> QED BY <2>1, <3>2
  <2>8. /\ Circuit(odd.gates, O) /\ In(odd.gates, W \cup O) /\ On(odd.out, n, O)
        /\ Circuit(even.gates, E) /\ In(even.gates, W \cup E) /\ On(even.out, n, E)
    <3>1. W \cap O = {} /\ W \cap E = {}
      BY <2>6
    <3>2. Says(j, OddPart(m), W)
      <4> HIDE DEF Says
      <4> QED BY <1>2, <2>3, <2>7, <3>1, Zenon
    <3>3. Says(j, EvenPart(m), W)
      <4> HIDE DEF Says
      <4> QED BY <1>2, <2>3, <2>7, <3>1, Zenon
    <3> QED BY <2>2, <2>3, <3>2, <3>3, Zenon
  <2>9. Circuit(stage, H) /\ In(stage, (O \cup E) \cup H)
    <3> DEFINE X == O \cup E
    <3>1. On(odd.out, n, X) /\ On(even.out, n, X) /\ X \cap H = {}
      <4>1. \A i \in 1..n : odd.out[i][2] \in O /\ even.out[i][2] \in E
        BY <2>8, Zenon DEF On
      <4> HIDE DEF O, E, H, odd, even, n
      <4> QED BY <2>6, <4>1 DEF On
    <3> HIDE DEF X, odd, even, n
    <3>2. Circuit(Stage(at, n, odd, even), Here(at)) /\ In(Stage(at, n, odd, even), X \cup Here(at))
      BY <2>1, <2>2, <2>4, <3>1, StageCircuit
    <3> QED BY <3>2 DEF X
  <2>10. IsCompared(MergeOf(k, m), at, n, odd, even)
    <3> HIDE DEF odd, even, n
    <3> QED BY <2>1, <2>2, <2>4, <2>5, ComparedIs
  <2>11. /\ MergeOf(k, m).gates = g \o stage /\ stage \in Seq(GateSet)
         /\ out[1] = odd.out[1] /\ out[2 * n] = even.out[n]
         /\ \A i \in 1..(n - 1) : out[2 * i] = MinId(at, i) /\ out[2 * i + 1] = MaxId(at, i)
    BY <2>10, Zenon DEF IsCompared
  <2>12. odd.gates \in Seq(GateSet) /\ even.gates \in Seq(GateSet)
    BY <2>4, Zenon DEF Nets
  <2>13. Circuit(g, O \cup E) /\ In(g, (W \cup O) \cup (W \cup E)) /\ g \in Seq(GateSet)
    <3>1. E \cap (W \cup O) = {}
      BY <2>6
    <3> HIDE DEF odd, even, O, E, GateSet
    <3> QED BY <2>8, <2>12, <3>1, CircuitConcat, ConcatIs
  <2>14. Circuit(g \o stage, (O \cup E) \cup H) /\ In(g \o stage, ((W \cup O) \cup (W \cup E)) \cup ((O \cup E) \cup H))
    <3>1. H \cap ((W \cup O) \cup (W \cup E)) = {}
      BY <2>6
    <3> HIDE DEF g, stage, O, E, H, GateSet
    <3> QED BY <2>9, <2>11, <2>13, <3>1, CircuitConcat
  <2>15. Circuit(MergeOf(k, m).gates, Own(at)) /\ In(MergeOf(k, m).gates, W \cup Own(at))
    <3> DEFINE V1 == (O \cup E) \cup H
               V2 == ((W \cup O) \cup (W \cup E)) \cup ((O \cup E) \cup H)
    <3>1. V1 \subseteq Own(at) /\ V2 \subseteq W \cup Own(at)
      BY <2>6
    <3>2. Circuit(MergeOf(k, m).gates, V1) /\ In(MergeOf(k, m).gates, V2)
      BY <2>11, <2>14, Zenon
    <3> HIDE DEF V1, V2
    <3> QED BY <3>1, <3>2, InUp
  <2>16. /\ \A i \in 1..(2 * n) : out[i][2] \in (O \cup E) \cup H
         /\ AllDiffer(out, 2 * n)
    <3>1. out[1][2] \in O /\ out[2 * n][2] \in E
      <4>1. 1 \in 1..n /\ n \in 1..n
        BY <2>2
      <4> HIDE DEF O, E, out, odd, even, n
      <4> QED BY <2>8, <2>11, <4>1 DEF On
    <3>2. O \cap E = {} /\ O \cap Here(at) = {} /\ E \cap Here(at) = {}
      BY <2>6
    <3>3. \A i \in 1..(n - 1) : out[2 * i] = MinId(at, i) /\ out[2 * i + 1] = MaxId(at, i)
      BY <2>11
    <3> HIDE DEF O, E, out, n, odd, even, at
    <3>4. \A i \in 1..(2 * n) : out[i][2] \in (O \cup E) \cup Here(at)
      BY <2>2, <3>1, <3>2, <3>3, StageOut
    <3>5. AllDiffer(out, 2 * n)
      BY <2>2, <3>1, <3>2, <3>3, StageOut
    <3> QED BY <3>4, <3>5
  <2>17. On(out, 2 * n, Own(at))
    <3> HIDE DEF O, E, H, out, n, at
    <3> QED BY <2>6, <2>16 DEF On
  <2> QED BY <2>15, <2>16, <2>17, Zenon
<1>3. \A k \in Nat : k \in S
  <2>1. 0 \in S
    BY <1>1
  <2> HIDE DEF Fine
  <2>2. \A k \in Nat : k \in S => k + 1 \in S
    BY <1>2
  <2> HIDE DEF S
  <2> QED BY <2>1, <2>2, AllNat
<1> HIDE DEF Fine
<1>4. \A k \in Nat : Fine(k)
  BY <1>3
<1> QED BY <1>4, Zenon DEF Fine

-----------------------------------------------------------------------------
(* So is a sorter; its outputs are its own unless it has one wire only. *)
LEMMA SortCircuit ==
    \A k \in Nat : \A s \in Sorts(k) : \A W :
      On(s.xs, Power[k], W) /\ W \cap Own(s.at) = {} =>
        /\ Circuit(SortOf(k, s).gates, Own(s.at))
        /\ In(SortOf(k, s).gates, W \cup Own(s.at))
        /\ On(SortOf(k, s).out, Power[k], W \cup Own(s.at))
        /\ k # 0 => On(SortOf(k, s).out, Power[k], Own(s.at)) /\ AllDiffer(SortOf(k, s).out, Power[k])
<1> DEFINE Says(k, s, W) ==
             /\ Circuit(SortOf(k, s).gates, Own(s.at))
             /\ In(SortOf(k, s).gates, W \cup Own(s.at))
             /\ On(SortOf(k, s).out, Power[k], W \cup Own(s.at))
             /\ k # 0 => On(SortOf(k, s).out, Power[k], Own(s.at)) /\ AllDiffer(SortOf(k, s).out, Power[k])
           Fine(k) == \A s \in Sorts(k) : \A W :
             On(s.xs, Power[k], W) /\ W \cap Own(s.at) = {} => Says(k, s, W)
           S == {k \in Nat : Fine(k)}
<1>1. Fine(0)
  <2> SUFFICES ASSUME NEW s \in Sorts(0), NEW W, On(s.xs, Power[0], W)
               PROVE  Says(0, s, W)
    OBVIOUS
  <2>1. SortOf(0, s).out = s.xs /\ SortOf(0, s).gates = <<>>
    <3>1. SortOf(0, s) = FirstSort(s)
      BY SortDefined
    <3>2. \A x, y : [out |-> x, gates |-> y].out = x /\ [out |-> x, gates |-> y].gates = y
      OBVIOUS
    <3> QED BY <3>1, <3>2, Zenon DEF FirstSort
  <2>2. DOMAIN SortOf(0, s).gates = {}
    BY <2>1
  <2> QED BY <2>1, <2>2 DEF Circuit, In, On
<1>2. ASSUME NEW j \in Nat, Fine(j) PROVE Fine(j + 1)
  <2> DEFINE k == j + 1
             n == Power[k]
             h == Power[j]
  <2>0. k \in Nat \ {0} /\ k - 1 = j
    OBVIOUS
  <2> HIDE DEF k
  <2> SUFFICES ASSUME NEW s \in Sorts(k), NEW W, On(s.xs, n, W), W \cap Own(s.at) = {}
               PROVE  Says(k, s, W)
    BY DEF k
  <2> DEFINE at == s.at
             A == SortOf(j, LowerOf(s))
             B == SortOf(j, UpperOf(s))
             m == LastPart(at, A, B)
             M == MergeOf(j, m)
             OA == Own(Down(at, "A"))
             OB == Own(Down(at, "B"))
             OM == Own(Down(at, "merge"))
             g == A.gates \o B.gates
             W2 == (W \cup OA) \cup (W \cup OB)
  <2>1. at \in Places /\ s.xs \in Blocks(k)
    BY DEF Sorts
  <2>2. h \in Nat \ {0} /\ n = 2 * h
    <3>1. Power[k - 1] \in Nat \ {0} /\ Power[k] = 2 * Power[k - 1]
      BY <2>0, <2>1, HalvesAre
    <3> QED BY <2>0, <3>1
  <2>3. \A i \in 1..h : Lower(s.xs)[i] = s.xs[i] /\ Upper(s.xs)[i] = s.xs[h + i]
    <3>1. \A i \in 1..Power[k - 1] : Lower(s.xs)[i] = s.xs[i] /\ Upper(s.xs)[i] = s.xs[Power[k - 1] + i]
      BY <2>0, <2>1, HalvesAre
    <3> QED BY <2>0, <3>1
  <2>4. /\ LowerOf(s) \in Sorts(j) /\ UpperOf(s) \in Sorts(j)
        /\ LowerOf(s).at = Down(at, "A") /\ UpperOf(s).at = Down(at, "B")
        /\ LowerOf(s).xs = Lower(s.xs) /\ UpperOf(s).xs = Upper(s.xs)
    BY <2>0, SortPartsAre
  <2>5. A \in Nets(h) /\ B \in Nets(h)
    BY <2>4, SortDefined, Zenon
  <2>6. SortOf(k, s) = Merged(j, at, A, B)
    BY <2>0, SortDefined
  <2>7. IsMerged(SortOf(k, s), j, at, A, B)
    <3> HIDE DEF A, B, at
    <3>1. A \in Nets(Power[j]) /\ B \in Nets(Power[j])
      BY <2>5
    <3>2. IsMerged(Merged(j, at, A, B), j, at, A, B)
      BY <2>1, <3>1, MergedIs
    <3> QED BY <2>6, <3>2, Zenon
  <2>8. /\ A.gates \in Seq(GateSet) /\ B.gates \in Seq(GateSet) /\ M.gates \in Seq(GateSet)
        /\ m \in Merges(j) /\ SortOf(k, s).out = M.out /\ SortOf(k, s).gates = g \o M.gates
    BY <2>7, Zenon DEF IsMerged
  <2>9. /\ OA \subseteq Own(at) /\ OB \subseteq Own(at) /\ OM \subseteq Own(at)
        /\ OA \cap OB = {} /\ OA \cap OM = {} /\ OB \cap OM = {}
    BY <2>1, OwnIs DEF Moves
  <2>10. On(LowerOf(s).xs, h, W) /\ On(UpperOf(s).xs, h, W)
    <3>1. \A i \in 1..n : s.xs[i][2] \in W
      BY DEF On
    <3>2. \A i \in 1..h : i \in 1..n /\ h + i \in 1..n
      BY <2>2
    <3> HIDE DEF n, h
    <3>3. \A i \in 1..h : Lower(s.xs)[i][2] \in W /\ Upper(s.xs)[i][2] \in W
      BY <2>3, <3>1, <3>2, Zenon
    <3> QED BY <2>4, <3>3, Zenon DEF On
  <2>11. /\ Circuit(A.gates, OA) /\ In(A.gates, W \cup OA) /\ On(A.out, h, W \cup OA)
         /\ Circuit(B.gates, OB) /\ In(B.gates, W \cup OB) /\ On(B.out, h, W \cup OB)
    <3>1. W \cap OA = {} /\ W \cap OB = {}
      BY <2>9
    <3>2. Says(j, LowerOf(s), W)
      <4> HIDE DEF Says
      <4> QED BY <1>2, <2>4, <2>10, <3>1, Zenon
    <3>3. Says(j, UpperOf(s), W)
      <4> HIDE DEF Says
      <4> QED BY <1>2, <2>4, <2>10, <3>1, Zenon
    <3> QED BY <2>4, <3>2, <3>3, Zenon
  <2>12. m.at = Down(at, "merge") /\ m.A = A.out /\ m.B = B.out
    BY LastIs, Zenon
  <2>13. /\ Circuit(M.gates, OM) /\ In(M.gates, W2 \cup OM) /\ On(M.out, n, OM)
         /\ AllDiffer(M.out, n)
    <3>1. On(m.A, h, W2) /\ On(m.B, h, W2)
      <4>1. On(A.out, h, W2) /\ On(B.out, h, W2)
        BY <2>11 DEF On
      <4> QED BY <2>12, <4>1, Zenon
    <3>2. W2 \cap Own(m.at) = {}
      <4>1. W2 \cap OM = {}
        BY <2>9
      <4> HIDE DEF m, W2
      <4> QED BY <2>12, <4>1
    <3> HIDE DEF m, W2
    <3>3. /\ Circuit(MergeOf(j, m).gates, Own(m.at))
          /\ In(MergeOf(j, m).gates, W2 \cup Own(m.at))
          /\ On(MergeOf(j, m).out, 2 * Power[j], Own(m.at))
          /\ AllDiffer(MergeOf(j, m).out, 2 * Power[j])
      BY <2>8, <3>1, <3>2, MergeCircuit, Zenon
    <3> QED BY <2>2, <2>12, <3>3, Zenon
  <2>14. Circuit(g, OA \cup OB) /\ In(g, W2) /\ g \in Seq(GateSet)
    <3>1. OB \cap (W \cup OA) = {}
      BY <2>9
    <3> HIDE DEF A, B, OA, OB, GateSet
    <3> QED BY <2>8, <2>11, <3>1, CircuitConcat, ConcatIs
  <2>15. /\ Circuit(g \o M.gates, (OA \cup OB) \cup OM)
         /\ In(g \o M.gates, W2 \cup (W2 \cup OM))
    <3>1. OM \cap W2 = {}
      BY <2>9
    <3> HIDE DEF g, M, OA, OB, OM, W2, GateSet
    <3> QED BY <2>8, <2>13, <2>14, <3>1, CircuitConcat
  <2>16. Circuit(SortOf(k, s).gates, Own(at)) /\ In(SortOf(k, s).gates, W \cup Own(at))
    <3> DEFINE V1 == (OA \cup OB) \cup OM
               V2 == W2 \cup (W2 \cup OM)
    <3>1. V1 \subseteq Own(at) /\ V2 \subseteq W \cup Own(at)
      BY <2>9
    <3>2. Circuit(SortOf(k, s).gates, V1) /\ In(SortOf(k, s).gates, V2)
      BY <2>8, <2>15, Zenon
    <3> HIDE DEF V1, V2
    <3> QED BY <3>1, <3>2, InUp
  <2>17. On(SortOf(k, s).out, n, Own(at)) /\ On(SortOf(k, s).out, n, W \cup Own(at))
    <3> HIDE DEF M, OM, n
    <3>1. \A i \in 1..n : M.out[i][2] \in OM
      BY <2>13 DEF On
    <3>2. \A i \in 1..n : SortOf(k, s).out[i][2] \in OM
      BY <2>8, <3>1, Zenon
    <3> QED BY <2>9, <3>2 DEF On
  <2>18. AllDiffer(SortOf(k, s).out, n)
    BY <2>8, <2>13, Zenon
  <2> QED BY <2>16, <2>17, <2>18, Zenon
<1>3. \A k \in Nat : k \in S
  <2>1. 0 \in S
    BY <1>1
  <2> HIDE DEF Fine
  <2>2. \A k \in Nat : k \in S => k + 1 \in S
    BY <1>2
  <2> HIDE DEF S
  <2> QED BY <2>1, <2>2, AllNat
<1> HIDE DEF Fine
<1>4. \A k \in Nat : Fine(k)
  BY <1>3
<1> QED BY <1>4, Zenon DEF Fine

-----------------------------------------------------------------------------
(* Every assignment of the other variables can be completed to one that     *)
(* obeys a circuit.                                                         *)
LEMMA FulfilsSame ==
    ASSUME NEW T, NEW T2, NEW g, \A v \in GateVars(g) : v \in T <=> v \in T2, Fulfils(T, g)
    PROVE  Fulfils(T2, g)
<1> SUFFICES ASSUME NEW c \in g PROVE \E l \in c : IsTrue(T2, l)
  BY DEF Fulfils
<1>1. PICK l \in c : IsTrue(T, l)
  BY DEF Fulfils
<1>2. l[2] \in GateVars(g)
  BY DEF GateVars
<1> QED BY <1>1, <1>2 DEF IsTrue

LEMMA ComparatorFulfilled ==
    ASSUME NEW T, NEW a, NEW b, NEW x \in Wires, NEW y \in Wires,
           a \in T <=> x[2] \in T /\ y[2] \in T,
           b \in T <=> x[2] \in T \/ y[2] \in T
    PROVE  Fulfils(T, gen_comparator(Pos(a), Pos(b), x, y))
<1>1. /\ IsTrue(T, Pos(a)) <=> a \in T
      /\ IsTrue(T, Pos(b)) <=> b \in T
  BY TrueLiterals
<1>2. (IsTrue(T, x) <=> x[2] \in T) /\ (IsTrue(T, y) <=> y[2] \in T)
  BY WireTrue
<1>3. Fulfils(T, gen_and(Pos(a), x, y)) /\ Fulfils(T, gen_or(Pos(b), x, y))
  BY <1>1, <1>2, GateAnd, GateOr
<1> QED BY <1>3 DEF Fulfils, gen_comparator

LEMMA CircuitExtends ==
    ASSUME NEW A, NEW gates \in Seq(A), NEW V, Circuit(gates, V), NEW T
    PROVE  \E T2 : (\A v : v \notin V => (v \in T2 <=> v \in T)) /\ Obeys(T2, gates)
<1> DEFINE n == Len(gates)
           Same(T2) == \A v : v \notin V => (v \in T2 <=> v \in T)
           S == {i \in 0..n : \E T2 : Same(T2) /\ \A j \in 1..i : Fulfils(T2, gates[j])}
<1>0. n \in Nat /\ DOMAIN gates = 1..n
  OBVIOUS
<1> HIDE DEF n
<1>1. 0 \in S
  <2>1. Same(T) /\ \A j \in 1..0 : Fulfils(T, gates[j])
    OBVIOUS
  <2> QED BY <1>0, <2>1
<1>2. ASSUME NEW i \in 1..n, i - 1 \in S PROVE i \in S
  <2>1. PICK T1 : Same(T1) /\ \A j \in 1..(i - 1) : Fulfils(T1, gates[j])
    BY <1>2
  <2>2. PICK a \in V, b \in V : Adds(gates, i, a, b)
    BY <1>0, Zenon DEF Circuit
  <2>3. PICK x \in Wires, y \in Wires : /\ gates[i] = gen_comparator(Pos(a), Pos(b), x, y)
                                        /\ {x[2], y[2]} \cap {a, b} = {}
    BY <2>2, Zenon DEF Adds
  <2>4. a # b /\ \A j \in 1..(i - 1) : {a, b} \cap GateVars(gates[j]) = {}
    BY <2>2, Zenon DEF Adds
  <2> DEFINE T2 == (T1 \ {a, b}) \cup {v \in {a} : x[2] \in T1 /\ y[2] \in T1}
                                 \cup {v \in {b} : x[2] \in T1 \/ y[2] \in T1}
  <2>5. /\ \A v : v \notin {a, b} => (v \in T2 <=> v \in T1)
        /\ a \in T2 <=> x[2] \in T1 /\ y[2] \in T1
        /\ b \in T2 <=> x[2] \in T1 \/ y[2] \in T1
    BY <2>4
  <2> HIDE DEF T2
  <2>6. Same(T2)
    BY <2>1, <2>5
  <2>7. Fulfils(T2, gates[i])
    <3>1. (x[2] \in T2 <=> x[2] \in T1) /\ (y[2] \in T2 <=> y[2] \in T1)
      BY <2>3, <2>5
    <3>2. Fulfils(T2, gen_comparator(Pos(a), Pos(b), x, y))
      BY <2>5, <3>1, ComparatorFulfilled
    <3> QED BY <2>3, <3>2
  <2>8. \A j \in 1..(i - 1) : Fulfils(T2, gates[j])
    <3> TAKE j \in 1..(i - 1)
    <3>1. \A v \in GateVars(gates[j]) : v \in T1 <=> v \in T2
      BY <2>4, <2>5
    <3>2. Fulfils(T1, gates[j])
      BY <2>1
    <3> QED BY <3>1, <3>2, FulfilsSame
  <2>9. \A j \in 1..i : j = i \/ j \in 1..(i - 1)
    OBVIOUS
  <2>10. i \in 0..n
    OBVIOUS
  <2>11. \A j \in 1..i : Fulfils(T2, gates[j])
    BY <2>7, <2>8, <2>9, Zenon
  <2> HIDE DEF Same
  <2> QED BY <2>6, <2>10, <2>11
<1>3. n \in S
  <2>1. n \in 0..n
    BY <1>0
  <2> HIDE DEF S
  <2> QED BY <1>0, <1>1, <1>2, <2>1, UpTo
<1>4. PICK T2 : Same(T2) /\ \A j \in 1..n : Fulfils(T2, gates[j])
  BY <1>3
<1> QED BY <1>0, <1>4, Zenon DEF Obeys

(* No clause is in two gates of a circuit, and none has one literal only. *)
LEMMA CircuitApart ==
    ASSUME NEW A, NEW gates \in Seq(A), NEW V, Circuit(gates, V)
    PROVE  /\ \A i, j \in DOMAIN gates : i # j => gates[i] \cap gates[j] = {}
           /\ \A i \in DOMAIN gates : \A c \in gates[i] :
                /\ \E l \in c : l[2] \in V
                /\ \A l : c # {l}
<1>0. Len(gates) \in Nat /\ DOMAIN gates = 1..Len(gates)
  OBVIOUS
<1>1. ASSUME NEW i \in DOMAIN gates, NEW c \in gates[i]
      PROVE  /\ \E l \in c : l[2] \in V /\ \A j \in 1..(i - 1) : l[2] \notin GateVars(gates[j])
             /\ \A l : c # {l}
  <2>2. PICK a \in V, b \in V : Adds(gates, i, a, b)
    BY Zenon DEF Circuit
  <2>3. PICK x \in Wires, y \in Wires : /\ gates[i] = gen_comparator(Pos(a), Pos(b), x, y)
                                        /\ {x[2], y[2]} \cap {a, b} = {}
    BY <2>2, Zenon DEF Adds
  <2>4. \A j \in 1..(i - 1) : {a, b} \cap GateVars(gates[j]) = {}
    BY <2>2, Zenon DEF Adds
  <2>5. (\E l \in c : l[2] \in {a, b}) /\ \E l \in c : l[2] \in {x[2], y[2]}
    <3>1. c \in gen_comparator(Pos(a), Pos(b), x, y)
      BY <2>3
    <3> QED BY <3>1, ComparatorVars
  <2> QED BY <2>3, <2>4, <2>5
<1>2. ASSUME NEW i \in DOMAIN gates, NEW j \in 1..(i - 1) PROVE gates[i] \cap gates[j] = {}
  <2> SUFFICES ASSUME NEW c \in gates[i], c \in gates[j] PROVE FALSE
    OBVIOUS
  <2>1. PICK l \in c : l[2] \notin GateVars(gates[j])
    BY <1>1
  <2>2. l[2] \in GateVars(gates[j])
    BY DEF GateVars
  <2> QED BY <2>1, <2>2
<1>3. \A i, j \in DOMAIN gates : i # j => j \in 1..(i - 1) \/ i \in 1..(j - 1)
  BY <1>0
<1>4. \A i, j \in DOMAIN gates : i # j => gates[i] \cap gates[j] = {}
  BY <1>2, <1>3
<1> QED BY <1>1, <1>4

-----------------------------------------------------------------------------
(* The sorter of a constraint on n inputs: its wires are the inputs and as  *)
(* many zeros as fill them up.                                              *)
Root(call)      == [call |-> call, path |-> <<>>]
Zeros(call, n)  == [i \in 1..(Power[Radix(n)] - n) |-> Pos(<<"zero", call, i>>)]
Padded(call, n) == Inputs(n) \o Zeros(call, n)
Net(call, n)    == SortOf(Radix(n), [at |-> Root(call), xs |-> Padded(call, n)])
Limits(call, n, tval) == [i \in 1..(Power[Radix(n)] - tval) |-> {{Neg(Net(call, n).out[i])}}]
Grounds(call, n)      == [i \in 1..(Power[Radix(n)] - n) |-> {{Neg(Zeros(call, n)[i])}}]

ZeroNames(call)   == {<<"zero", call, i>> : i \in Nat}
SorterNames(call) == Own(Root(call)) \cup ZeroNames(call)

LEMMA SorterIs ==
    ASSUME NEW n \in Nat, NEW call, NEW tval
    PROVE  srt_gen_atmostN(call, Inputs(n), tval)
             = Net(call, n).gates \o Limits(call, n, tval) \o Grounds(call, n)
<1>1. Len(Inputs(n)) = n
  BY InputsLen
<1> QED BY <1>1, Zenon DEF srt_gen_atmostN, Root, Zeros, Padded, Net, SortOf, Limits, Grounds

LEMMA PaddedIs ==
    ASSUME NEW n \in Nat \ {0}, NEW call \in Nat
    PROVE  /\ Root(call) \in Places /\ Root(call).call = call
           /\ Power[Radix(n)] - n \in Nat \ {0}
           /\ Radix(n) \in Nat \ {0}
           /\ Padded(call, n) \in Blocks(Radix(n))
           /\ \A i \in 1..n : Padded(call, n)[i] = Pos(<<"x", i>>)
           /\ \A i \in 1..(Power[Radix(n)] - n) :
                /\ Padded(call, n)[n + i] = Zeros(call, n)[i]
                /\ Zeros(call, n)[i] = Pos(<<"zero", call, i>>)
<1> DEFINE P == Power[Radix(n)]
           m == P - n
           xs == Inputs(n)
           zs == Zeros(call, n)
<1>1. Radix(n) \in Nat \ {0} /\ P > n /\ P \in Nat
  BY RadixIs, PowerIs
<1>2. Root(call) \in Places /\ Root(call).call = call
  BY DEF Root, Places
<1> HIDE DEF P
<1>3. m \in Nat \ {0} /\ n + m = P
  BY <1>1
<1> HIDE DEF m
<1>4. \A i \in 1..n : Pos(<<"x", i>>) \in Wires
  <2>1. \A i \in 1..n : <<"x", i>> \in {"x"} \X Nat
    OBVIOUS
  <2> QED BY <2>1 DEF Wires, Pos
<1>5. \A i \in 1..m : Pos(<<"zero", call, i>>) \in Wires
  <2>1. \A i \in 1..m : <<"zero", call, i>> \in {"zero"} \X Nat \X Nat
    BY <1>3
  <2> QED BY <2>1 DEF Wires, Pos
<1>6. xs \in [1..n -> Wires] /\ \A i \in 1..n : xs[i] = Pos(<<"x", i>>)
  BY <1>4 DEF Inputs
<1>7. zs \in [1..m -> Wires] /\ \A i \in 1..m : zs[i] = Pos(<<"zero", call, i>>)
  BY <1>5 DEF Zeros, m, P
<1> HIDE DEF xs, zs
<1>8. xs \in Seq(Wires) /\ Len(xs) = n /\ zs \in Seq(Wires) /\ Len(zs) = m
  BY <1>3, <1>6, <1>7, SeqFrom
<1>9. /\ xs \o zs \in Seq(Wires) /\ Len(xs \o zs) = P
      /\ \A p \in 1..n : (xs \o zs)[p] = xs[p]
      /\ \A p \in 1..m : (xs \o zs)[n + p] = zs[p]
  <2>1. /\ xs \o zs \in Seq(Wires) /\ Len(xs \o zs) = Len(xs) + Len(zs)
        /\ \A p \in 1..Len(xs) : (xs \o zs)[p] = xs[p]
        /\ \A p \in 1..Len(zs) : (xs \o zs)[Len(xs) + p] = zs[p]
    <3>1. xs \in Seq(Wires) /\ zs \in Seq(Wires)
      BY <1>8
    <3> HIDE DEF Wires
    <3> QED BY <3>1, ConcatIs
  <2> QED BY <1>3, <1>8, <2>1, Zenon
<1>10. xs \o zs \in [1..P -> Wires]
  <2> DEFINE t == xs \o zs
  <2>1. t \in Seq(Wires) /\ Len(t) = P
    BY <1>9
  <2> HIDE DEF t
  <2>2. t \in [1..P -> Wires]
    BY <2>1
  <2> QED BY <2>2 DEF t
<1> QED BY <1>1, <1>2, <1>3, <1>6, <1>7, <1>9, <1>10, Zenon DEF Blocks, P, m, xs, zs, Padded

LEMMA NetIs ==
    ASSUME NEW n \in Nat \ {0}, NEW call \in Nat
    PROVE  /\ Net(call, n) \in Nets(Power[Radix(n)])
           /\ Net(call, n).gates \in Seq(GateSet)
           /\ \A T : Obeys(T, Net(call, n).gates) =>
                Sorted(T, Net(call, n).out, Power[Radix(n)], Trues(T, Padded(call, n), Power[Radix(n)]))
<1> DEFINE k == Radix(n)
           s == [at |-> Root(call), xs |-> Padded(call, n)]
<1>1. k \in Nat /\ s \in Sorts(k) /\ s.xs = Padded(call, n)
  BY PaddedIs DEF Sorts
<1> HIDE DEF k, s
<1>2. SortOf(k, s) \in Nets(Power[k])
  BY <1>1, SortDefined
<1>3. \A T : Obeys(T, SortOf(k, s).gates) => Sorted(T, SortOf(k, s).out, Power[k], Trues(T, Padded(call, n), Power[k]))
  BY <1>1, SortSorts, Zenon
<1>4. SortOf(k, s).gates \in Seq(GateSet)
  BY <1>2 DEF Nets
<1> QED BY <1>2, <1>3, <1>4, Zenon DEF Net, k, s

LEMMA NetCircuit ==
    ASSUME NEW n \in Nat \ {0}, NEW call \in Nat
    PROVE  /\ Circuit(Net(call, n).gates, Own(Root(call)))
           /\ In(Net(call, n).gates, InputNames \cup SorterNames(call))
           /\ On(Net(call, n).out, Power[Radix(n)], Own(Root(call)))
           /\ AllDiffer(Net(call, n).out, Power[Radix(n)])
<1> DEFINE k == Radix(n)
           at == Root(call)
           xs == Padded(call, n)
           s == [at |-> at, xs |-> xs]
           W == InputNames \cup ZeroNames(call)
           m == Power[k] - n
<1>1. k \in Nat \ {0} /\ s \in Sorts(k) /\ s.xs = xs /\ s.at = at
  BY PaddedIs DEF Sorts
<1>2. On(xs, Power[k], W)
  <2>1. \A i \in 1..n : xs[i] = Pos(<<"x", i>>)
    BY PaddedIs, Zenon
  <2>2. \A i \in 1..m : xs[n + i] = Pos(<<"zero", call, i>>)
    <3>1. \A i \in 1..m : xs[n + i] = Zeros(call, n)[i] /\ Zeros(call, n)[i] = Pos(<<"zero", call, i>>)
      BY PaddedIs, Zenon
    <3> QED BY <3>1, Zenon
  <2>3. m \in Nat \ {0} /\ Power[k] \in Nat
    BY <1>1, PowerIs, PaddedIs
  <2>4. \A i \in 1..n : Pos(<<"x", i>>)[2] \in W
    BY DEF Pos, InputNames
  <2>5. \A i \in 1..m : Pos(<<"zero", call, i>>)[2] \in W
    BY <2>3 DEF Pos, ZeroNames
  <2> HIDE DEF xs, W
  <2>6. \A i \in 1..n : xs[i][2] \in W
    BY <2>1, <2>4
  <2>7. \A i \in 1..m : xs[n + i][2] \in W
    BY <2>2, <2>5
  <2>8. \A i \in 1..Power[k] : i \in 1..n \/ (i - n \in 1..m /\ n + (i - n) = i)
    BY <2>3
  <2> QED BY <2>6, <2>7, <2>8, Zenon DEF On
<1>3. W \cap Own(at) = {}
  <2>1. \A v \in Own(at) : v[1] = "min" \/ v[1] = "max"
    BY DEF Own, Named
  <2>2. \A v \in W : v[1] = "x" \/ v[1] = "zero"
    BY DEF InputNames, ZeroNames
  <2> HIDE DEF W, at
  <2>3. ASSUME NEW v \in W, v \in Own(at) PROVE FALSE
    <3>1. v[1] = "min" \/ v[1] = "max"
      BY <2>1, <2>3, Zenon
    <3>2. v[1] = "x" \/ v[1] = "zero"
      BY <2>2, Zenon
    <3> QED BY <3>1, <3>2
  <2> QED BY <2>3
<1>4. (W \cup Own(at)) = InputNames \cup SorterNames(call)
  BY DEF SorterNames
<1> HIDE DEF k, at, xs, s, W
<1>5. /\ Circuit(SortOf(k, s).gates, Own(s.at))
      /\ In(SortOf(k, s).gates, W \cup Own(s.at))
      /\ On(SortOf(k, s).out, Power[k], Own(s.at)) /\ AllDiffer(SortOf(k, s).out, Power[k])
  BY <1>1, <1>2, <1>3, SortCircuit
<1>6. Net(call, n) = SortOf(k, s)
  BY DEF Net, s, at, xs, k
<1> QED BY <1>1, <1>4, <1>5, <1>6, Zenon DEF at, k

(* How many of the wires are true. *)
LEMMA InputsTrue ==
    ASSUME NEW T, NEW n \in Nat
    PROVE  Trues(T, Inputs(n), n) = Count(T, n)
<1> DEFINE xs == Inputs(n)
           S == {l \in 0..n : Trues(T, xs, l) = Count(T, l)}
<1>1. 0 \in S
  BY TruesNext, CountZero
<1>2. ASSUME NEW l \in 1..n, l - 1 \in S PROVE l \in S
  <2>1. l - 1 \in Nat /\ l \in 0..n /\ (l - 1) + 1 = l
    OBVIOUS
  <2>2. Trues(T, xs, (l - 1) + 1) = Trues(T, xs, l - 1) + (IF IsTrue(T, xs[(l - 1) + 1]) THEN 1 ELSE 0)
    <3> HIDE DEF xs
    <3> QED BY <2>1, TruesNext
  <2>3. IsTrue(T, xs[l]) <=> <<"x", l>> \in T
    BY InputLiterals, Zenon
  <2>4. Count(T, l) = Count(T, l - 1) + (IF <<"x", l>> \in T THEN 1 ELSE 0)
    BY <2>1, CountIs
  <2> HIDE DEF xs
  <2>5. Trues(T, xs, l - 1) = Count(T, l - 1)
    BY <1>2
  <2> QED BY <2>1, <2>2, <2>3, <2>4, <2>5
<1> HIDE DEF S
<1>3. \A l \in 0..n : l \in S
  BY <1>1, <1>2, UpTo
<1>4. n \in S
  BY <1>3
<1> QED BY <1>4 DEF S

LEMMA PaddedTrue ==
    ASSUME NEW n \in Nat \ {0}, NEW call \in Nat, NEW T, T \cap ZeroNames(call) = {}
    PROVE  Trues(T, Padded(call, n), Power[Radix(n)]) = Count(T, n)
<1> DEFINE m == Power[Radix(n)] - n
           xs == Padded(call, n)
           zs == Zeros(call, n)
<1>1. /\ m \in Nat /\ n + m = Power[Radix(n)]
      /\ \A i \in 1..n : xs[i] = Pos(<<"x", i>>)
      /\ \A i \in 1..m : xs[n + i] = zs[i] /\ zs[i] = Pos(<<"zero", call, i>>)
  <2>1. m \in Nat /\ Power[Radix(n)] \in Nat
    BY PaddedIs, PowerIs
  <2>2. /\ \A i \in 1..n : xs[i] = Pos(<<"x", i>>)
        /\ \A i \in 1..m : xs[n + i] = zs[i] /\ zs[i] = Pos(<<"zero", call, i>>)
    BY PaddedIs, Zenon
  <2> QED BY <2>1, <2>2
<1> HIDE DEF m, xs, zs
<1>2. Trues(T, xs, n + m) = Trues(T, xs, n) + Trues(T, zs, m)
  <2>1. n \in Nat /\ m \in Nat
    BY <1>1
  <2>2. \A i \in 1..m : IsTrue(T, zs[i]) <=> IsTrue(T, xs[n + i])
    BY <1>1, Zenon
  <2> QED BY <2>1, <2>2, TruesJoin
<1>3. Trues(T, xs, n) = Count(T, n)
  <2>1. \A i \in 1..n : xs[i] = Inputs(n)[i]
    BY <1>1, InputsLen
  <2>2. Trues(T, xs, n) = Trues(T, Inputs(n), n)
    BY <2>1, TruesSame
  <2> QED BY <2>2, InputsTrue
<1>4. Trues(T, zs, m) = 0
  <2> DEFINE S == {i \in 0..m : Trues(T, zs, i) = 0}
  <2>1. 0 \in S
    BY <1>1, TruesNext
  <2>2. ASSUME NEW i \in 1..m, i - 1 \in S PROVE i \in S
    <3>1. i - 1 \in Nat /\ i \in 0..m /\ (i - 1) + 1 = i /\ i \in Nat
      BY <1>1
    <3>2. Trues(T, zs, (i - 1) + 1) = Trues(T, zs, i - 1) + (IF IsTrue(T, zs[(i - 1) + 1]) THEN 1 ELSE 0)
      BY <3>1, TruesNext
    <3>3. <<"zero", call, i>> \in ZeroNames(call)
      BY <3>1 DEF ZeroNames
    <3>4. ~IsTrue(T, zs[i])
      BY <1>1, <3>3, TrueLiterals
    <3> QED BY <2>2, <3>1, <3>2, <3>4
  <2> HIDE DEF S
  <2>3. m \in S
    <3>1. m \in 0..m
      BY <1>1
    <3> QED BY <1>1, <2>1, <2>2, <3>1, UpTo
  <2> QED BY <2>3 DEF S
<1>5. Count(T, n) \in Nat
  BY CountIs
<1> QED BY <1>1, <1>2, <1>3, <1>4, <1>5 DEF xs

LEMMA UnitIs == \A T, a : Fulfils(T, {{Neg(a)}}) <=> ~IsTrue(T, a)
<1> SUFFICES ASSUME NEW T, NEW a PROVE Fulfils(T, {{Neg(a)}}) <=> ~IsTrue(T, a)
  OBVIOUS
<1>1. IsTrue(T, Neg(a)) <=> ~IsTrue(T, a)
  BY TrueLiterals
<1> QED BY <1>1 DEF Fulfils

(* The gates of a sorter, one after the other, are obeyed if its circuit is,*)
(* and its first outputs and its zeros are false.                           *)
LEMMA SorterObeys ==
    ASSUME NEW n \in Nat \ {0}, NEW call \in Nat, NEW tval \in 0..n, NEW T
    PROVE  Obeys(T, srt_gen_atmostN(call, Inputs(n), tval)) <=>
             /\ Obeys(T, Net(call, n).gates)
             /\ \A i \in 1..(Power[Radix(n)] - tval) : ~IsTrue(T, Net(call, n).out[i])
             /\ \A i \in 1..(Power[Radix(n)] - n) : <<"zero", call, i>> \notin T
<1> DEFINE P == Power[Radix(n)]
           g == Net(call, n).gates
           out == Net(call, n).out
           zs == Zeros(call, n)
           u == Limits(call, n, tval)
           z == Grounds(call, n)
           A == GateSet \cup {{{Neg(out[i])}} : i \in 1..(P - tval)} \cup {{{Neg(zs[i])}} : i \in 1..(P - n)}
<1>1. P - tval \in Nat /\ P - n \in Nat
  BY PaddedIs, PowerIs
<1>2. srt_gen_atmostN(call, Inputs(n), tval) = (g \o u) \o z
  BY SorterIs
<1>3. g \in Seq(A)
  <2>1. g \in Seq(GateSet) /\ GateSet \subseteq A
    BY NetIs
  <2> HIDE DEF g, A
  <2> QED BY <2>1
<1>4. u \in Seq(A) /\ DOMAIN u = 1..(P - tval) /\ \A i \in 1..(P - tval) : u[i] = {{Neg(out[i])}}
  <2>1. u = [i \in 1..(P - tval) |-> {{Neg(out[i])}}]
    BY Zenon DEF Limits
  <2>2. \A i \in 1..(P - tval) : {{Neg(out[i])}} \in A
    OBVIOUS
  <2> HIDE DEF u, A, out, P
  <2>3. u \in [1..(P - tval) -> A]
    BY <2>1, <2>2
  <2> QED BY <1>1, <2>1, <2>3, SeqFrom
<1>5. z \in Seq(A) /\ DOMAIN z = 1..(P - n) /\ \A i \in 1..(P - n) : z[i] = {{Neg(zs[i])}}
  <2>1. z = [i \in 1..(P - n) |-> {{Neg(zs[i])}}]
    BY Zenon DEF Grounds
  <2>2. \A i \in 1..(P - n) : {{Neg(zs[i])}} \in A
    OBVIOUS
  <2> HIDE DEF z, A, zs, P
  <2>3. z \in [1..(P - n) -> A]
    BY <2>1, <2>2
  <2> QED BY <1>1, <2>1, <2>3, SeqFrom
<1>6. \A i \in 1..(P - n) : zs[i] = Pos(<<"zero", call, i>>)
  BY PaddedIs, Zenon
<1> HIDE DEF P, g, out, zs, u, z, A
<1>7. Obeys(T, (g \o u) \o z) <=> Obeys(T, g) /\ Obeys(T, u) /\ Obeys(T, z)
  <2>1. g \o u \in Seq(A)
    BY <1>3, <1>4, ConcatIs
  <2>2. Obeys(T, (g \o u) \o z) <=> Obeys(T, g \o u) /\ Obeys(T, z)
    BY <1>5, <2>1, ObeysConcat
  <2>3. Obeys(T, g \o u) <=> Obeys(T, g) /\ Obeys(T, u)
    BY <1>3, <1>4, ObeysConcat
  <2> QED BY <2>2, <2>3
<1>8. Obeys(T, u) <=> \A i \in 1..(P - tval) : ~IsTrue(T, out[i])
  <2>1. \A i \in 1..(P - tval) : Fulfils(T, u[i]) <=> ~IsTrue(T, out[i])
    <3> TAKE i \in 1..(P - tval)
    <3>1. u[i] = {{Neg(out[i])}}
      BY <1>4
    <3>2. Fulfils(T, {{Neg(out[i])}}) <=> ~IsTrue(T, out[i])
      BY UnitIs, Zenon
    <3> QED BY <3>1, <3>2, Zenon
  <2> QED BY <1>4, <2>1, Zenon DEF Obeys
<1>9. Obeys(T, z) <=> \A i \in 1..(P - n) : <<"zero", call, i>> \notin T
  <2>1. \A i \in 1..(P - n) : Fulfils(T, z[i]) <=> <<"zero", call, i>> \notin T
    <3> TAKE i \in 1..(P - n)
    <3>1. z[i] = {{Neg(zs[i])}}
      BY <1>5
    <3>2. Fulfils(T, {{Neg(zs[i])}}) <=> ~IsTrue(T, zs[i])
      BY UnitIs, Zenon
    <3>3. IsTrue(T, zs[i]) <=> <<"zero", call, i>> \in T
      BY <1>6, TrueLiterals
    <3> QED BY <3>1, <3>2, <3>3, Zenon
  <2> QED BY <1>5, <2>1, Zenon DEF Obeys
<1> QED BY <1>2, <1>7, <1>8, <1>9 DEF P, g, out

(* A sorter says how many inputs are true, and does so in every assignment  *)
(* completed as its circuit wants.                                          *)
SorterTold(T, call, n) == T \cap ZeroNames(call) = {} /\ Obeys(T, Net(call, n).gates)

LEMMA SorterMost ==
    ASSUME NEW n \in Nat \ {0}, NEW call \in Nat, NEW tval \in 0..n, NEW T
    PROVE  /\ Obeys(T, srt_gen_atmostN(call, Inputs(n), tval)) => Count(T, n) <= tval
           /\ Count(T, n) <= tval /\ SorterTold(T, call, n)
                => Obeys(T, srt_gen_atmostN(call, Inputs(n), tval))
<1> DEFINE P == Power[Radix(n)]
           net == Net(call, n)
           xs == Padded(call, n)
           zero(i) == <<"zero", call, i>>
           c == Count(T, n)
           false == \A i \in 1..(P - tval) : ~IsTrue(T, net.out[i])
<1>1. /\ Obeys(T, srt_gen_atmostN(call, Inputs(n), tval)) <=>
            /\ Obeys(T, net.gates) /\ false
            /\ \A i \in 1..(P - n) : zero(i) \notin T
  BY SorterObeys
<1>2. P \in Nat /\ P > n /\ P - n \in Nat
  BY PaddedIs, PowerIs, RadixIs
<1>3. c \in Nat /\ c <= n
  BY CountIs, CountUpTo
<1> HIDE DEF c
<1>4. ASSUME Obeys(T, net.gates), Trues(T, xs, P) = c PROVE false <=> c <= tval
  <2>1. Sorted(T, net.out, P, Trues(T, xs, P))
    BY <1>4, NetIs, Zenon
  <2> HIDE DEF P, net, xs
  <2>2. \A i \in 1..P : IsTrue(T, net.out[i]) <=> i > P - c
    BY <1>4, <2>1 DEF Sorted
  <2>3. \A i \in 1..(P - tval) : i \in 1..P
    BY <1>2
  <2>4. ASSUME c <= tval PROVE false
    BY <1>2, <1>3, <2>2, <2>3, <2>4
  <2>5. ASSUME false PROVE c <= tval
    <3>1. P - tval \in 1..(P - tval) /\ P - tval \in 1..P
      BY <1>2
    <3>2. ~IsTrue(T, net.out[P - tval])
      BY <2>5, <3>1
    <3>3. ~(P - tval > P - c)
      BY <2>2, <3>1, <3>2
    <3> QED BY <1>2, <1>3, <3>3
  <2> QED BY <2>4, <2>5
<1>5. ASSUME \A i \in 1..(P - n) : zero(i) \notin T PROVE Trues(T, xs, P) = c
  <2> DEFINE T0 == T \ ZeroNames(call)
  <2>1. T0 \cap ZeroNames(call) = {}
    OBVIOUS
  <2> HIDE DEF T0
  <2>2. Trues(T0, xs, P) = Count(T0, n)
    BY <2>1, PaddedTrue
  <2>3. Count(T0, n) = c
    <3>1. \A v \in ZeroNames(call) : v \notin Xs(n)
      BY DEF ZeroNames, Xs
    <3>2. T0 \cap Xs(n) = T \cap Xs(n)
      BY <3>1 DEF T0
    <3> QED BY <3>2, Zenon DEF Count, c
  <2>4. \A i \in 1..P : IsTrue(T, xs[i]) <=> IsTrue(T0, xs[i])
    <3>1. \A i \in 1..n : xs[i] = Pos(<<"x", i>>)
      BY PaddedIs, Zenon
    <3>2. \A i \in 1..(P - n) : xs[n + i] = Pos(zero(i))
      <4>1. \A i \in 1..(P - n) : xs[n + i] = Zeros(call, n)[i] /\ Zeros(call, n)[i] = Pos(zero(i))
        BY PaddedIs, Zenon
      <4> QED BY <4>1, Zenon
    <3>3. \A i \in 1..n : <<"x", i>> \in T <=> <<"x", i>> \in T0
      <4>1. \A i : <<"x", i>> \notin ZeroNames(call)
        BY DEF ZeroNames
      <4> QED BY <4>1 DEF T0
    <3>4. \A i \in 1..(P - n) : zero(i) \notin T /\ zero(i) \notin T0
      BY <1>5 DEF T0
    <3>5. \A i \in 1..P : i \in 1..n \/ (i - n \in 1..(P - n) /\ n + (i - n) = i)
      BY <1>2
    <3> HIDE DEF P, xs, zero
    <3>6. \A i \in 1..n : IsTrue(T, xs[i]) <=> IsTrue(T0, xs[i])
      BY <3>1, <3>3, TrueLiterals
    <3>7. \A i \in 1..(P - n) : IsTrue(T, xs[n + i]) <=> IsTrue(T0, xs[n + i])
      BY <3>2, <3>4, TrueLiterals
    <3> QED BY <3>5, <3>6, <3>7, Zenon
  <2>5. Trues(T, xs, P) = Trues(T0, xs, P)
    <3> HIDE DEF P, xs, zero
    <3>1. \A i \in 1..P : i \in Nat /\ (i - 1) + 1 = i /\ i - 1 \in Nat
      BY <1>2
    <3> DEFINE S == {i \in 0..P : Trues(T, xs, i) = Trues(T0, xs, i)}
    <3>2. 0 \in S
      BY <1>2, TruesNext
    <3>3. ASSUME NEW i \in 1..P, i - 1 \in S PROVE i \in S
      <4>1. Trues(T, xs, (i - 1) + 1) = Trues(T, xs, i - 1) + (IF IsTrue(T, xs[(i - 1) + 1]) THEN 1 ELSE 0)
        BY <3>1, TruesNext
      <4>2. Trues(T0, xs, (i - 1) + 1) = Trues(T0, xs, i - 1) + (IF IsTrue(T0, xs[(i - 1) + 1]) THEN 1 ELSE 0)
        BY <3>1, TruesNext
      <4> QED BY <2>4, <3>1, <3>3, <4>1, <4>2
    <3> HIDE DEF S
    <3>4. P \in S
      <4>1. P \in 0..P
        BY <1>2
      <4> QED BY <1>2, <3>2, <3>3, <4>1, UpTo
    <3> QED BY <3>4 DEF S
  <2> QED BY <2>2, <2>3, <2>5
<1>6. SorterTold(T, call, n) => Obeys(T, net.gates) /\ \A i \in 1..(P - n) : zero(i) \notin T
  <2>1. \A i \in 1..(P - n) : zero(i) \in ZeroNames(call)
    BY <1>2 DEF ZeroNames
  <2> HIDE DEF P, zero
  <2> QED BY <2>1 DEF SorterTold
<1> HIDE DEF false, P, net, zero, xs
<1> QED BY <1>1, <1>4, <1>5, <1>6 DEF c

-----------------------------------------------------------------------------
(* There is such an assignment for any other variables; and what a sorter   *)
(* says in an assignment only depends on the inputs and its own variables.  *)
LEMMA SorterCompletes ==
    ASSUME NEW n \in Nat \ {0}, NEW call \in Nat, NEW T, T \cap ZeroNames(call) = {}
    PROVE  \E T2 : (\A v : v \notin Own(Root(call)) => (v \in T2 <=> v \in T)) /\ SorterTold(T2, call, n)
<1> DEFINE g == Net(call, n).gates
           V == Own(Root(call))
<1>1. g \in Seq(GateSet) /\ Circuit(g, V)
  BY NetIs, NetCircuit
<1>2. V \cap ZeroNames(call) = {}
  <2>1. \A v \in V : v[1] = "min" \/ v[1] = "max"
    BY DEF Own, Named
  <2>2. \A v \in ZeroNames(call) : v[1] = "zero"
    BY DEF ZeroNames
  <2>3. ASSUME NEW v \in V, v \in ZeroNames(call) PROVE FALSE
    <3>1. v[1] = "min" \/ v[1] = "max"
      BY <2>1, <2>3, Zenon
    <3> QED BY <2>2, <2>3, <3>1
  <2> QED BY <2>3
<1> HIDE DEF g, V
<1>3. PICK T2 : (\A v : v \notin V => (v \in T2 <=> v \in T)) /\ Obeys(T2, g)
  BY <1>1, CircuitExtends
<1>4. T2 \cap ZeroNames(call) = {}
  BY <1>2, <1>3
<1> QED BY <1>3, <1>4, Zenon DEF SorterTold, g, V

LEMMA SorterLooks ==
    ASSUME NEW n \in Nat \ {0}, NEW call \in Nat, NEW T, NEW T2,
           \A v \in InputNames \cup SorterNames(call) : v \in T <=> v \in T2,
           SorterTold(T, call, n)
    PROVE  SorterTold(T2, call, n)
<1> DEFINE g == Net(call, n).gates
           W == InputNames \cup SorterNames(call)
<1>1. In(g, W)
  BY NetCircuit
<1>2. ZeroNames(call) \subseteq W
  BY DEF SorterNames
<1>3. Obeys(T, g) /\ T \cap ZeroNames(call) = {}
  BY DEF SorterTold
<1>4. \A v \in W : v \in T <=> v \in T2
  OBVIOUS
<1> HIDE DEF g, W
<1>5. T2 \cap ZeroNames(call) = {}
  BY <1>2, <1>3, <1>4
<1>6. Obeys(T2, g)
  <2> SUFFICES ASSUME NEW i \in DOMAIN g PROVE Fulfils(T2, g[i])
    BY DEF Obeys
  <2>1. Fulfils(T, g[i])
    BY <1>3 DEF Obeys
  <2>2. \A v \in GateVars(g[i]) : v \in T <=> v \in T2
    BY <1>1, <1>4 DEF In
  <2> QED BY <2>1, <2>2, FulfilsSame
<1> QED BY <1>5, <1>6 DEF SorterTold, g

(* Gates that follow others without sharing a clause with them. *)
LEMMA ApartConcat ==
    ASSUME NEW A, NEW s \in Seq(A), NEW t \in Seq(A), NEW names,
           Private(s, names), Private(t, names), Apart(s), Apart(t),
           \A i \in DOMAIN s : \A j \in DOMAIN t : s[i] \cap t[j] = {}
    PROVE  Private(s \o t, names) /\ Apart(s \o t)
<1> DEFINE m == Len(s)
           n == Len(t)
           g == s \o t
<1>1. /\ m \in Nat /\ n \in Nat /\ DOMAIN s = 1..m /\ DOMAIN t = 1..n /\ DOMAIN g = 1..(m + n)
      /\ \A i \in 1..m : g[i] = s[i]
      /\ \A i \in 1..n : g[m + i] = t[i]
  BY ConcatProperties
<1> HIDE DEF m, n, g
<1>2. \A i \in DOMAIN g : i \in DOMAIN s \/ (i - m \in DOMAIN t /\ i = m + (i - m))
  BY <1>1
<1>3. \A i \in DOMAIN g : \/ i \in DOMAIN s /\ g[i] = s[i]
                          \/ i - m \in DOMAIN t /\ g[i] = t[i - m]
  BY <1>1, <1>2, Zenon
<1>4. Private(g, names)
  <2> SUFFICES ASSUME NEW i \in DOMAIN g, NEW c \in g[i], Auxiliary(c)
               PROVE  /\ \E l \in c : l[2] \in names
                      /\ \A l \in c : l[2][1] = "x" \/ l[2] \in names
    BY DEF Private
  <2>1. CASE i \in DOMAIN s /\ g[i] = s[i]
    <3>1. c \in s[i]
      BY <2>1
    <3> QED BY <2>1, <3>1, Zenon DEF Private
  <2>2. CASE i - m \in DOMAIN t /\ g[i] = t[i - m]
    <3>1. c \in t[i - m]
      BY <2>2
    <3> QED BY <2>2, <3>1, Zenon DEF Private
  <2> QED BY <1>3, <2>1, <2>2, Zenon
<1>5. Apart(g)
  <2> SUFFICES ASSUME NEW i \in DOMAIN g, NEW j \in DOMAIN g, i # j,
                      NEW c \in g[i], c \in g[j], Auxiliary(c)
               PROVE  FALSE
    BY DEF Apart
  <2>1. CASE i \in DOMAIN s /\ g[i] = s[i] /\ j \in DOMAIN s /\ g[j] = s[j]
    <3>1. c \in s[i] \cap s[j]
      BY <2>1
    <3> QED BY <2>1, <3>1, Zenon DEF Apart
  <2>2. CASE i - m \in DOMAIN t /\ g[i] = t[i - m] /\ j - m \in DOMAIN t /\ g[j] = t[j - m]
    <3>1. c \in t[i - m] \cap t[j - m] /\ i - m # j - m
      BY <1>1, <2>2
    <3> QED BY <2>2, <3>1, Zenon DEF Apart
  <2>3. CASE i \in DOMAIN s /\ g[i] = s[i] /\ j - m \in DOMAIN t /\ g[j] = t[j - m]
    BY <2>3
  <2>4. CASE i - m \in DOMAIN t /\ g[i] = t[i - m] /\ j \in DOMAIN s /\ g[j] = s[j]
    BY <2>4
  <2> QED BY <1>3, <2>1, <2>2, <2>3, <2>4, Zenon
<1> QED BY <1>4, <1>5 DEF g

(* Units on different variables. *)
Units(gates, ls, d, names) ==
    /\ DOMAIN gates = 1..d
    /\ \A i \in 1..d : gates[i] = {{Neg(ls[i])}} /\ ls[i][2] \in names
    /\ \A i, j \in 1..d : i # j => ls[i][2] # ls[j][2]

LEMMA UnitsApart ==
    ASSUME NEW d, NEW ls, NEW gates, NEW names, Units(gates, ls, d, names)
    PROVE  Private(gates, names) /\ Apart(gates)
<1>1. \A l : Neg(l)[2] = l[2]
  BY DEF Neg
<1>2. /\ DOMAIN gates = 1..d
      /\ \A i \in 1..d : gates[i] = {{Neg(ls[i])}} /\ ls[i][2] \in names
      /\ \A i, j \in 1..d : i # j => ls[i][2] # ls[j][2]
  BY DEF Units
<1>3. \A i \in 1..d : \A c \in gates[i] : c = {Neg(ls[i])} /\ \A l \in c : l[2] = ls[i][2]
  BY <1>1, <1>2
<1>4. Private(gates, names)
  BY <1>1, <1>2 DEF Private
<1>5. Apart(gates)
  <2> SUFFICES ASSUME NEW i \in 1..d, NEW j \in 1..d, i # j, NEW c \in gates[i], c \in gates[j]
               PROVE  FALSE
    BY <1>2 DEF Apart
  <2>1. Neg(ls[i]) \in c /\ Neg(ls[i])[2] = ls[i][2]
    BY <1>1, <1>3
  <2>2. \A l \in c : l[2] = ls[j][2]
    BY <1>3
  <2>3. ls[i][2] = ls[j][2]
    BY <2>1, <2>2
  <2> QED BY <1>2, <2>3
<1> QED BY <1>4, <1>5

(* The clauses of a sorter are on its own variables, and no two of its      *)
(* gates share one.                                                         *)
LEMMA SorterApart ==
    ASSUME NEW n \in Nat \ {0}, NEW call \in Nat, NEW tval \in 0..n
    PROVE  /\ Private(srt_gen_atmostN(call, Inputs(n), tval), SorterNames(call))
           /\ Apart(srt_gen_atmostN(call, Inputs(n), tval))
<1> DEFINE P == Power[Radix(n)]
           g == Net(call, n).gates
           out == Net(call, n).out
           zs == Zeros(call, n)
           u == Limits(call, n, tval)
           z == Grounds(call, n)
           V == Own(Root(call))
           names == SorterNames(call)
           A == GateSet \cup {{{Neg(out[i])}} : i \in 1..(P - tval)} \cup {{{Neg(zs[i])}} : i \in 1..(P - n)}
<1>1. P - tval \in Nat /\ P - n \in Nat /\ P \in Nat
  BY PaddedIs, PowerIs
<1>2. srt_gen_atmostN(call, Inputs(n), tval) = (g \o u) \o z
  BY SorterIs
<1>3. g \in Seq(A)
  <2>1. g \in Seq(GateSet) /\ GateSet \subseteq A
    BY NetIs
  <2> HIDE DEF g, A
  <2> QED BY <2>1
<1>4. u \in Seq(A) /\ Len(u) = P - tval /\ \A i \in 1..(P - tval) : u[i] = {{Neg(out[i])}}
  <2>1. u = [i \in 1..(P - tval) |-> {{Neg(out[i])}}]
    BY Zenon DEF Limits
  <2>2. \A i \in 1..(P - tval) : {{Neg(out[i])}} \in A
    OBVIOUS
  <2> HIDE DEF u, A, out, P
  <2>3. u \in [1..(P - tval) -> A]
    BY <2>1, <2>2
  <2> QED BY <1>1, <2>1, <2>3, SeqFrom
<1>5. z \in Seq(A) /\ Len(z) = P - n /\ \A i \in 1..(P - n) : z[i] = {{Neg(zs[i])}}
  <2>1. z = [i \in 1..(P - n) |-> {{Neg(zs[i])}}]
    BY Zenon DEF Grounds
  <2>2. \A i \in 1..(P - n) : {{Neg(zs[i])}} \in A
    OBVIOUS
  <2> HIDE DEF z, A, zs, P
  <2>3. z \in [1..(P - n) -> A]
    BY <2>1, <2>2
  <2> QED BY <1>1, <2>1, <2>3, SeqFrom
<1>6. \A i \in 1..(P - n) : zs[i][2] = <<"zero", call, i>>
  <2>1. \A i \in 1..(P - n) : zs[i] = Pos(<<"zero", call, i>>)
    BY PaddedIs, Zenon
  <2>2. \A v : Pos(v)[2] = v
    BY DEF Pos
  <2> HIDE DEF zs, P
  <2> QED BY <2>1, <2>2
<1>7. /\ Circuit(g, V) /\ In(g, InputNames \cup names)
      /\ On(out, P, V) /\ AllDiffer(out, P)
  BY NetCircuit
<1>8. /\ V \subseteq names
      /\ \A i \in 1..(P - n) : <<"zero", call, i>> \in names
  <2>1. \A i \in 1..(P - n) : i \in Nat
    BY <1>1
  <2> HIDE DEF P
  <2> QED BY <2>1 DEF SorterNames, ZeroNames
<1>9. \A v \in V : v[1] \in {"min", "max"}
  BY DEF Own, Named
<1>10. \A v \in InputNames : v[1] = "x"
  BY DEF InputNames
<1> HIDE DEF P, g, out, zs, u, z, A, V, names
<1>11. Private(g, names) /\ Apart(g)
  <2>1. /\ \A i, j \in DOMAIN g : i # j => g[i] \cap g[j] = {}
        /\ \A i \in DOMAIN g : \A c \in g[i] : \E l \in c : l[2] \in V
    BY <1>3, <1>7, CircuitApart
  <2>2. \A i \in DOMAIN g : \A c \in g[i] : \A l \in c : l[2][1] = "x" \/ l[2] \in names
    <3> SUFFICES ASSUME NEW i \in DOMAIN g, NEW c \in g[i], NEW l \in c
                 PROVE  l[2][1] = "x" \/ l[2] \in names
      OBVIOUS
    <3>1. l[2] \in GateVars(g[i])
      BY DEF GateVars
    <3>2. l[2] \in InputNames \cup names
      BY <1>7, <3>1 DEF In
    <3> QED BY <1>10, <3>2
  <2>3. Private(g, names)
    BY <1>8, <2>1, <2>2 DEF Private
  <2> QED BY <2>1, <2>3 DEF Apart
<1>12. Private(u, names) /\ Apart(u)
  <2>1. \A i \in 1..(P - tval) : i \in 1..P
    BY <1>1
  <2>2. \A i \in 1..(P - tval) : out[i][2] \in names
    BY <1>7, <1>8, <2>1 DEF On
  <2>3. \A i, j \in 1..(P - tval) : i # j => out[i][2] # out[j][2]
    BY <1>7, <2>1, Zenon DEF AllDiffer
  <2>4. \A i \in 1..(P - tval) : u[i] = {{Neg(out[i])}} /\ out[i][2] \in names
    BY <1>4, <2>2, Zenon
  <2>5. DOMAIN u = 1..(P - tval)
    BY <1>4
  <2>6. Units(u, out, P - tval, names)
    BY <2>3, <2>4, <2>5 DEF Units
  <2> QED BY <2>6, UnitsApart
<1>13. Private(z, names) /\ Apart(z)
  <2>1. \A i \in 1..(P - n) : zs[i][2] \in names
    BY <1>6, <1>8
  <2>2. \A i, j \in 1..(P - n) : i # j => zs[i][2] # zs[j][2]
    BY <1>6
  <2>3. \A i \in 1..(P - n) : z[i] = {{Neg(zs[i])}} /\ zs[i][2] \in names
    BY <1>5, <2>1, Zenon
  <2>4. DOMAIN z = 1..(P - n)
    BY <1>5
  <2>5. Units(z, zs, P - n, names)
    BY <2>2, <2>3, <2>4 DEF Units
  <2> QED BY <2>5, UnitsApart
<1>14. \A i \in DOMAIN g : \A c \in g[i] : \A l : c # {l}
  BY <1>3, <1>7, CircuitApart
<1>15. (g \o u) \in Seq(A) /\ Private(g \o u, names) /\ Apart(g \o u)
  <2>1. \A i \in DOMAIN g : \A j \in DOMAIN u : g[i] \cap u[j] = {}
    <3>1. \A j \in DOMAIN u : \A c \in u[j] : \E l : c = {l}
      <4>1. DOMAIN u = 1..(P - tval)
        BY <1>4
      <4> QED BY <1>4, <4>1
    <3> QED BY <1>14, <3>1
  <2>2. (g \o u) \in Seq(A)
    BY <1>3, <1>4, ConcatIs
  <2> QED BY <1>3, <1>4, <1>11, <1>12, <2>1, <2>2, ApartConcat
<1>16. \A i \in DOMAIN (g \o u) : \A j \in DOMAIN z : (g \o u)[i] \cap z[j] = {}
  <2>1. ASSUME NEW j \in 1..(P - n), NEW c \in z[j]
        PROVE  c = {Neg(zs[j])} /\ Neg(zs[j])[2] = <<"zero", call, j>>
    BY <1>5, <1>6, <2>1 DEF Neg
  <2>2. \A i \in DOMAIN (g \o u) : (i \in DOMAIN g /\ (g \o u)[i] = g[i]) \/ \E k \in 1..(P - tval) : (g \o u)[i] = u[k]
    <3>1. /\ Len(g) \in Nat /\ Len(u) \in Nat /\ Len(g \o u) = Len(g) + Len(u)
          /\ \A p \in 1..Len(g) : (g \o u)[p] = g[p]
          /\ \A p \in 1..Len(u) : (g \o u)[Len(g) + p] = u[p]
      <4>1. g \in Seq(A) /\ u \in Seq(A)
        BY <1>3, <1>4
      <4> QED BY <4>1, ConcatIs
    <3>2. DOMAIN (g \o u) = 1..(Len(g) + Len(u)) /\ DOMAIN g = 1..Len(g)
      BY <1>3, <1>15, <3>1
    <3>3. \A i \in DOMAIN (g \o u) : i \in 1..Len(g) \/ (i - Len(g) \in 1..Len(u) /\ i = Len(g) + (i - Len(g)))
      BY <3>1, <3>2
    <3>4. Len(u) = P - tval
      BY <1>4
    <3>5. \A i \in 1..Len(g) : i \in DOMAIN g /\ (g \o u)[i] = g[i]
      BY <3>1, <3>2
    <3>6. \A i \in 1..Len(u) : i \in 1..(P - tval) /\ (g \o u)[Len(g) + i] = u[i]
      BY <3>1, <3>4
    <3> QED BY <3>3, <3>5, <3>6, Zenon
  <2> SUFFICES ASSUME NEW i \in DOMAIN (g \o u), NEW j \in DOMAIN z, NEW c \in (g \o u)[i], c \in z[j]
               PROVE  FALSE
    OBVIOUS
  <2>3. j \in 1..(P - n)
    BY <1>5
  <2>4. c = {Neg(zs[j])} /\ Neg(zs[j])[2] = <<"zero", call, j>>
    BY <2>1, <2>3
  <2>5. CASE i \in DOMAIN g /\ (g \o u)[i] = g[i]
    <3>1. c \in g[i]
      BY <2>5
    <3> QED BY <1>14, <2>4, <2>5, <3>1, Zenon
  <2>6. ASSUME NEW k \in 1..(P - tval), (g \o u)[i] = u[k] PROVE FALSE
    <3>1. c = {Neg(out[k])}
      BY <1>4, <2>6
    <3>2. Neg(out[k])[2] = <<"zero", call, j>>
      <4>1. Neg(out[k]) \in {Neg(zs[j])}
        BY <2>4, <3>1
      <4> QED BY <2>4, <4>1
    <3>3. out[k][2] = <<"zero", call, j>>
      BY <3>2 DEF Neg
    <3>4. k \in 1..P
      BY <1>1
    <3>5. out[k][2] \in V
      BY <1>7, <3>4 DEF On
    <3>6. out[k][2][1] \in {"min", "max"}
      BY <1>9, <3>5
    <3> QED BY <3>3, <3>6
  <2> QED BY <2>2, <2>5, <2>6, Zenon
<1>17. Private((g \o u) \o z, names) /\ Apart((g \o u) \o z)
  BY <1>5, <1>13, <1>15, <1>16, ApartConcat
<1> QED BY <1>2, <1>17 DEF names

(* What a sorter generates is finite. *)
LEMMA SorterTidy ==
    ASSUME NEW n \in Nat \ {0}, NEW call \in Nat, NEW tval \in 0..n
    PROVE  srt_gen_atmostN(call, Inputs(n), tval) \in Seq(TidyGates)
<1> DEFINE P == Power[Radix(n)]
           g == Net(call, n).gates
           out == Net(call, n).out
           zs == Zeros(call, n)
           u == Limits(call, n, tval)
           z == Grounds(call, n)
           V == Own(Root(call))
<1>1. P - tval \in Nat /\ P - n \in Nat /\ P \in Nat /\ \A i \in 1..(P - tval) : i \in 1..P
  BY PaddedIs, PowerIs
<1>2. srt_gen_atmostN(call, Inputs(n), tval) = (g \o u) \o z
  BY SorterIs
<1>3. g \in Seq(GateSet) /\ \A i \in 1..P : out[i] \in Wires
  <2>1. Net(call, n) \in Nets(P) /\ g \in Seq(GateSet)
    BY NetIs
  <2> HIDE DEF P
  <2> QED BY <2>1 DEF Nets
<1>4. /\ u = [i \in 1..(P - tval) |-> {{Neg(out[i])}}]
      /\ z = [i \in 1..(P - n) |-> {{Neg(zs[i])}}]
  BY Zenon DEF Limits, Grounds
<1>5. Circuit(g, V)
  BY NetCircuit
<1>6. \A w \in Wires : w \in Literals
  <2> TAKE w \in Wires
  <2>1. w = Pos(w[2])
    BY LitsAre
  <2> DEFINE A == {x[2] : x \in Wires}
             B == {Y(k, l, p) : k \in Nat, l \in Int, p \in Int} \cup {Id(c, j) : c \in Nat, j \in Int}
  <2>3. w[2] \in A
    OBVIOUS
  <2>4. Variables = A \cup B
    BY DEF Variables
  <2>2. w[2] \in Variables
    <3> HIDE DEF A, B
    <3> QED BY <2>3, <2>4
  <2> HIDE DEF A, B
  <2> QED BY <2>1, <2>2, LiteralsAre
<1>7. \A v \in V : Pos(v) \in Literals
  <2> TAKE v \in V
  <2>1. PICK p \in Seq(Moves), i \in Nat : v = <<"min", call, p, i>> \/ v = <<"max", call, p, i>>
    BY DEF Own, Named, Under, Root
  <2>2. v \in {"min", "max"} \X Nat \X Seq(Moves) \X Nat
    BY <2>1
  <2>3. \A q \in {"min", "max"} \X Nat \X Seq(Moves) \X Nat : <<TRUE, q>> \in Wires
    BY DEF Wires
  <2>4. Pos(v) \in Wires
    BY <2>2, <2>3, Zenon DEF Pos
  <2> QED BY <1>6, <2>4
<1>8. \A i \in 1..(P - n) : zs[i] \in Literals
  <2> TAKE i \in 1..(P - n)
  <2>1. zs[i] = Pos(<<"zero", call, i>>)
    BY PaddedIs, Zenon
  <2>2. i \in Nat
    BY <1>1
  <2>3. Pos(<<"zero", call, i>>) \in Wires
    <3>1. <<"zero", call, i>> \in {"zero"} \X Nat \X Nat
      BY <2>2
    <3>2. \A q \in {"zero"} \X Nat \X Nat : <<TRUE, q>> \in Wires
      BY DEF Wires
    <3> QED BY <3>1, <3>2, Zenon DEF Pos
  <2> HIDE DEF zs
  <2> QED BY <1>6, <2>1, <2>3
<1> HIDE DEF P, g, out, zs, u, z, V
<1>9. ASSUME NEW w \in Literals PROVE {{Neg(w)}} \in TidyGates
  <2>1. \A e \in {{Neg(w)}} : e \subseteq Both(w, w, w, w)
    BY DEF Both
  <2> QED BY <2>1, GateTidy
<1>10. g \in Seq(TidyGates)
  <2>1. ASSUME NEW i \in DOMAIN g PROVE g[i] \in TidyGates
    <3>1. PICK a \in V, b \in V : Adds(g, i, a, b)
      BY <1>5, Zenon DEF Circuit
    <3>2. PICK x \in Wires, y \in Wires : g[i] = gen_comparator(Pos(a), Pos(b), x, y)
      BY <3>1, Zenon DEF Adds
    <3> DEFINE o == Pos(a)
               q == Pos(b)
    <3>3. o \in Literals /\ q \in Literals /\ x \in Literals /\ y \in Literals
      BY <1>6, <1>7
    <3> HIDE DEF o, q
    <3>4. \A e \in gen_comparator(o, q, x, y) : e \subseteq Both(o, q, x, y)
      BY DEF gen_comparator, gen_and, gen_or, Both
    <3>5. gen_comparator(o, q, x, y) \in TidyGates
      BY <3>3, <3>4, GateTidy
    <3> QED BY <3>2, <3>5 DEF o, q
  <2> QED BY <1>3, <2>1, SeqWithin
<1>11. u \in Seq(TidyGates)
  <2>1. \A i \in 1..(P - tval) : {{Neg(out[i])}} \in TidyGates
    BY <1>1, <1>3, <1>6, <1>9
  <2>2. u \in [1..(P - tval) -> TidyGates]
    BY <1>4, <2>1
  <2> QED BY <1>1, <2>2, SeqFrom
<1>12. z \in Seq(TidyGates)
  <2>1. \A i \in 1..(P - n) : {{Neg(zs[i])}} \in TidyGates
    BY <1>8, <1>9
  <2>2. z \in [1..(P - n) -> TidyGates]
    BY <1>4, <2>1
  <2> QED BY <1>1, <2>2, SeqFrom
<1>13. (g \o u) \o z \in Seq(TidyGates)
  <2>1. g \o u \in Seq(TidyGates)
    BY <1>10, <1>11, ConcatIs
  <2> QED BY <1>12, <2>1, ConcatIs
<1> QED BY <1>2, <1>13

-----------------------------------------------------------------------------
(* What a request is, and what becomes of it. *)
Requests == {r \in [enc : Encodings, op : {"atmost", "atleast"}, n : Nat \ {0}, rhs : Nat,
                    k : Nat, call : Nat] : r.rhs <= r.n}

WantsSorter(r) == r.enc = "s" /\ r.op = "atmost" /\ ~IsSmall(Inputs(r.n), r.rhs)

MadeFor(r) == IF r.op = "atmost" THEN gen_card_constraint(r.enc, r.k, r.call, Inputs(r.n), r.rhs)
                                 ELSE gen_extra_card_constraint(r.enc, r.k, Inputs(r.n), r.rhs)

NodesTold(T, r) == IF r.op = "atmost" THEN MostTold(T, r.k, r.n, r.rhs)
                                      ELSE LeastTold(T, r.k, r.n, r.rhs)

(* The program refuses exactly the requests counted as refused (Refuses). *)
LEMMA RefusedDie ==
    ASSUME NEW r \in Requests
    PROVE  MadeFor(r).dies <=> Refuses(r)
<1>1. /\ r.enc \in {"a", "b", "i", "c", "e", "s"} /\ r.n \in Nat \ {0} /\ r.rhs \in 0..r.n
      /\ r.op \in {"atmost", "atleast"}
  BY DEF Requests, Encodings
<1>2. Len(Inputs(r.n)) = r.n
  BY <1>1, InputsLen
<1>3. \A g, c : Made(g, c).dies = FALSE /\ Dies.dies = TRUE
  BY DEF Made, Dies
<1>4. SmallAtMost(Inputs(r.n), r.rhs).dies = FALSE
  BY <1>3, Zenon DEF SmallAtMost
<1>5. CASE r.op = "atmost"
  <2> DEFINE m == gen_card_constraint(r.enc, r.k, r.call, Inputs(r.n), r.rhs)
  <2>0. MadeFor(r) = m /\ (Refuses(r) <=> NoAtMost(r.enc, r.n, r.rhs))
    BY <1>5 DEF MadeFor, Refuses
  <2>1. CASE r.enc = "a"
    <3>1. m = Dies
      BY <2>1 DEF gen_card_constraint
    <3> QED BY <1>3, <2>0, <2>1, <3>1 DEF NoAtMost
  <2>2. CASE r.enc = "e"
    <3>1. m = IF r.rhs > 1 THEN Dies ELSE Made(pw_gen_atmost1(Inputs(r.n)), 0)
      BY <2>2 DEF gen_card_constraint
    <3> QED BY <1>1, <1>3, <2>0, <2>2, <3>1 DEF NoAtMost
  <2>3. CASE r.enc = "c" /\ r.rhs <= 1
    <3>1. m = Made(sc_gen_atmost1(r.call, Inputs(r.n)), 0)
      BY <1>1, <2>3 DEF gen_card_constraint
    <3> QED BY <1>1, <1>3, <2>0, <2>3, <3>1 DEF NoAtMost
  <2>4. CASE r.enc = "c" /\ r.rhs > 1
    <3>1. m = IF IsSmall(Inputs(r.n), r.rhs) THEN SmallAtMost(Inputs(r.n), r.rhs) ELSE Dies
      BY <1>1, <2>4 DEF gen_card_constraint
    <3> QED BY <1>1, <1>2, <1>3, <1>4, <2>0, <2>4, <3>1 DEF NoAtMost, IsSmall
  <2>5. CASE r.enc \in {"b", "i", "s"} /\ IsSmall(Inputs(r.n), r.rhs)
    <3>1. m = SmallAtMost(Inputs(r.n), r.rhs)
      BY <1>1, <2>5 DEF gen_card_constraint
    <3> QED BY <1>1, <1>4, <2>0, <2>5, <3>1 DEF NoAtMost
  <2>6. CASE r.enc = "b" /\ ~IsSmall(Inputs(r.n), r.rhs)
    <3>1. m = Made(bdd_gen_atmostN(r.k, Inputs(r.n), r.rhs), 1)
      BY <1>1, <2>6 DEF gen_card_constraint
    <3> QED BY <1>1, <1>3, <2>0, <2>6, <3>1 DEF NoAtMost
  <2>7. CASE r.enc = "i" /\ ~IsSmall(Inputs(r.n), r.rhs)
    <3>1. m = Made(bdd_atmostN_implic(r.k, Inputs(r.n), r.rhs), 1)
      BY <1>1, <2>7 DEF gen_card_constraint
    <3> QED BY <1>1, <1>3, <2>0, <2>7, <3>1 DEF NoAtMost
  <2>8. CASE r.enc = "s" /\ ~IsSmall(Inputs(r.n), r.rhs)
    <3>1. m = Made(srt_gen_atmostN(r.call, Inputs(r.n), r.rhs), Power[Radix(Len(Inputs(r.n)))] - r.rhs)
      BY <1>1, <2>8 DEF gen_card_constraint
    <3> QED BY <1>1, <1>3, <2>0, <2>8, <3>1 DEF NoAtMost
  <2>9. r.rhs <= 1 \/ r.rhs > 1
    BY <1>1
  <2> QED BY <1>1, <1>5, <2>1, <2>2, <2>3, <2>4, <2>5, <2>6, <2>7, <2>8, <2>9, Zenon
<1>6. CASE r.op = "atleast"
  <2> DEFINE m == gen_extra_card_constraint(r.enc, r.k, Inputs(r.n), r.rhs)
  <2>0. MadeFor(r) = m /\ (Refuses(r) <=> NoAtLeast(r.enc, r.rhs))
    BY <1>6 DEF MadeFor, Refuses
  <2>1. CASE r.enc = "a"
    <3>1. m = Dies
      BY <2>1 DEF gen_extra_card_constraint
    <3> QED BY <1>3, <2>0, <2>1, <3>1 DEF NoAtLeast
  <2>2. CASE r.enc \in {"c", "e"}
    <3>1. m = IF r.rhs > 1 THEN Dies ELSE Made(gen_ge1(Inputs(r.n)), 0)
      BY <2>2 DEF gen_extra_card_constraint
    <3> QED BY <1>1, <1>3, <2>0, <2>2, <3>1 DEF NoAtLeast
  <2>3. CASE r.enc = "s"
    <3>1. m = IF r.rhs = 1 THEN Made(gen_ge1(Inputs(r.n)), 0) ELSE Dies
      BY <2>3 DEF gen_extra_card_constraint
    <3> QED BY <1>1, <1>3, <2>0, <2>3, <3>1 DEF NoAtLeast
  <2>4. CASE r.enc \in {"b", "i"}
    <3>0. ~NoAtLeast(r.enc, r.rhs)
      BY <2>4 DEF NoAtLeast
    <3>1. CASE r.rhs <= 0
      <4>1. m = Made(<<>>, 0)
        BY <1>1, <2>4, <3>1 DEF gen_extra_card_constraint
      <4> QED BY <1>3, <2>0, <3>0, <4>1
    <3>2. CASE r.rhs = 1
      <4>1. m = Made(gen_ge1(Inputs(r.n)), 0)
        BY <1>1, <2>4, <3>2 DEF gen_extra_card_constraint
      <4> QED BY <1>3, <2>0, <3>0, <4>1
    <3>3. CASE r.rhs > 1 /\ r.rhs = r.n
      <4>1. m = Made(gen_geN(Inputs(r.n)), 0)
        BY <1>1, <1>2, <2>4, <3>3 DEF gen_extra_card_constraint
      <4> QED BY <1>3, <2>0, <3>0, <4>1
    <3>4. CASE r.rhs > 1 /\ r.rhs # r.n
      <4>1. m = Made(bdd_gen_atleastN(r.k, Inputs(r.n), r.rhs), 1)
        BY <1>1, <1>2, <2>4, <3>4 DEF gen_extra_card_constraint
      <4> QED BY <1>3, <2>0, <3>0, <4>1
    <3> QED BY <1>1, <3>1, <3>2, <3>3, <3>4
  <2> QED BY <1>1, <2>1, <2>2, <2>3, <2>4
<1> QED BY <1>1, <1>5, <1>6

LEMMA MeetsCount ==
    ASSUME NEW T, NEW r \in Requests
    PROVE  Meets(T, Contract(r)) <=>
             IF r.op = "atmost"
               THEN Count(T, r.n) <= (IF r.enc \in {"c", "e"} /\ r.rhs < 1 THEN 1 ELSE r.rhs)
               ELSE Count(T, r.n) >= (IF r.enc \in {"c", "e"} /\ r.rhs < 1 THEN 1 ELSE r.rhs)
<1> DEFINE b == IF r.enc \in {"c", "e"} /\ r.rhs < 1 THEN 1 ELSE r.rhs
<1>1. Contract(r) = IF r.op = "atmost" THEN AtMost(Xs(r.n), b) ELSE AtLeast(Xs(r.n), b)
  BY Zenon DEF Contract, EncodedAtMost, EncodedAtLeast, Xs
<1> HIDE DEF b
<1>2. CASE r.op = "atmost"
  <2>1. Contract(r) = [op |-> "atmost", vs |-> Xs(r.n), rhs |-> b]
    BY <1>1, <1>2, Zenon DEF AtMost
  <2>2. Meets(T, Contract(r)) <=> Cardinality(T \cap Xs(r.n)) <= b
    BY <2>1 DEF Meets
  <2> QED BY <1>2, <2>2 DEF Count, b
<1>3. CASE r.op # "atmost"
  <2>1. Contract(r) = [op |-> "atleast", vs |-> Xs(r.n), rhs |-> b]
    BY <1>1, <1>3, Zenon DEF AtLeast
  <2>2. Meets(T, Contract(r)) <=> Cardinality(T \cap Xs(r.n)) >= b
    BY <2>1 DEF Meets
  <2> QED BY <1>3, <2>2 DEF Count, b
<1> QED BY <1>2, <1>3

(* One request: who obeys what is made of it meets the contract, and who    *)
(* meets it, with nodes and counter told, obeys.                            *)
LEMMA RequestObeyed ==
    ASSUME NEW r \in Requests, ~Refuses(r), NEW T
    PROVE  /\ Obeys(T, MadeFor(r).gates) => Meets(T, Contract(r))
           /\ /\ Meets(T, Contract(r))
              /\ MadeFor(r).nc = 1 => NodesTold(T, r)
              /\ CounterTold(T, r.call, r.n)
              /\ WantsSorter(r) => SorterTold(T, r.call, r.n)
              => Obeys(T, MadeFor(r).gates)
<1> DEFINE n == r.n
           rhs == r.rhs
           xs == Inputs(n)
           b == IF r.enc \in {"c", "e"} /\ rhs < 1 THEN 1 ELSE rhs
           c == Count(T, n)
           m == MadeFor(r)
           obeyed == Obeys(T, m.gates)
           told == /\ m.nc = 1 => NodesTold(T, r)
                   /\ CounterTold(T, r.call, n)
                   /\ WantsSorter(r) => SorterTold(T, r.call, n)
<1>1. /\ r.enc \in {"a", "b", "i", "c", "e", "s"} /\ n \in Nat \ {0} /\ n \in Nat /\ rhs \in 0..n
      /\ r.op \in {"atmost", "atleast"} /\ r.call \in Nat
  BY DEF Requests, Encodings
<1>2. Len(xs) = n
  BY <1>1, InputsLen
<1>3. c \in Nat /\ c <= n
  BY <1>1, CountIs, CountUpTo
<1>4. \A g, k : Made(g, k).gates = g /\ Made(g, k).nc = k
  BY DEF Made
<1>5. Meets(T, Contract(r)) <=> IF r.op = "atmost" THEN c <= b ELSE c >= b
  BY MeetsCount
<1>6. ASSUME r.op = "atmost" PROVE (obeyed => c <= b) /\ (c <= b /\ told => obeyed)
  <2> DEFINE g == gen_card_constraint(r.enc, r.k, r.call, xs, rhs)
  <2>0. m = g /\ ~NoAtMost(r.enc, n, rhs)
    BY <1>6 DEF MadeFor, Refuses
  <2>1. CASE r.enc = "e"
    <3>1. rhs <= 1 /\ b = 1
      BY <1>1, <2>0, <2>1 DEF NoAtMost
    <3>2. g = Made(pw_gen_atmost1(xs), 0)
      BY <1>1, <2>1, <3>1 DEF gen_card_constraint
    <3>3. Obeys(T, pw_gen_atmost1(xs)) <=> c <= 1
      BY <1>1, SpecialObeys
    <3> HIDE DEF g, b, c, m, xs
    <3> QED BY <1>4, <2>0, <3>1, <3>2, <3>3
  <2>2. CASE r.enc = "c" /\ rhs <= 1
    <3>1. b = 1
      BY <1>1, <2>2
    <3>2. g = Made(sc_gen_atmost1(r.call, xs), 0)
      BY <1>1, <2>2 DEF gen_card_constraint
    <3>3. /\ Obeys(T, sc_gen_atmost1(r.call, xs)) => c <= 1
          /\ c <= 1 /\ CounterTold(T, r.call, n) => Obeys(T, sc_gen_atmost1(r.call, xs))
      BY <1>1, CounterMost
    <3> HIDE DEF g, b, c, m, xs
    <3> QED BY <1>4, <2>0, <3>1, <3>2, <3>3
  <2>3. CASE IsSmall(xs, rhs) /\ ((r.enc = "c" /\ rhs > 1) \/ r.enc \in {"b", "i", "s"})
    <3>1. b = rhs
      BY <1>1, <2>3
    <3>2. g = SmallAtMost(xs, rhs)
      BY <1>1, <2>3 DEF gen_card_constraint
    <3>3. Obeys(T, SmallAtMost(xs, rhs).gates) <=> c <= rhs
      BY <1>1, <2>3, SmallObeys
    <3> HIDE DEF g, b, c, m, xs
    <3> QED BY <2>0, <3>1, <3>2, <3>3
  <2>4. CASE r.enc \in {"b", "i"} /\ ~IsSmall(xs, rhs)
    <3>1. b = rhs /\ rhs \in 1..(n - 2)
      BY <1>1, <1>2, <2>4 DEF IsSmall
    <3>2. /\ r.enc = "b" => g = Made(bdd_gen_atmostN(r.k, xs, rhs), 1)
          /\ r.enc = "i" => g = Made(bdd_atmostN_implic(r.k, xs, rhs), 1)
      BY <1>1, <2>4 DEF gen_card_constraint
    <3>3. /\ Obeys(T, bdd_gen_atmostN(r.k, xs, rhs)) => c <= rhs
          /\ c <= rhs /\ MostTold(T, r.k, n, rhs) => Obeys(T, bdd_gen_atmostN(r.k, xs, rhs))
          /\ Obeys(T, bdd_atmostN_implic(r.k, xs, rhs)) => c <= rhs
          /\ c <= rhs /\ MostTold(T, r.k, n, rhs) => Obeys(T, bdd_atmostN_implic(r.k, xs, rhs))
      BY <1>1, <3>1, AtMostBdd
    <3>4. NodesTold(T, r) <=> MostTold(T, r.k, n, rhs)
      BY <1>6 DEF NodesTold
    <3> HIDE DEF g, b, c, m, xs, n, rhs
    <3>5. CASE r.enc = "b"
      BY <1>4, <2>0, <3>1, <3>2, <3>3, <3>4, <3>5
    <3>6. CASE r.enc = "i"
      BY <1>4, <2>0, <3>1, <3>2, <3>3, <3>4, <3>6
    <3> QED BY <2>4, <3>5, <3>6
  <2>5. CASE r.enc = "s" /\ ~IsSmall(xs, rhs)
    <3>1. b = rhs
      BY <1>1, <2>5
    <3>2. g = Made(srt_gen_atmostN(r.call, xs, rhs), Power[Radix(Len(xs))] - rhs)
      BY <1>1, <2>5 DEF gen_card_constraint
    <3>3. /\ Obeys(T, srt_gen_atmostN(r.call, xs, rhs)) => c <= rhs
          /\ c <= rhs /\ SorterTold(T, r.call, n) => Obeys(T, srt_gen_atmostN(r.call, xs, rhs))
      BY <1>1, SorterMost
    <3>4. WantsSorter(r)
      BY <1>6, <2>5 DEF WantsSorter
    <3> HIDE DEF g, b, c, m, xs, n, rhs
    <3> QED BY <1>4, <2>0, <3>1, <3>2, <3>3, <3>4
  <2>6. r.enc # "a" /\ (r.enc = "c" /\ rhs > 1 => IsSmall(xs, rhs))
    BY <1>1, <1>2, <2>0 DEF NoAtMost, IsSmall
  <2>7. rhs <= 1 \/ rhs > 1
    BY <1>1
  <2> HIDE DEF obeyed, told, c, b, xs
  <2> QED BY <1>1, <1>6, <2>1, <2>2, <2>3, <2>4, <2>5, <2>6, <2>7, Zenon
<1>7. ASSUME r.op = "atleast" PROVE (obeyed => c >= b) /\ (c >= b /\ told => obeyed)
  <2> DEFINE g == gen_extra_card_constraint(r.enc, r.k, xs, rhs)
  <2>0. m = g /\ ~NoAtLeast(r.enc, rhs)
    BY <1>7 DEF MadeFor, Refuses
  <2>1. CASE r.enc \in {"c", "e", "s"}
    <3>1. b = 1
      BY <1>1, <2>0, <2>1 DEF NoAtLeast
    <3>2. g = Made(gen_ge1(xs), 0)
      BY <1>1, <2>0, <2>1 DEF gen_extra_card_constraint, NoAtLeast
    <3>3. Obeys(T, gen_ge1(xs)) <=> c >= 1
      BY <1>1, SpecialObeys
    <3> HIDE DEF g, b, c, m, xs
    <3> QED BY <1>4, <2>0, <3>1, <3>2, <3>3
  <2>2. CASE r.enc \in {"b", "i"}
    <3>0. b = rhs
      BY <2>2
    <3>1. CASE rhs = 0
      <4>1. g = Made(<<>>, 0)
        BY <1>1, <2>2, <3>1 DEF gen_extra_card_constraint
      <4> HIDE DEF g, b, c, m, xs, told
      <4> QED BY <1>3, <1>4, <2>0, <3>0, <3>1, <4>1, ObeysNone
    <3>2. CASE rhs = 1
      <4>1. g = Made(gen_ge1(xs), 0)
        BY <1>1, <2>2, <3>2 DEF gen_extra_card_constraint
      <4>2. Obeys(T, gen_ge1(xs)) <=> c >= 1
        BY <1>1, SpecialObeys
      <4> HIDE DEF g, b, c, m, xs, told
      <4> QED BY <1>4, <2>0, <3>0, <3>2, <4>1, <4>2
    <3>3. CASE rhs > 1 /\ rhs = n
      <4>1. g = Made(gen_geN(xs), 0)
        BY <1>1, <1>2, <2>2, <3>3 DEF gen_extra_card_constraint
      <4>2. Obeys(T, gen_geN(xs)) <=> c = n
        BY <1>1, SpecialObeys
      <4> HIDE DEF g, b, c, m, xs, told
      <4> QED BY <1>1, <1>3, <1>4, <2>0, <3>0, <3>3, <4>1, <4>2
    <3>4. CASE rhs > 1 /\ rhs # n
      <4>1. g = Made(bdd_gen_atleastN(r.k, xs, rhs), 1)
        BY <1>1, <1>2, <2>2, <3>4 DEF gen_extra_card_constraint
      <4>2. rhs \in 2..(n - 1)
        BY <1>1, <3>4
      <4>3. /\ Obeys(T, bdd_gen_atleastN(r.k, xs, rhs)) => c >= rhs
            /\ c >= rhs /\ LeastTold(T, r.k, n, rhs) => Obeys(T, bdd_gen_atleastN(r.k, xs, rhs))
        BY <1>1, <4>2, AtLeastBdd
      <4>4. NodesTold(T, r) <=> LeastTold(T, r.k, n, rhs)
        BY <1>7 DEF NodesTold
      <4> HIDE DEF g, b, c, m, xs, n, rhs
      <4> QED BY <1>4, <2>0, <3>0, <4>1, <4>3, <4>4
    <3> QED BY <1>1, <3>1, <3>2, <3>3, <3>4
  <2>3. r.enc # "a"
    BY <2>0 DEF NoAtLeast
  <2> HIDE DEF obeyed, told, c, b, xs
  <2> QED BY <1>1, <2>1, <2>2, <2>3
<1> HIDE DEF obeyed, told, c, b
<1>8. (obeyed => Meets(T, Contract(r))) /\ (Meets(T, Contract(r)) /\ told => obeyed)
  BY <1>1, <1>5, <1>6, <1>7
<1> QED BY <1>8, Zenon DEF obeyed, told, m, n

-----------------------------------------------------------------------------
(* Requests for the same N inputs, in one process: each is a call of its    *)
(* own, and a constraint that takes a number has it alone.                  *)
Numbered(R) ==
  \A r, s \in R :
    r # s => /\ r.call # s.call
             /\ MadeFor(r).nc = 1 /\ MadeFor(s).nc = 1 => r.k # s.k

(* What the node of level l and p true inputs stands for when t is true. *)
Stands(t, r, l, p) ==
  IF r.op = "atmost" THEN p + Count(t, r.n) - Count(t, l) <= r.rhs
                     ELSE p + Count(t, r.n) - Count(t, l) >= r.rhs

NodesOf(t, R) ==
  {v \in {Y(r.k, l, p) : r \in R, l \in Nat, p \in Int} :
     \E r \in R : \E l \in 0..r.n : \E p \in Int :
       MadeFor(r).nc = 1 /\ Stands(t, r, l, p) /\ v = Y(r.k, l, p)}

CountersOf(t, R) ==
  {v \in {Id(r.call, j) : r \in R, j \in Nat} :
     \E r \in R : \E j \in Nat : Count(t, j) >= 1 /\ v = Id(r.call, j)}

(* The variables of the sorters, completed from t. *)
Completed(t, r) ==
  CHOOSE T : /\ \A v : v \notin Own(Root(r.call)) => (v \in T <=> v \in t)
             /\ SorterTold(T, r.call, r.n)

SortersOf(t, R) ==
  {v \in UNION {Own(Root(r.call)) : r \in R} :
     \E r \in R : v \in Own(Root(r.call)) /\ v \in Completed(t, r)}

Extended(t, R) == t \cup NodesOf(t, R) \cup CountersOf(t, R) \cup SortersOf(t, R)

LEMMA SortersHave ==
    ASSUME NEW t, NEW R, NEW v
    PROVE  /\ v \in SortersOf(t, R) <=> \E r \in R : v \in Own(Root(r.call)) /\ v \in Completed(t, r)
           /\ v \in SortersOf(t, R) => v[1] \in {"min", "max"}
<1>1. v \in SortersOf(t, R) <=> \E r \in R : v \in Own(Root(r.call)) /\ v \in Completed(t, r)
  BY DEF SortersOf
<1>2. \A r : v \in Own(Root(r.call)) => v[1] \in {"min", "max"}
  BY DEF Own, Named
<1> QED BY <1>1, <1>2, Zenon

LEMMA NodesHave ==
    ASSUME NEW t, NEW R \in SUBSET Requests, NEW v
    PROVE  v \in NodesOf(t, R) <=>
             \E r \in R : \E l \in 0..r.n : \E p \in Int :
               MadeFor(r).nc = 1 /\ Stands(t, r, l, p) /\ v = Y(r.k, l, p)
<1>1. ASSUME NEW r \in R, NEW l \in 0..r.n, NEW p \in Int, v = Y(r.k, l, p)
      PROVE  v \in {Y(s.k, m, q) : s \in R, m \in Nat, q \in Int}
  <2>1. l \in Nat
    BY DEF Requests
  <2> QED BY <1>1, <2>1
<1> QED BY <1>1 DEF NodesOf

LEMMA CountersHave ==
    ASSUME NEW t, NEW R, NEW v
    PROVE  v \in CountersOf(t, R) <=>
             \E r \in R : \E j \in Nat : Count(t, j) >= 1 /\ v = Id(r.call, j)
BY DEF CountersOf

LEMMA InputsHave == \A t, N : t \in SUBSET Xs(N) => \A v \in t : \E i : v = <<"x", i>>
BY DEF Xs

(* The inputs are as in t. *)
LEMMA ExtendedInputs ==
    ASSUME NEW R \in SUBSET Requests, NEW N \in Nat, NEW t \in SUBSET Xs(N)
    PROVE  /\ Extended(t, R) \cap Xs(N) = t
           /\ \A l \in 0..N : Count(Extended(t, R), l) = Count(t, l)
<1> DEFINE others == (NodesOf(t, R) \cup CountersOf(t, R)) \cup SortersOf(t, R)
<1>1. \A v \in others : \A i : v # <<"x", i>>
  <2>1. \A v \in NodesOf(t, R) : \A i : v # <<"x", i>>
    BY Tags, NodesHave
  <2>2. \A v \in CountersOf(t, R) : \A i : v # <<"x", i>>
    BY Tags, CountersHave
  <2>3. \A v \in SortersOf(t, R) : \A i : v # <<"x", i>>
    BY SortersHave
  <2> QED BY <2>1, <2>2, <2>3
<1>2. ASSUME NEW l \in Nat PROVE others \cap Xs(l) = {}
  BY <1>1 DEF Xs
<1>3. ASSUME NEW l \in Nat PROVE Extended(t, R) \cap Xs(l) = t \cap Xs(l)
  BY <1>2 DEF Extended
<1>4. Extended(t, R) \cap Xs(N) = t
  BY <1>3
<1>5. \A l \in 0..N : Count(Extended(t, R), l) = Count(t, l)
  <2>1. \A l \in 0..N : l \in Nat
    OBVIOUS
  <2> QED BY <2>1, <1>3, Zenon DEF Count
<1> QED BY <1>4, <1>5

(* Every node and every counter says in it what it is for. *)
LEMMA ExtendedTold ==
    ASSUME NEW N \in Nat, NEW R \in SUBSET Requests, \A r \in R : r.n = N,
           Numbered(R), NEW t \in SUBSET Xs(N), NEW r \in R
    PROVE  /\ MadeFor(r).nc = 1 => NodesTold(Extended(t, R), r)
           /\ CounterTold(Extended(t, R), r.call, r.n)
           /\ SorterTold(Extended(t, R), r.call, r.n)
<1> DEFINE T == Extended(t, R)
<1>1. \A l \in 0..N : Count(T, l) = Count(t, l)
  BY ExtendedInputs
<1>2. r.n = N /\ r \in Requests /\ N \in 0..N
  OBVIOUS
<1>3. \A k, l, p : Y(k, l, p) \notin t
  BY Tags, InputsHave
<1>4. \A c, j : Id(c, j) \notin t
  BY Tags, InputsHave
<1>5. \A k, l, p : Y(k, l, p) \in T <=> Y(k, l, p) \in NodesOf(t, R)
  <2>1. \A k, l, p : Y(k, l, p) \notin CountersOf(t, R)
    BY Tags, CountersHave
  <2>2. \A k, l, p : Y(k, l, p) \notin SortersOf(t, R)
    BY SortersHave DEF Y
  <2> QED BY <1>3, <2>1, <2>2, Zenon DEF Extended
<1>6. \A c, j : Id(c, j) \in T <=> Id(c, j) \in CountersOf(t, R)
  <2>1. \A c, j : Id(c, j) \notin NodesOf(t, R)
    BY Tags, NodesHave
  <2>2. \A c, j : Id(c, j) \notin SortersOf(t, R)
    BY SortersHave DEF Id
  <2> QED BY <1>4, <2>1, <2>2, Zenon DEF Extended
<1>7. ASSUME MadeFor(r).nc = 1, NEW l \in 0..N, NEW p \in Int
      PROVE  Y(r.k, l, p) \in T <=> Stands(t, r, l, p)
  <2>0. l \in Nat /\ l \in 0..r.n
    BY <1>2
  <2>1. ASSUME Stands(t, r, l, p) PROVE Y(r.k, l, p) \in NodesOf(t, R)
    BY <1>7, <2>0, <2>1, NodesHave, Zenon
  <2>2. ASSUME Y(r.k, l, p) \in NodesOf(t, R) PROVE Stands(t, r, l, p)
    <3>0. PICK v : v = Y(r.k, l, p)
      OBVIOUS
    <3>5. v \in NodesOf(t, R)
      BY <2>2, <3>0
    <3>6. \E s \in R : \E l2 \in 0..s.n : \E p2 \in Int :
            MadeFor(s).nc = 1 /\ Stands(t, s, l2, p2) /\ v = Y(s.k, l2, p2)
      BY <3>5, NodesHave
    <3>1. PICK s \in R : \E l2 \in 0..s.n : \E p2 \in Int :
            MadeFor(s).nc = 1 /\ Stands(t, s, l2, p2) /\ Y(r.k, l, p) = Y(s.k, l2, p2)
      BY <3>0, <3>6
    <3>2. PICK l2 \in 0..s.n, p2 \in Int :
            MadeFor(s).nc = 1 /\ Stands(t, s, l2, p2) /\ Y(r.k, l, p) = Y(s.k, l2, p2)
      BY <3>1, Zenon
    <3>3. r.k = s.k /\ l = l2 /\ p = p2
      BY <3>2, Tags
    <3>4. s = r
      BY <1>7, <3>2, <3>3, Zenon DEF Numbered
    <3> QED BY <3>2, <3>3, <3>4, Zenon
  <2> QED BY <1>5, <2>1, <2>2, Zenon
<1>8. ASSUME MadeFor(r).nc = 1 PROVE NodesTold(T, r)
  <2>1. \A l \in 0..N : \A p \in Int : Y(r.k, l, p) \in T <=> Stands(t, r, l, p)
    BY <1>7, <1>8
  <2>2. Count(T, N) = Count(t, N)
    BY <1>1, <1>2
  <2>3. ASSUME r.op = "atmost" PROVE MostTold(T, r.k, N, r.rhs)
    <3>1. \A l \in 0..N : \A p \in Int :
            Y(r.k, l, p) \in T <=> p + Count(t, N) - Count(t, l) <= r.rhs
      BY <1>2, <2>1, <2>3, Zenon DEF Stands
    <3> QED BY <1>1, <2>2, <3>1, Zenon DEF MostTold
  <2>4. ASSUME r.op # "atmost" PROVE LeastTold(T, r.k, N, r.rhs)
    <3>1. \A l \in 0..N : \A p \in Int :
            Y(r.k, l, p) \in T <=> p + Count(t, N) - Count(t, l) >= r.rhs
      BY <1>2, <2>1, <2>4, Zenon DEF Stands
    <3> QED BY <1>1, <2>2, <3>1, Zenon DEF LeastTold
  <2> QED BY <1>2, <2>3, <2>4, Zenon DEF NodesTold
<1>9. CounterTold(T, r.call, r.n)
  <2>1. \A j \in 1..(N - 1) : j \in Nat /\ j \in 0..N
    OBVIOUS
  <2>2. ASSUME NEW j \in 1..(N - 1) PROVE Id(r.call, j) \in T <=> Count(T, j) >= 1
    <3>1. Count(t, j) >= 1 => Id(r.call, j) \in CountersOf(t, R)
      BY <2>1, CountersHave, Zenon
    <3>2. Id(r.call, j) \in CountersOf(t, R) => Count(t, j) >= 1
      BY Tags, CountersHave
    <3>3. Count(T, j) = Count(t, j)
      BY <1>1, <2>1
    <3> QED BY <1>6, <3>1, <3>2, <3>3, Zenon
  <2> QED BY <1>2, <2>2, Zenon DEF CounterTold
<1>10. SorterTold(T, r.call, r.n)
  <2> DEFINE C == Completed(t, r)
             V == Own(Root(r.call))
  <2>0. r.call \in Nat /\ r.n \in Nat \ {0}
    BY <1>2 DEF Requests
  <2>1. /\ \A v \in t : v[1] = "x"
        /\ \A v \in NodesOf(t, R) : v[1] = "y"
        /\ \A v \in CountersOf(t, R) : v[1] = "id"
        /\ \A v \in SortersOf(t, R) : v[1] \in {"min", "max"}
    <3>1. \A v \in t : v[1] = "x"
      BY DEF Xs
    <3>2. \A v \in NodesOf(t, R) : v[1] = "y"
      BY DEF NodesOf, Y
    <3>3. \A v \in CountersOf(t, R) : v[1] = "id"
      BY DEF CountersOf, Id
    <3> QED BY <3>1, <3>2, <3>3, SortersHave, Zenon
  <2>2. /\ \A v \in V : v[1] \in {"min", "max"} /\ v[2] = r.call
        /\ \A v \in ZeroNames(r.call) : v[1] = "zero"
        /\ \A v \in InputNames : v[1] = "x"
        /\ \A s \in R : \A v \in Own(Root(s.call)) : v[2] = s.call
    <3>1. \A c : \A v \in Own(Root(c)) : v[1] \in {"min", "max"} /\ v[2] = c
      BY DEF Own, Named, Root
    <3>2. \A v \in ZeroNames(r.call) : v[1] = "zero"
      BY DEF ZeroNames
    <3>3. \A v \in InputNames : v[1] = "x"
      BY DEF InputNames
    <3> QED BY <3>1, <3>2, <3>3, Zenon
  <2>3. t \cap ZeroNames(r.call) = {}
    BY <2>1, <2>2
  <2>4. (\A v : v \notin V => (v \in C <=> v \in t)) /\ SorterTold(C, r.call, r.n)
    <3>1. \E C2 : (\A v : v \notin V => (v \in C2 <=> v \in t)) /\ SorterTold(C2, r.call, r.n)
      BY <2>0, <2>3, SorterCompletes
    <3> QED BY <3>1, Zenon DEF Completed
  <2> HIDE DEF C, V, T
  <2>5. \A v : v \in T <=> v \in t \/ v \in NodesOf(t, R) \/ v \in CountersOf(t, R) \/ v \in SortersOf(t, R)
    BY DEF Extended, T
  <2>6. ASSUME NEW v \in V PROVE v \in C <=> v \in T
    <3>1. v[1] \in {"min", "max"} /\ v[2] = r.call
      BY <2>2
    <3>2. v \notin t /\ v \notin NodesOf(t, R) /\ v \notin CountersOf(t, R)
      BY <2>1, <3>1
    <3>3. v \in SortersOf(t, R) <=> \E s \in R : v \in Own(Root(s.call)) /\ v \in Completed(t, s)
      BY SortersHave
    <3>4. \A s \in R : v \in Own(Root(s.call)) => s = r
      BY <2>2, <3>1, Zenon DEF Numbered
    <3> QED BY <2>5, <2>6, <3>2, <3>3, <3>4, Zenon DEF C, V
  <2>7. ASSUME NEW v \in InputNames \cup ZeroNames(r.call) PROVE v \in C <=> v \in T
    <3>1. v[1] \in {"x", "zero"}
      BY <2>2
    <3>2. v \notin V /\ v \notin NodesOf(t, R) /\ v \notin CountersOf(t, R) /\ v \notin SortersOf(t, R)
      BY <2>1, <2>2, <3>1
    <3> QED BY <2>4, <2>5, <3>2
  <2>8. \A v \in InputNames \cup SorterNames(r.call) : v \in C <=> v \in T
    BY <2>6, <2>7 DEF SorterNames, V
  <2> QED BY <2>0, <2>4, <2>8, SorterLooks
<1> QED BY <1>8, <1>9, <1>10

(* The constraint only looks at the inputs. *)
LEMMA MeetsInputs ==
    ASSUME NEW T, NEW r \in Requests, NEW t, T \cap Xs(r.n) = t
    PROVE  Meets(T, Contract(r)) <=> Meets(t, Contract(r))
<1>1. t \cap Xs(r.n) = T \cap Xs(r.n)
  OBVIOUS
<1>2. Count(T, r.n) = Count(t, r.n)
  BY <1>1, Zenon DEF Count
<1> QED BY <1>2, MeetsCount, Zenon

LEMMA TogetherExact ==
    ASSUME NEW N \in Nat \ {0}, NEW R \in SUBSET Requests,
           \A r \in R : r.n = N /\ ~Refuses(r), Numbered(R),
           NEW t \in SUBSET Xs(N)
    PROVE  (\E T : T \cap Xs(N) = t /\ \A r \in R : Obeys(T, MadeFor(r).gates))
             <=> \A r \in R : Meets(t, Contract(r))
<1>1. ASSUME NEW T, T \cap Xs(N) = t, \A r \in R : Obeys(T, MadeFor(r).gates), NEW r \in R
      PROVE  Meets(t, Contract(r))
  <2>1. Meets(T, Contract(r))
    BY <1>1, RequestObeyed
  <2>2. r.n = N /\ r \in Requests
    OBVIOUS
  <2>3. T \cap Xs(r.n) = t
    BY <1>1, <2>2
  <2> QED BY <2>1, <2>2, <2>3, MeetsInputs
<1>2. ASSUME \A r \in R : Meets(t, Contract(r))
      PROVE  \E T : T \cap Xs(N) = t /\ \A r \in R : Obeys(T, MadeFor(r).gates)
  <2> DEFINE T == Extended(t, R)
  <2>1. N \in Nat
    OBVIOUS
  <2>2. T \cap Xs(N) = t
    BY <2>1, ExtendedInputs
  <2>3. ASSUME NEW r \in R PROVE Obeys(T, MadeFor(r).gates)
    <3>1. r.n = N /\ r \in Requests /\ ~Refuses(r)
      OBVIOUS
    <3>2. T \cap Xs(r.n) = t
      BY <2>2, <3>1
    <3>3. Meets(T, Contract(r))
      BY <1>2, <3>1, <3>2, MeetsInputs
    <3>4. /\ MadeFor(r).nc = 1 => NodesTold(T, r)
          /\ CounterTold(T, r.call, r.n)
          /\ SorterTold(T, r.call, r.n)
      BY <2>1, ExtendedTold
    <3> HIDE DEF T
    <3> QED BY <3>1, <3>3, <3>4, RequestObeyed
  <2> HIDE DEF T
  <2> QED BY <2>2, <2>3
<1> QED BY <1>1, <1>2

-----------------------------------------------------------------------------
CallNames(call) == IdNames(call) \cup SorterNames(call)
Owners(r) == IF MadeFor(r).nc = 1 THEN NodeNames(r.k) ELSE CallNames(r.call)

LEMMA BlockSize == \A n \in Nat \ {0} : Power[Radix(n)] \in Nat /\ Power[Radix(n)] > n
BY RadixIs, PowerIs

LEMMA PrivateUp ==
    ASSUME NEW gates, NEW V, NEW W, V \subseteq W, Private(gates, V)
    PROVE  Private(gates, W)
BY DEF Private

(* The clauses of one request on auxiliary variables are on its own, and no *)
(* two of its gates share one.                                              *)
LEMMA RequestApart ==
    ASSUME NEW r \in Requests
    PROVE  /\ Private(MadeFor(r).gates, Owners(r)) /\ Apart(MadeFor(r).gates)
           /\ MadeFor(r).gates \in Seq(TidyGates)
<1> DEFINE n == r.n
           xs == Inputs(n)
           m == MadeFor(r)
           Fine == Private(m.gates, Owners(r)) /\ Apart(m.gates) /\ m.gates \in Seq(TidyGates)
<1>1. /\ r.enc \in {"a", "b", "i", "c", "e", "s"} /\ n \in Nat \ {0} /\ n \in Nat /\ r.rhs \in 0..n
      /\ r.op \in {"atmost", "atleast"} /\ r.call \in Nat /\ r.k \in Nat
  BY DEF Requests, Encodings
<1>2. \A g, c : Made(g, c).gates = g /\ Made(g, c).nc = c
  BY DEF Made
<1>3. 0 # 1
  OBVIOUS
<1>4. ASSUME NEW g, m = Made(g, 0), \A names : Private(g, names) /\ Apart(g), g \in Seq(TidyGates) PROVE Fine
  BY <1>2, <1>4, Zenon
<1>5. ASSUME m = Dies PROVE Fine
  <2>1. m.gates = <<>>
    BY <1>5 DEF Dies
  <2> HIDE DEF m
  <2> QED BY <1>1, <2>1, SpecialApart, SpecialTidy, Zenon
<1>6. xs \in Seq({Pos(<<"x", i>>) : i \in 1..n}) /\ Len(xs) = n /\ \A i \in 1..Len(xs) : xs[i] \in InputLits
  <2>1. xs \in Seq({Pos(<<"x", i>>) : i \in 1..n}) /\ Len(xs) = n
    BY <1>1, InputLiterals, Zenon
  <2>2. \A i \in 1..n : xs[i] = Pos(<<"x", i>>)
    BY <1>1, InputsLen, Zenon
  <2>3. \A i \in 1..n : Pos(<<"x", i>>) \in InputLits
    BY <1>1 DEF InputLits, InputNames
  <2> HIDE DEF xs
  <2> QED BY <2>1, <2>2, <2>3
<1>7. ASSUME NEW g, m = Made(g, 1), Private(g, NodeNames(r.k)), Apart(g), g \in Seq(TidyGates) PROVE Fine
  BY <1>2, <1>7, Zenon DEF Owners
<1>8. r.rhs \in Int
  BY <1>1
<1> HIDE DEF m, Fine
<1>9. ASSUME r.op = "atmost" PROVE Fine
  <2>0. m = gen_card_constraint(r.enc, r.k, r.call, xs, r.rhs)
    BY <1>9 DEF MadeFor, m
  <2>1. CASE r.enc = "a"
    <3>1. m = Dies
      BY <2>0, <2>1 DEF gen_card_constraint
    <3> QED BY <1>5, <3>1
  <2>2. CASE r.enc = "e"
    <3>1. m = IF r.rhs > 1 THEN Dies ELSE Made(pw_gen_atmost1(xs), 0)
      BY <2>0, <2>2 DEF gen_card_constraint
    <3>2. \A names : Private(pw_gen_atmost1(xs), names) /\ Apart(pw_gen_atmost1(xs))
      BY <1>1, SpecialApart, Zenon
    <3>3. pw_gen_atmost1(xs) \in Seq(TidyGates)
      BY <1>1, SpecialTidy, Zenon
    <3> QED BY <1>4, <1>5, <3>1, <3>2, <3>3, Zenon
  <2>3. CASE r.enc = "c" /\ r.rhs <= 1
    <3>1. m = Made(sc_gen_atmost1(r.call, xs), 0)
      BY <1>1, <2>0, <2>3 DEF gen_card_constraint
    <3>2. /\ Private(sc_gen_atmost1(r.call, xs), IdNames(r.call)) /\ Apart(sc_gen_atmost1(r.call, xs))
          /\ sc_gen_atmost1(r.call, xs) \in Seq(TidyGates)
      BY <1>1, CounterApart, Zenon
    <3>3. m.gates = sc_gen_atmost1(r.call, xs) /\ m.nc = 0
      BY <1>2, <3>1, Zenon
    <3>4. Owners(r) = CallNames(r.call) /\ IdNames(r.call) \subseteq CallNames(r.call)
      BY <1>3, <3>3 DEF Owners, CallNames, m
    <3>5. Private(sc_gen_atmost1(r.call, xs), Owners(r))
      BY <3>2, <3>4, PrivateUp
    <3> QED BY <3>2, <3>3, <3>5, Zenon DEF Fine
  <2>4. CASE IsSmall(xs, r.rhs) /\ ((r.enc = "c" /\ r.rhs > 1) \/ r.enc \in {"b", "i", "s"})
    <3>1. m = SmallAtMost(xs, r.rhs)
      BY <1>1, <2>0, <2>4 DEF gen_card_constraint
    <3>2. \E g \in {<<>>, gen_leNm1(xs), gen_le0(xs)} : m = Made(g, 0)
      BY <3>1 DEF SmallAtMost
    <3>3. \A names : \A g \in {<<>>, gen_leNm1(xs), gen_le0(xs)} : Private(g, names) /\ Apart(g)
      BY <1>1, SpecialApart
    <3>4. \A g \in {<<>>, gen_leNm1(xs), gen_le0(xs)} : g \in Seq(TidyGates)
      BY <1>1, SpecialTidy
    <3> QED BY <1>4, <3>2, <3>3, <3>4
  <2>5. CASE r.enc = "c" /\ r.rhs > 1 /\ ~IsSmall(xs, r.rhs)
    <3>1. m = Dies
      BY <1>1, <2>0, <2>5 DEF gen_card_constraint
    <3> QED BY <1>5, <3>1
  <2>6. CASE r.enc = "b" /\ ~IsSmall(xs, r.rhs)
    <3>1. m = Made(bdd_gen_atmostN(r.k, xs, r.rhs), 1)
      BY <1>1, <2>0, <2>6 DEF gen_card_constraint
    <3>2. /\ Private(bdd_gen_atmostN(r.k, xs, r.rhs), NodeNames(r.k)) /\ Apart(bdd_gen_atmostN(r.k, xs, r.rhs))
          /\ bdd_gen_atmostN(r.k, xs, r.rhs) \in Seq(TidyGates)
      <4> HIDE DEF xs
      <4> QED BY <1>1, <1>6, <1>8, AtMostEquivApart
    <3> QED BY <1>7, <3>1, <3>2
  <2>7. CASE r.enc = "i" /\ ~IsSmall(xs, r.rhs)
    <3>1. m = Made(bdd_atmostN_implic(r.k, xs, r.rhs), 1)
      BY <1>1, <2>0, <2>7 DEF gen_card_constraint
    <3>2. /\ Private(bdd_atmostN_implic(r.k, xs, r.rhs), NodeNames(r.k)) /\ Apart(bdd_atmostN_implic(r.k, xs, r.rhs))
          /\ bdd_atmostN_implic(r.k, xs, r.rhs) \in Seq(TidyGates)
      <4> HIDE DEF xs
      <4> QED BY <1>1, <1>6, <1>8, AtMostImplicApart
    <3> QED BY <1>7, <3>1, <3>2
  <2>8. CASE r.enc = "s" /\ ~IsSmall(xs, r.rhs)
    <3>1. m = Made(srt_gen_atmostN(r.call, xs, r.rhs), Power[Radix(n)] - r.rhs)
      BY <1>1, <1>6, <2>0, <2>8 DEF gen_card_constraint
    <3>2. Private(srt_gen_atmostN(r.call, xs, r.rhs), SorterNames(r.call)) /\ Apart(srt_gen_atmostN(r.call, xs, r.rhs))
      BY <1>1, SorterApart
    <3>2a. srt_gen_atmostN(r.call, xs, r.rhs) \in Seq(TidyGates)
      BY <1>1, SorterTidy
    <3>3. m.gates = srt_gen_atmostN(r.call, xs, r.rhs) /\ m.nc # 1
      <4>1. Power[Radix(n)] - r.rhs # 1
        <5>1. Power[Radix(n)] \in Nat /\ Power[Radix(n)] > n
          BY <1>1, BlockSize, Zenon
        <5>2. r.rhs < n - 1
          BY <1>1, <1>6, <2>8 DEF IsSmall
        <5> QED BY <1>1, <5>1, <5>2
      <4> HIDE DEF xs
      <4> QED BY <1>2, <3>1, <4>1, Zenon
    <3>4. Owners(r) = CallNames(r.call) /\ SorterNames(r.call) \subseteq CallNames(r.call)
      BY <3>3 DEF Owners, CallNames, m
    <3>5. Private(srt_gen_atmostN(r.call, xs, r.rhs), Owners(r))
      BY <3>2, <3>4, PrivateUp
    <3> QED BY <3>2, <3>2a, <3>3, <3>5, Zenon DEF Fine
  <2>9. r.rhs <= 1 \/ r.rhs > 1
    BY <1>1
  <2> HIDE DEF xs
  <2> QED BY <1>1, <1>9, <2>1, <2>2, <2>3, <2>4, <2>5, <2>6, <2>7, <2>8, <2>9, Zenon
<1>10. ASSUME r.op # "atmost" PROVE Fine
  <2>0. m = gen_extra_card_constraint(r.enc, r.k, xs, r.rhs)
    BY <1>10 DEF MadeFor, m
  <2>1. CASE r.enc = "a"
    <3>1. m = Dies
      BY <2>0, <2>1 DEF gen_extra_card_constraint
    <3> QED BY <1>5, <3>1
  <2>2. CASE r.enc \in {"c", "e", "s"}
    <3>1. m = Dies \/ m = Made(gen_ge1(xs), 0)
      BY <1>1, <2>0, <2>2 DEF gen_extra_card_constraint
    <3>2. \A names : Private(gen_ge1(xs), names) /\ Apart(gen_ge1(xs))
      BY <1>1, SpecialApart, Zenon
    <3>3. gen_ge1(xs) \in Seq(TidyGates)
      BY <1>1, SpecialTidy, Zenon
    <3> QED BY <1>4, <1>5, <3>1, <3>2, <3>3, Zenon
  <2>3. CASE r.enc \in {"b", "i"}
    <3>1. \/ \E g \in {<<>>, gen_ge1(xs), gen_geN(xs)} : m = Made(g, 0)
          \/ m = Made(bdd_gen_atleastN(r.k, xs, r.rhs), 1)
      BY <1>1, <1>6, <2>0, <2>3 DEF gen_extra_card_constraint
    <3>2. \A names : \A g \in {<<>>, gen_ge1(xs), gen_geN(xs)} : Private(g, names) /\ Apart(g)
      BY <1>1, SpecialApart
    <3>2a. \A g \in {<<>>, gen_ge1(xs), gen_geN(xs)} : g \in Seq(TidyGates)
      BY <1>1, SpecialTidy
    <3>3. /\ Private(bdd_gen_atleastN(r.k, xs, r.rhs), NodeNames(r.k)) /\ Apart(bdd_gen_atleastN(r.k, xs, r.rhs))
          /\ bdd_gen_atleastN(r.k, xs, r.rhs) \in Seq(TidyGates)
      <4> HIDE DEF xs
      <4> QED BY <1>1, <1>6, <1>8, AtLeastApart
    <3> QED BY <1>4, <1>7, <3>1, <3>2, <3>2a, <3>3
  <2> HIDE DEF xs
  <2> QED BY <1>1, <2>1, <2>2, <2>3
<1> QED BY <1>9, <1>10, Zenon DEF Fine, m

LEMMA TogetherDistinct ==
    ASSUME NEW R \in SUBSET Requests, Numbered(R),
           NEW r \in R, NEW s \in R,
           NEW i \in DOMAIN MadeFor(r).gates, NEW j \in DOMAIN MadeFor(s).gates,
           NEW c \in MadeFor(r).gates[i] \cap MadeFor(s).gates[j], Auxiliary(c)
    PROVE  r = s /\ i = j
<1>1. r \in Requests /\ s \in Requests
  OBVIOUS
<1>2. /\ Private(MadeFor(r).gates, Owners(r)) /\ Apart(MadeFor(r).gates)
      /\ Private(MadeFor(s).gates, Owners(s))
  BY <1>1, RequestApart
<1>3. c \in MadeFor(r).gates[i] /\ c \in MadeFor(s).gates[j]
  OBVIOUS
<1>4. PICK m \in c : m[2] \in Owners(r)
  BY <1>2, <1>3, Zenon DEF Private
<1>5. m[2][1] = "x" \/ m[2] \in Owners(s)
  BY <1>2, <1>3, Zenon DEF Private
<1>6. \A q : /\ \A v \in NodeNames(q) : v[1] = "y" /\ v[2] = q
             /\ \A v \in CallNames(q) : v[1] \in {"id", "zero", "min", "max"} /\ v[2] = q
  <2> TAKE q
  <2>1. \A v \in NodeNames(q) : v[1] = "y" /\ v[2] = q
    BY DEF NodeNames, Y
  <2>2. \A v \in IdNames(q) : v[1] = "id" /\ v[2] = q
    BY DEF IdNames, Id
  <2>3. \A v \in ZeroNames(q) : v[1] = "zero" /\ v[2] = q
    BY DEF ZeroNames
  <2>4. \A v \in Own(Root(q)) : v[1] \in {"min", "max"} /\ v[2] = q
    BY DEF Own, Named, Root
  <2> QED BY <2>1, <2>2, <2>3, <2>4 DEF CallNames, SorterNames
<1>7. /\ m[2][1] \in (IF MadeFor(r).nc = 1 THEN {"y"} ELSE {"id", "zero", "min", "max"})
      /\ m[2][2] = (IF MadeFor(r).nc = 1 THEN r.k ELSE r.call)
  BY <1>4, <1>6 DEF Owners
<1>8. /\ m[2][1] \in (IF MadeFor(s).nc = 1 THEN {"y"} ELSE {"id", "zero", "min", "max"})
      /\ m[2][2] = (IF MadeFor(s).nc = 1 THEN s.k ELSE s.call)
  BY <1>5, <1>6, <1>7 DEF Owners
<1>9. r = s
  <2>1. CASE MadeFor(r).nc = 1 /\ MadeFor(s).nc = 1
    <3>1. r.k = s.k
      BY <1>7, <1>8, <2>1
    <3> QED BY <2>1, <3>1, Zenon DEF Numbered
  <2>2. CASE MadeFor(r).nc # 1 /\ MadeFor(s).nc # 1
    <3>1. r.call = s.call
      BY <1>7, <1>8, <2>2
    <3> QED BY <3>1, Zenon DEF Numbered
  <2> QED BY <1>7, <1>8, <2>1, <2>2
<1>10. i = j
  BY <1>2, <1>3, <1>9, Zenon DEF Apart
<1> QED BY <1>9, <1>10

-----------------------------------------------------------------------------
(* A process that serves the requests rs, one after the other; count[i] is  *)
(* nconstr after i of them.                                                 *)
Served(rs, count) ==
  /\ rs \in Seq(Requests)
  /\ count \in [0..Len(rs) -> Nat]
  /\ count[0] = 0
  /\ \A i \in 1..Len(rs) :
       /\ rs[i].call = i
       /\ rs[i].k = count[i - 1] + 1
       /\ count[i] = count[i - 1] + MadeFor(rs[i]).nc

LEMMA RequestAdvances ==
    ASSUME NEW r \in Requests
    PROVE  MadeFor(r).nc \in Nat
<1>1. \A g, c : Made(g, c).nc = c /\ Dies.nc = 0
  BY DEF Made, Dies
<1>2. /\ r.enc \in {"a", "b", "i", "c", "e", "s"} /\ r.rhs \in 0..r.n /\ r.n \in Nat \ {0} /\ r.n \in Nat
  BY DEF Requests, Encodings
<1>3. SmallAtMost(Inputs(r.n), r.rhs).nc = 0
  BY <1>1, Zenon DEF SmallAtMost
<1>4. CASE r.op = "atmost"
  <2>1. MadeFor(r) = gen_card_constraint(r.enc, r.k, r.call, Inputs(r.n), r.rhs)
    BY <1>4 DEF MadeFor
  <2>2. r.rhs <= 1 \/ r.rhs > 1
    BY <1>2
  <2>3. Power[Radix(Len(Inputs(r.n)))] - r.rhs \in Nat
    <3>1. Len(Inputs(r.n)) = r.n
      BY <1>2, InputsLen
    <3>2. Power[Radix(r.n)] \in Nat /\ Power[Radix(r.n)] > r.n
      BY <1>2, BlockSize, Zenon
    <3> QED BY <1>2, <3>1, <3>2
  <2> QED BY <1>1, <1>2, <1>3, <1>4, <2>1, <2>2, <2>3 DEF gen_card_constraint
<1>5. CASE r.op # "atmost"
  <2>1. MadeFor(r) = gen_extra_card_constraint(r.enc, r.k, Inputs(r.n), r.rhs)
    BY <1>5 DEF MadeFor
  <2>2. Len(Inputs(r.n)) = r.n
    BY <1>2, InputsLen
  <2> QED BY <1>1, <1>2, <2>1, <2>2 DEF gen_extra_card_constraint
<1> QED BY <1>4, <1>5

(* A number is given once, and a call is made once. *)
LEMMA ServedApart ==
    ASSUME NEW rs, NEW count, Served(rs, count),
           NEW i \in 1..Len(rs), NEW j \in 1..Len(rs), rs[i] # rs[j]
    PROVE  /\ rs[i].call # rs[j].call
           /\ MadeFor(rs[i]).nc = 1 /\ MadeFor(rs[j]).nc = 1 => rs[i].k # rs[j].k
<1> DEFINE n == Len(rs)
<1>1. /\ rs \in Seq(Requests) /\ n \in Nat
      /\ \A q \in 0..n : count[q] \in Nat
      /\ \A q \in 1..n : rs[q] \in Requests /\ rs[q].call = q /\ rs[q].k = count[q - 1] + 1
                          /\ count[q] = count[q - 1] + MadeFor(rs[q]).nc
  <2>1. rs \in Seq(Requests) /\ count \in [0..n -> Nat]
    BY Zenon DEF Served
  <2>2. \A q \in 1..n : rs[q].call = q /\ rs[q].k = count[q - 1] + 1 /\ count[q] = count[q - 1] + MadeFor(rs[q]).nc
    BY Zenon DEF Served
  <2>3. n \in Nat /\ \A q \in 1..n : rs[q] \in Requests
    BY <2>1
  <2>4. \A q \in 0..n : count[q] \in Nat
    BY <2>1
  <2> QED BY <2>1, <2>2, <2>3, <2>4
<1>2. \A q \in 1..n : MadeFor(rs[q]).nc \in Nat
  BY <1>1, RequestAdvances, Zenon
<1> HIDE DEF n
<1>3. ASSUME NEW a \in 1..n, NEW b \in 1..n, a < b, MadeFor(rs[a]).nc = 1
      PROVE  rs[a].k < rs[b].k
  <2> DEFINE B == {q \in 0..n : q >= a => count[q] >= count[a]}
  <2>1. 0 \in B
    BY <1>1
  <2>2. ASSUME NEW q \in 1..n, q - 1 \in B PROVE q \in B
    <3>1. q \in 0..n /\ q - 1 \in 0..n /\ a \in 0..n
      BY <1>1
    <3>2. count[q] = count[q - 1] + MadeFor(rs[q]).nc /\ MadeFor(rs[q]).nc \in Nat
      BY <1>1, <1>2
    <3>3. CASE q = a
      BY <1>1, <3>1, <3>3
    <3>4. CASE q # a
      <4>1. q >= a => q - 1 >= a
        BY <1>1, <3>1, <3>4
      <4>2. count[q] \in Nat /\ count[q - 1] \in Nat /\ count[a] \in Nat
        BY <1>1, <3>1
      <4> QED BY <2>2, <3>1, <3>2, <4>1, <4>2
    <3> QED BY <3>3, <3>4
  <2> HIDE DEF B
  <2>3. \A q \in 0..n : q \in B
    BY <1>1, <2>1, <2>2, UpTo
  <2>4. b - 1 \in 0..n /\ b - 1 >= a /\ a \in 0..n /\ a - 1 \in 0..n
    BY <1>1, <1>3
  <2>5. count[b - 1] >= count[a]
    BY <2>3, <2>4 DEF B
  <2>6. count[a] = count[a - 1] + 1 /\ rs[a].k = count[a - 1] + 1 /\ rs[b].k = count[b - 1] + 1
    BY <1>1, <1>3
  <2>7. count[a] \in Nat /\ count[b - 1] \in Nat /\ count[a - 1] \in Nat
    BY <1>1, <2>4
  <2> QED BY <2>5, <2>6, <2>7
<1>4. i \in 1..n /\ j \in 1..n /\ i # j /\ (i < j \/ j < i)
  BY <1>1 DEF n
<1>5. rs[i].call # rs[j].call
  BY <1>1, <1>4
<1>6. rs[i].k \in Nat /\ rs[j].k \in Nat
  BY <1>1, <1>4 DEF Requests
<1>7. ASSUME MadeFor(rs[i]).nc = 1, MadeFor(rs[j]).nc = 1 PROVE rs[i].k # rs[j].k
  <2>1. CASE i < j
    BY <1>3, <1>4, <1>6, <1>7, <2>1
  <2>2. CASE j < i
    BY <1>3, <1>4, <1>6, <1>7, <2>2
  <2> QED BY <1>4, <2>1, <2>2
<1> QED BY <1>5, <1>7

(* The clauses a process generates for any requests on N inputs, by any     *)
(* encoding and for any bounds, together have a solution over given inputs  *)
(* exactly when the inputs meet every constraint: no assignment of the      *)
(* inputs is lost or added, and the auxiliary variables of one constraint   *)
(* do not meddle with another's.                                            *)
THEOREM EncodingsExact ==
    ASSUME NEW N \in Nat \ {0}, NEW rs, NEW count, Served(rs, count),
           \A i \in 1..Len(rs) : rs[i].n = N /\ ~Refuses(rs[i]),
           NEW t \in SUBSET Xs(N)
    PROVE  (\E T : T \cap Xs(N) = t /\ \A i \in 1..Len(rs) : Obeys(T, MadeFor(rs[i]).gates))
             <=> \A i \in 1..Len(rs) : Meets(t, Contract(rs[i]))
<1> DEFINE R == {rs[i] : i \in 1..Len(rs)}
<1>1. \A i \in 1..Len(rs) : rs[i] \in Requests
  BY DEF Served
<1>2. R \in SUBSET Requests /\ \A r \in R : r.n = N /\ ~Refuses(r)
  BY <1>1
<1>3. \A r \in R : \E i \in 1..Len(rs) : r = rs[i]
  OBVIOUS
<1>4. \A i \in 1..Len(rs) : rs[i] \in R
  OBVIOUS
<1> HIDE DEF R
<1>5. Numbered(R)
  <2> SUFFICES ASSUME NEW r \in R, NEW s \in R, r # s
               PROVE  r.call # s.call /\ (MadeFor(r).nc = 1 /\ MadeFor(s).nc = 1 => r.k # s.k)
    BY Zenon DEF Numbered
  <2>1. PICK i \in 1..Len(rs), j \in 1..Len(rs) : r = rs[i] /\ s = rs[j]
    BY <1>3
  <2> QED BY <2>1, ServedApart
<1>6. (\E T : T \cap Xs(N) = t /\ \A r \in R : Obeys(T, MadeFor(r).gates))
        <=> \A r \in R : Meets(t, Contract(r))
  BY <1>2, <1>5, TogetherExact
<1>7. \A T : (\A r \in R : Obeys(T, MadeFor(r).gates))
               <=> \A i \in 1..Len(rs) : Obeys(T, MadeFor(rs[i]).gates)
  BY <1>3, <1>4, Zenon
<1>8. (\A r \in R : Meets(t, Contract(r))) <=> \A i \in 1..Len(rs) : Meets(t, Contract(rs[i]))
  BY <1>3, <1>4, Zenon
<1> QED BY <1>6, <1>7, <1>8

(* add_cl ends the program on a clause it has seen.  No clause on an        *)
(* auxiliary variable is in two gates of a process, of one request or of    *)
(* two, whatever the encodings, inputs and bounds.                          *)
THEOREM ClausesDistinct ==
    ASSUME NEW rs, NEW count, Served(rs, count),
           NEW i \in 1..Len(rs), NEW j \in 1..Len(rs),
           NEW p \in DOMAIN MadeFor(rs[i]).gates, NEW q \in DOMAIN MadeFor(rs[j]).gates,
           NEW c \in MadeFor(rs[i]).gates[p] \cap MadeFor(rs[j]).gates[q], Auxiliary(c)
    PROVE  i = j /\ p = q
<1> DEFINE R == {rs[i], rs[j]}
<1>1. \A a \in 1..Len(rs) : rs[a] \in Requests /\ rs[a].call = a
  BY DEF Served
<1>2. R \in SUBSET Requests
  BY <1>1
<1>3. \A r, s \in R : r # s => r.call # s.call /\ (MadeFor(r).nc = 1 /\ MadeFor(s).nc = 1 => r.k # s.k)
  BY ServedApart
<1>4. Numbered(R)
  BY <1>3, Zenon DEF Numbered
<1>5. rs[i] \in R /\ rs[j] \in R
  OBVIOUS
<1> HIDE DEF R
<1>6. rs[i] = rs[j] /\ p = q
  BY <1>2, <1>3, <1>4, <1>5, TogetherDistinct
<1> QED BY <1>1, <1>6

(* The program refuses a request of any size exactly when its callers count *)
(* it as refused.                                                           *)
THEOREM RefusalsExact ==
    \A r \in Requests : MadeFor(r).dies <=> Refuses(r)
BY RefusedDie

-----------------------------------------------------------------------------
(***************************************************************************)
(* Solvable decides whether finitely many clauses have a solution.         *)
(***************************************************************************)
(* Every step takes a literal and its opposite out of the clauses.          *)
LEMMA OppositeIs ==
    ASSUME NEW V, NEW l \in BOOLEAN \X V
    PROVE  /\ Opposite(l) = Neg(l) /\ Opposite(l) \in BOOLEAN \X V
           /\ Opposite(Opposite(l)) = l /\ Opposite(l)[2] = l[2] /\ Opposite(l)[1] = ~l[1]
<1>1. PICK b \in BOOLEAN, v \in V : l = <<b, v>>
  OBVIOUS
<1>2. \A x, y : <<x, y>>[1] = x /\ <<x, y>>[2] = y
  OBVIOUS
<1>3. l[1] = b /\ l[2] = v
  BY <1>1, <1>2
<1>4. Opposite(l) = <<~b, v>> /\ Neg(l) = <<~b, v>>
  BY <1>3 DEF Opposite, Neg
<1>5. <<~b, v>> \in BOOLEAN \X V
  OBVIOUS
<1>6. Opposite(l)[1] = ~b /\ Opposite(l)[2] = v
  BY <1>4, <1>2
<1>7. Opposite(Opposite(l)) = <<~(~b), v>>
  BY <1>6 DEF Opposite
<1>8. (~(~b)) = b
  OBVIOUS
<1> QED BY <1>1, <1>3, <1>4, <1>5, <1>6, <1>7, <1>8

LEMMA SameVariable ==
    ASSUME NEW V, NEW l \in BOOLEAN \X V, NEW m \in BOOLEAN \X V, l[2] = m[2]
    PROVE  l = m \/ l = Opposite(m)
<1>1. PICK b \in BOOLEAN, v \in V : l = <<b, v>>
  OBVIOUS
<1>2. PICK c \in BOOLEAN, w \in V : m = <<c, w>>
  OBVIOUS
<1>3. \A x, y : <<x, y>>[1] = x /\ <<x, y>>[2] = y
  OBVIOUS
<1>4. v = w
  BY <1>1, <1>2, <1>3
<1>5. Opposite(m) = <<~c, w>>
  BY <1>2, <1>3 DEF Opposite
<1>6. b = c \/ b = ~c
  OBVIOUS
<1> QED BY <1>1, <1>2, <1>4, <1>5, <1>6

HasSolution(clauses) == \E T : Fulfils(T, clauses)

(* What is left of the clauses is what a solution in which these literals   *)
(* are true still has to fulfil.                                            *)
LEMMA GivenIs ==
    ASSUME NEW V, NEW left, UNION left \subseteq BOOLEAN \X V,
           NEW true, true \subseteq BOOLEAN \X V, NEW T, \A l \in true : IsTrue(T, l)
    PROVE  Fulfils(T, left) <=> Fulfils(T, Given(left, true))
<1> DEFINE gone == {Opposite(l) : l \in true}
<1>1. \A l \in gone : ~IsTrue(T, l)
  <2> SUFFICES ASSUME NEW l \in true PROVE ~IsTrue(T, Opposite(l))
    OBVIOUS
  <2>1. Opposite(l) = Neg(l)
    BY OppositeIs
  <2> QED BY <2>1, TrueLiterals
<1>2. Given(left, true) = {c \ gone : c \in {d \in left : d \cap true = {}}}
  BY DEF Given
<1> HIDE DEF gone
<1>3. ASSUME Fulfils(T, left), NEW c \in left PROVE \E l \in c \ gone : IsTrue(T, l)
  BY <1>1, <1>3 DEF Fulfils
<1>4. ASSUME Fulfils(T, Given(left, true)), NEW c \in left PROVE \E l \in c : IsTrue(T, l)
  <2>1. CASE c \cap true = {}
    <3>1. c \ gone \in Given(left, true)
      BY <1>2, <2>1
    <3> QED BY <1>4, <3>1 DEF Fulfils
  <2>2. CASE c \cap true # {}
    BY <2>2
  <2> QED BY <2>1, <2>2
<1>5. Fulfils(T, left) => Fulfils(T, Given(left, true))
  BY <1>2, <1>3 DEF Fulfils
<1>6. Fulfils(T, Given(left, true)) => Fulfils(T, left)
  BY <1>4 DEF Fulfils
<1> QED BY <1>5, <1>6

LEMMA GivenLess ==
    ASSUME NEW V, NEW left, UNION left \subseteq BOOLEAN \X V,
           NEW true, true \subseteq BOOLEAN \X V
    PROVE  /\ UNION Given(left, true) \subseteq UNION left
           /\ \A l \in true : \A m \in UNION Given(left, true) : m[2] # l[2]
<1> DEFINE gone == {Opposite(l) : l \in true}
<1>1. \A m \in UNION Given(left, true) : m \in UNION left /\ m \notin true /\ m \notin gone
  BY DEF Given
<1>2. ASSUME NEW l \in true, NEW m \in UNION Given(left, true), m[2] = l[2] PROVE FALSE
  <2>1. m = l \/ m = Opposite(l)
    BY <1>1, <1>2, SameVariable
  <2> QED BY <1>1, <2>1
<1> QED BY <1>1, <1>2

(* Literals of different variables can all be made true. *)
LEMMA GivenSatisfiable ==
    ASSUME NEW V, NEW left, UNION left \subseteq BOOLEAN \X V,
           NEW true, true \subseteq BOOLEAN \X V, \A l \in true : Opposite(l) \notin true,
           HasSolution(Given(left, true))
    PROVE  HasSolution(left)
<1>1. PICK T : Fulfils(T, Given(left, true))
  BY DEF HasSolution
<1> DEFINE T2 == {v \in T : \A l \in true : l[2] # v} \cup {l[2] : l \in {m \in true : m[1]}}
<1>2. \A l \in true : IsTrue(T2, l)
  <2> SUFFICES ASSUME NEW l \in true PROVE l[2] \in T2 <=> l[1]
    BY Zenon DEF IsTrue
  <2>1. ASSUME l[1] PROVE l[2] \in T2
    BY <2>1
  <2>2. ASSUME l[2] \in T2 PROVE l[1]
    <3>1. PICK m \in true : m[1] /\ m[2] = l[2]
      BY <2>2
    <3>2. m = l \/ m = Opposite(l)
      BY <3>1, SameVariable
    <3>3. m # Opposite(l)
      OBVIOUS
    <3> QED BY <3>1, <3>2, <3>3
  <2> QED BY <2>1, <2>2, Zenon
<1>3. \A v : (\A l \in true : l[2] # v) => (v \in T2 <=> v \in T)
  OBVIOUS
<1> HIDE DEF T2
<1>4. \A v \in GateVars(Given(left, true)) : v \in T <=> v \in T2
  <2>1. \A m \in UNION Given(left, true) : m[2] \in T <=> m[2] \in T2
    BY <1>3, GivenLess
  <2> QED BY <2>1 DEF GateVars
<1>5. Fulfils(T2, Given(left, true))
  BY <1>1, <1>4, FulfilsSame
<1>6. Fulfils(T2, left)
  BY <1>2, <1>5, GivenIs
<1> QED BY <1>6 DEF HasSolution

-----------------------------------------------------------------------------
LEMMA DecidedIs ==
    ASSUME NEW V, NEW left, UNION left \subseteq BOOLEAN \X V, NEW rest,
           \A m \in UNION left : \A sub :
             UNION sub \subseteq (UNION left) \ {m} => (rest[sub] <=> HasSolution(sub))
    PROVE  Decided(rest, left) <=> HasSolution(left)
<1> DEFINE units == UnitsOf(left)
           lits == UNION left
           l == CHOOSE m \in lits : TRUE
<1>1. CASE left = {}
  <2>1. Fulfils({}, left)
    BY <1>1 DEF Fulfils
  <2> QED BY <1>1, <2>1 DEF Decided, HasSolution
<1>2. CASE {} \in left
  <2>1. ~HasSolution(left)
    BY <1>2 DEF HasSolution, Fulfils
  <2>2. left # {}
    BY <1>2
  <2> QED BY <1>2, <2>1, <2>2 DEF Decided
<1>3. ASSUME NEW true, true \subseteq BOOLEAN \X V, NEW m \in lits,
             (\E k \in true : k[2] = m[2])
      PROVE  rest[Given(left, true)] <=> HasSolution(Given(left, true))
  <2>1. UNION Given(left, true) \subseteq lits \ {m}
    BY <1>3, GivenLess
  <2> QED BY <2>1
<1>4. CASE left # {} /\ {} \notin left /\ units # {}
  <2>1. units \subseteq lits /\ units \subseteq BOOLEAN \X V /\ \A m \in units : {m} \in left
    BY DEF UnitsOf
  <2> HIDE DEF units
  <2>2. PICK m \in units : TRUE
    BY <1>4
  <2>3. rest[Given(left, units)] <=> HasSolution(Given(left, units))
    BY <1>3, <2>1, <2>2
  <2>4. Decided(rest, left) <=> /\ \A k \in units : Opposite(k) \notin units
                                /\ rest[Given(left, units)]
    BY <1>4 DEF Decided, units
  <2>5. ASSUME NEW T, Fulfils(T, left)
        PROVE  (\A k \in units : Opposite(k) \notin units) /\ HasSolution(Given(left, units))
    <3>1. \A k \in units : IsTrue(T, k)
      <4> TAKE k \in units
      <4>1. \E j \in {k} : IsTrue(T, j)
        BY <2>1, <2>5, Zenon DEF Fulfils
      <4> QED BY <4>1
    <3>2. \A k \in units : ~IsTrue(T, Opposite(k))
      <4> TAKE k \in units
      <4>1. k \in BOOLEAN \X V
        BY <2>1
      <4>2. Opposite(k) = Neg(k)
        BY <4>1, OppositeIs
      <4>3. IsTrue(T, k)
        BY <3>1
      <4> QED BY <4>1, <4>2, <4>3, TrueLiterals
    <3>3. Fulfils(T, Given(left, units))
      BY <2>1, <2>5, <3>1, GivenIs
    <3> QED BY <3>1, <3>2, <3>3 DEF HasSolution
  <2>6. ASSUME \A k \in units : Opposite(k) \notin units, HasSolution(Given(left, units))
        PROVE  HasSolution(left)
    BY <2>1, <2>6, GivenSatisfiable
  <2> QED BY <2>3, <2>4, <2>5, <2>6, Zenon DEF HasSolution
<1>5. CASE left # {} /\ {} \notin left /\ units = {}
  <2>1. l \in lits
    <3>1. lits # {}
      BY <1>5
    <3> HIDE DEF lits
    <3> QED BY <3>1
  <2>2. Decided(rest, left) <=> rest[Given(left, {l})] \/ rest[Given(left, {Opposite(l)})]
    BY <1>5, Zenon DEF Decided
  <2> HIDE DEF l
  <2>3. l \in BOOLEAN \X V
    BY <2>1
  <2>4. /\ Opposite(l) = Neg(l) /\ Opposite(l) \in BOOLEAN \X V
        /\ Opposite(Opposite(l)) = l /\ Opposite(l)[2] = l[2] /\ Opposite(l)[1] = ~l[1]
    BY <2>3, OppositeIs
  <2>5. \A k \in {l, Opposite(l)} : rest[Given(left, {k})] <=> HasSolution(Given(left, {k}))
    <3> TAKE k \in {l, Opposite(l)}
    <3>1. {k} \subseteq BOOLEAN \X V /\ \E j \in {k} : j[2] = l[2]
      BY <2>3, <2>4
    <3> QED BY <1>3, <2>1, <3>1
  <2>6. ASSUME NEW T, Fulfils(T, left)
        PROVE  HasSolution(Given(left, {l})) \/ HasSolution(Given(left, {Opposite(l)}))
    <3>1. \A k \in {l, Opposite(l)} : IsTrue(T, k) => HasSolution(Given(left, {k}))
      <4> TAKE k \in {l, Opposite(l)}
      <4> HAVE IsTrue(T, k)
      <4>1. {k} \subseteq BOOLEAN \X V /\ \A j \in {k} : IsTrue(T, j)
        BY <2>3, <2>4
      <4>2. Fulfils(T, Given(left, {k}))
        BY <2>6, <4>1, GivenIs
      <4> QED BY <4>2 DEF HasSolution
    <3>2. IsTrue(T, l) \/ IsTrue(T, Opposite(l))
      BY <2>4, TrueLiterals
    <3> QED BY <3>1, <3>2
  <2>7. \A k \in {l, Opposite(l)} : HasSolution(Given(left, {k})) => HasSolution(left)
    <3> TAKE k \in {l, Opposite(l)}
    <3>1. {k} \subseteq BOOLEAN \X V
      BY <2>3, <2>4
    <3>2. \A j \in {k} : Opposite(j) \notin {k}
      <4>1. k \in BOOLEAN \X V
        BY <3>1
      <4>2. Opposite(k)[1] = ~k[1] /\ k[1] \in BOOLEAN
        BY <4>1, OppositeIs
      <4>3. Opposite(k) # k
        BY <4>2
      <4> QED BY <4>3
    <3> QED BY <3>1, <3>2, GivenSatisfiable
  <2> QED BY <2>2, <2>5, <2>6, <2>7, Zenon DEF HasSolution
<1> QED BY <1>1, <1>2, <1>4, <1>5

LEMMA SolvableIs ==
    ASSUME NEW V, NEW clauses, UNION clauses \subseteq BOOLEAN \X V, IsFiniteSet(UNION clauses)
    PROVE  Solvable(clauses) <=> HasSolution(clauses)
<1> DEFINE L == UNION clauses
           D == SUBSET SUBSET L
           Turn(g) == [left \in D |-> Decided(g, left)]
           base == [left \in D |-> left = {}]
           B == [D -> BOOLEAN]
           V1 == [n \in Nat |-> B]
           step == [n \in Nat |-> [g \in B |-> Turn(g)]]
           Body(f, n) == [left \in D |-> IF n = 0 THEN left = {} ELSE Decided(f[n - 1], left)]
<1>1. base \in B /\ \A g \in B : Turn(g) \in B
  <2>1. \A left \in D : (left = {}) \in BOOLEAN
    OBVIOUS
  <2>2. \A g : \A left \in D : Decided(g, left) \in BOOLEAN
    BY Zenon DEF Decided
  <2> QED BY <2>1, <2>2
<1>2. base \in V1[0] /\ \A n \in Nat : n # 0 => \A g \in V1[n - 1] : step[n][g] \in V1[n]
  <2>1. \A n \in Nat : n # 0 => n - 1 \in Nat
    OBVIOUS
  <2>2. \A n \in Nat : V1[n] = B
    BY Zenon
  <2>3. \A n \in Nat : \A g \in B : step[n][g] = Turn(g)
    <3> HIDE DEF Turn, B
    <3> QED BY Zenon
  <2>4. 0 \in Nat
    OBVIOUS
  <2>5. base \in V1[0]
    <3>1. V1[0] = B
      BY <2>2, <2>4, Zenon
    <3> HIDE DEF V1, B, base
    <3> QED BY <1>1, <3>1
  <2>6. ASSUME NEW n \in Nat, n # 0 PROVE \A g \in V1[n - 1] : step[n][g] \in V1[n]
    <3>1. V1[n - 1] = B /\ V1[n] = B
      <4> HIDE DEF V1, B
      <4> QED BY <2>1, <2>2, <2>6
    <3> HIDE DEF V1, B, step, Turn
    <3> QED BY <1>1, <2>3, <3>1, Zenon
  <2> HIDE DEF V1, B, step, base
  <2> QED BY <2>5, <2>6, Zenon
<1>3. PICK f : IsRecursion(f, base, step)
  <2> HIDE DEF V1, step, base
  <2> QED BY <1>2, RecursionExists
<1>4. \A n \in Nat : f[n] \in B
  <2>1. \A n \in Nat : f[n] \in V1[n]
    <3> HIDE DEF V1, step, base
    <3> QED BY <1>2, <1>3, RecursionExists
  <2> QED BY <2>1
<1>5. \A n \in Nat : Body(f, n) = IF n = 0 THEN base ELSE step[n][f[n - 1]]
  <2> TAKE n \in Nat
  <2>1. CASE n = 0
    <3>1. Body(f, 0) = base
      OBVIOUS
    <3> HIDE DEF Body, base, step
    <3> QED BY <2>1, <3>1
  <2>2. CASE n # 0
    <3>0. n - 1 \in Nat
      BY <2>2
    <3>1. n - 1 \in Nat /\ f[n - 1] \in B
      <4> HIDE DEF B
      <4> QED BY <1>4, <3>0, Zenon
    <3>2. step[n][f[n - 1]] = Turn(f[n - 1])
      <4> HIDE DEF Turn, B
      <4> QED BY <3>1, Zenon
    <3>3. Body(f, n) = Turn(f[n - 1])
      BY <2>2, Zenon
    <3> HIDE DEF Body, step, Turn
    <3> QED BY <2>2, <3>2, <3>3
  <2> QED BY <2>1, <2>2
<1>6. f = [n \in Nat |-> Body(f, n)]
  <2> HIDE DEF Body, base, step
  <2>1. [n \in Nat |-> Body(f, n)] = [n \in Nat |-> IF n = 0 THEN base ELSE step[n][f[n - 1]]]
    BY <1>5, Zenon
  <2> QED BY <1>3, <2>1, Zenon DEF IsRecursion
<1> DEFINE s == CHOOSE g : g = [n \in Nat |-> Body(g, n)]
<1>7. Solvable(clauses) = s[Cardinality(L)][clauses]
  BY Zenon DEF Solvable
<1>8. s = [n \in Nat |-> Body(s, n)]
  <2> HIDE DEF Body
  <2> QED BY <1>6, Zenon
<1> HIDE DEF s
<1>9. \A n \in Nat : \A left \in D :
        s[n][left] = IF n = 0 THEN left = {} ELSE Decided(s[n - 1], left)
  <2>1. \A n \in Nat : s[n] = Body(s, n)
    <3> HIDE DEF Body
    <3> QED BY <1>8, Zenon
  <2> TAKE n \in Nat
  <2> TAKE left \in D
  <2>2. Body(s, n)[left] = IF n = 0 THEN left = {} ELSE Decided(s[n - 1], left)
    <3> HIDE DEF D
    <3> QED BY Zenon
  <2> HIDE DEF Body
  <2> QED BY <2>1, <2>2
<1> DEFINE Right(n) == \A left \in D : Cardinality(UNION left) <= n => (s[n][left] <=> HasSolution(left))
           S == {n \in Nat : Right(n)}
<1>10. \A left \in D : IsFiniteSet(UNION left) /\ Cardinality(UNION left) \in Nat /\ UNION left \subseteq BOOLEAN \X V
  <2> TAKE left \in D
  <2>1. UNION left \subseteq L
    OBVIOUS
  <2> HIDE DEF L
  <2> QED BY <2>1, FS_Subset, FS_CardinalityType DEF L
<1>11. Right(0)
  <2> SUFFICES ASSUME NEW left \in D, Cardinality(UNION left) <= 0 PROVE s[0][left] <=> HasSolution(left)
    OBVIOUS
  <2>1. UNION left = {}
    <3> DEFINE X == UNION left
    <3>1. IsFiniteSet(X) /\ Cardinality(X) \in Nat /\ Cardinality(X) <= 0
      BY <1>10
    <3> HIDE DEF X
    <3>2. Cardinality(X) = 0
      BY <3>1
    <3>3. X = {}
      BY <3>1, <3>2, FS_EmptySet
    <3> QED BY <3>3 DEF X
  <2>2. s[0][left] = (left = {})
    BY <1>9
  <2>3. left = {} => HasSolution(left)
    BY DEF HasSolution, Fulfils
  <2>4. left # {} => {} \in left
    <3> HAVE left # {}
    <3>1. PICK c : c \in left
      OBVIOUS
    <3>2. \A k : k \notin c
      <4>1. \A k : k \in c => k \in UNION left
        BY <3>1, Zenon
      <4> HIDE DEF D
      <4> QED BY <2>1, <4>1
    <3>3. c = {}
      BY <3>2
    <3> QED BY <3>1, <3>3
  <2>5. {} \in left => ~HasSolution(left)
    BY DEF HasSolution, Fulfils
  <2> QED BY <2>2, <2>3, <2>4, <2>5
<1>12. ASSUME NEW n \in Nat, Right(n) PROVE Right(n + 1)
  <2> SUFFICES ASSUME NEW left \in D, Cardinality(UNION left) <= n + 1
               PROVE  s[n + 1][left] <=> HasSolution(left)
    OBVIOUS
  <2>1. s[n + 1][left] <=> Decided(s[n], left)
    <3>1. n + 1 \in Nat /\ n + 1 # 0 /\ (n + 1) - 1 = n
      OBVIOUS
    <3>2. s[n + 1][left] = IF n + 1 = 0 THEN left = {} ELSE Decided(s[(n + 1) - 1], left)
      BY <1>9, <3>1, Zenon
    <3> HIDE DEF D
    <3>3. s[n + 1][left] = Decided(s[n], left)
      BY <3>1, <3>2
    <3> QED BY <3>3
  <2>2. \A m \in UNION left : \A sub :
          UNION sub \subseteq (UNION left) \ {m} => (s[n][sub] <=> HasSolution(sub))
    <3> SUFFICES ASSUME NEW m \in UNION left, NEW sub, UNION sub \subseteq (UNION left) \ {m}
                 PROVE  s[n][sub] <=> HasSolution(sub)
      OBVIOUS
    <3>1. sub \in D
      OBVIOUS
    <3>2. Cardinality(UNION sub) <= n
      <4> DEFINE X == UNION left
                 Y0 == X \ {m}
      <4>1. IsFiniteSet(X) /\ Cardinality(X) \in Nat /\ Cardinality(X) <= n + 1 /\ m \in X
        BY <1>10
      <4>2. UNION sub \subseteq Y0
        OBVIOUS
      <4> HIDE DEF X
      <4>3. IsFiniteSet(Y0) /\ Cardinality(Y0) = Cardinality(X) - 1
        BY <4>1, FS_RemoveElement
      <4> HIDE DEF Y0
      <4>4. Cardinality(UNION sub) <= Cardinality(Y0) /\ Cardinality(UNION sub) \in Nat
        BY <4>2, <4>3, FS_Subset, FS_CardinalityType
      <4> QED BY <4>1, <4>3, <4>4
    <3> HIDE DEF D
    <3> QED BY <1>12, <3>1, <3>2
  <2>3. Decided(s[n], left) <=> HasSolution(left)
    <3>1. UNION left \subseteq BOOLEAN \X V
      BY <1>10
    <3> HIDE DEF D
    <3> QED BY <2>2, <3>1, DecidedIs
  <2> QED BY <2>1, <2>3
<1>13. \A n \in Nat : n \in S
  <2>1. 0 \in S
    BY <1>11
  <2> HIDE DEF Right
  <2>2. \A n \in Nat : n \in S => n + 1 \in S
    BY <1>12
  <2> HIDE DEF S
  <2> QED BY <2>1, <2>2, AllNat
<1>14. clauses \in D /\ Cardinality(L) \in Nat /\ Cardinality(UNION clauses) <= Cardinality(L)
  <2>1. clauses \in D
    OBVIOUS
  <2> QED BY <1>10, <2>1
<1>15. Right(Cardinality(L))
  BY <1>13, <1>14
<1> HIDE DEF D, L
<1> QED BY <1>7, <1>14, <1>15

-----------------------------------------------------------------------------
(***************************************************************************)
(* The constraints of a process (Card): in every state they are what a     *)
(* process serving some requests one after the other has made.             *)
(***************************************************************************)
Entry(r) == [enc |-> r.enc, op |-> r.op, n |-> r.n, rhs |-> r.rhs, made |-> MadeFor(r)]

Serves(rs, count) ==
  /\ Served(rs, count)
  /\ requests = [i \in 1..Len(rs) |-> Entry(rs[i])]
  /\ nconstr = count[Len(rs)]
  /\ \A i \in 1..Len(rs) : rs[i].n = rs[1].n

CardInv == \E rs, count : Serves(rs, count)

(* Where the elements of a joined sequence come from: each from a place of  *)
(* its own.                                                                 *)
Placed(seqs, before) ==
  \A i \in DOMAIN FlattenSeq(seqs) : \E a \in 1..Len(seqs) : \E p \in DOMAIN seqs[a] :
    FlattenSeq(seqs)[i] = seqs[a][p] /\ i = before[a] + p

LEMMA FlattenPlaces ==
    ASSUME NEW A, NEW seqs \in Seq(Seq(A))
    PROVE  \E before : Placed(seqs, before)
<1> DEFINE n == Len(seqs)
<1>1. PICK P : Joins(seqs, A, P)
  BY FlattenLoop
<1>2. /\ n \in Nat /\ P \in [0..n -> Seq(A)] /\ P[0] = <<>>
      /\ \A k \in 1..n : P[k] = P[k - 1] \o seqs[k]
      /\ FlattenSeq(seqs) = P[n]
  <2>1. n \in Nat
    OBVIOUS
  <2> QED BY <1>1, <2>1, Zenon DEF Joins
<1>3. \A k \in 1..n : seqs[k] \in Seq(A)
  OBVIOUS
<1> DEFINE before == [a \in 1..n |-> Len(P[a - 1])]
           From(k, i) == \E a \in 1..n : \E p \in DOMAIN seqs[a] : P[k][i] = seqs[a][p] /\ i = before[a] + p
           S == {k \in 0..n : \A i \in DOMAIN P[k] : From(k, i)}
<1>4. 0 \in S
  <2>1. DOMAIN P[0] = {}
    BY <1>2
  <2> QED BY <1>2, <2>1
<1>5. ASSUME NEW k \in 1..n, k - 1 \in S PROVE k \in S
  <2> DEFINE old == P[k - 1]
             new == seqs[k]
  <2>1. k \in 0..n /\ k - 1 \in 0..n
    BY <1>2
  <2>2. old \in Seq(A) /\ new \in Seq(A) /\ P[k] = old \o new /\ before[k] = Len(old)
    BY <1>2, <1>3, <2>1
  <2>3. \A i \in DOMAIN old : From(k - 1, i)
    BY <1>5
  <2> HIDE DEF before
  <2>4. /\ Len(old) \in Nat /\ Len(new) \in Nat /\ DOMAIN old = 1..Len(old) /\ DOMAIN new = 1..Len(new)
        /\ DOMAIN P[k] = 1..(Len(old) + Len(new))
        /\ \A p \in 1..Len(old) : P[k][p] = old[p]
        /\ \A p \in 1..Len(new) : P[k][Len(old) + p] = new[p]
    <3> HIDE DEF old, new
    <3>1. /\ P[k] \in Seq(A) /\ Len(P[k]) = Len(old) + Len(new) /\ Len(old) \in Nat /\ Len(new) \in Nat
          /\ \A p \in 1..Len(old) : P[k][p] = old[p]
          /\ \A p \in 1..Len(new) : P[k][Len(old) + p] = new[p]
      BY <2>2, ConcatIs
    <3>2. DOMAIN P[k] = 1..(Len(old) + Len(new))
      BY <3>1
    <3>3. DOMAIN old = 1..Len(old) /\ DOMAIN new = 1..Len(new)
      BY <2>2
    <3> QED BY <3>1, <3>2, <3>3
  <2>5. ASSUME NEW i \in DOMAIN P[k] PROVE From(k, i)
    <3>1. CASE i \in DOMAIN old
      <4>1. P[k][i] = P[k - 1][i]
        BY <2>4, <3>1
      <4>2. From(k - 1, i)
        BY <2>3, <3>1
      <4> QED BY <4>1, <4>2
    <3>2. CASE i \notin DOMAIN old
      <4>0. i \in 1..(Len(old) + Len(new)) /\ i \notin 1..Len(old)
        BY <2>4, <3>2
      <4>1. i - Len(old) \in DOMAIN new /\ i = Len(old) + (i - Len(old))
        <5> HIDE DEF old, new
        <5> QED BY <2>4, <4>0
      <4>2. P[k][i] = new[i - Len(old)]
        BY <2>4, <4>1
      <4> HIDE DEF old
      <4> QED BY <2>2, <4>1, <4>2
    <3> QED BY <3>1, <3>2
  <2> HIDE DEF From
  <2> QED BY <2>1, <2>5
<1>6. n \in S
  <2>1. n \in 0..n
    BY <1>2
  <2> HIDE DEF S
  <2> QED BY <1>2, <1>4, <1>5, <2>1, UpTo
<1>7. \A i \in DOMAIN P[n] : \E a \in 1..n : \E p \in DOMAIN seqs[a] : P[n][i] = seqs[a][p] /\ i = before[a] + p
  BY <1>6
<1> HIDE DEF before, n
<1>8. \A i \in DOMAIN FlattenSeq(seqs) : \E a \in 1..n : \E p \in DOMAIN seqs[a] :
        FlattenSeq(seqs)[i] = seqs[a][p] /\ i = before[a] + p
  <2> TAKE i \in DOMAIN FlattenSeq(seqs)
  <2>1. i \in DOMAIN P[n] /\ P[n][i] = FlattenSeq(seqs)[i]
    BY <1>2
  <2>2. \E a \in 1..n : \E p \in DOMAIN seqs[a] : P[n][i] = seqs[a][p] /\ i = before[a] + p
    BY <1>7, <2>1, Zenon
  <2> QED BY <2>1, <2>2, Zenon
<1>9. Placed(seqs, before)
  BY <1>8, Zenon DEF Placed, n
<1> QED BY <1>9

(* Finitely many gates are on finitely many literals. *)
LEMMA TidyFinite ==
    ASSUME NEW s \in Seq(TidyGates)
    PROVE  LET all == UNION {s[i] : i \in DOMAIN s}
           IN  IsFiniteSet(UNION all) /\ UNION all \subseteq Literals
<1> DEFINE n == Len(s)
           U(k) == UNION UNION {s[i] : i \in 1..k}
           S == {k \in 0..n : IsFiniteSet(U(k)) /\ U(k) \subseteq Literals}
<1>1. n \in Nat /\ DOMAIN s = 1..n
  OBVIOUS
<1>2. \A i \in 1..n : IsFiniteSet(UNION s[i]) /\ UNION s[i] \subseteq Literals
  <2> TAKE i \in 1..n
  <2>1. s[i] \in TidyGates
    OBVIOUS
  <2>2. s[i] \in SUBSET SUBSET Literals /\ IsFiniteSet(UNION s[i])
    BY <2>1, Zenon DEF TidyGates
  <2> QED BY <2>2
<1> HIDE DEF n
<1>3. 0 \in S
  <2>1. U(0) = {}
    OBVIOUS
  <2> HIDE DEF U
  <2>2. IsFiniteSet(U(0)) /\ U(0) \subseteq Literals
    BY <2>1, FS_EmptySet
  <2>3. 0 \in 0..n
    BY <1>1
  <2> QED BY <2>2, <2>3, Zenon
<1>4. ASSUME NEW k \in 1..n, k - 1 \in S PROVE k \in S
  <2>1. k \in 0..n /\ 1..k = (1..(k - 1)) \cup {k}
    BY <1>1
  <2>2. U(k) = U(k - 1) \cup UNION s[k]
    <3>1. {s[i] : i \in 1..k} = {s[i] : i \in 1..(k - 1)} \cup {s[k]}
      BY <2>1
    <3> DEFINE X == {s[i] : i \in 1..(k - 1)}
               Y0 == {s[i] : i \in 1..k}
    <3> HIDE DEF X, Y0
    <3>2. Y0 = X \cup {s[k]}
      BY <3>1 DEF X, Y0
    <3>3. UNION (UNION Y0) = (UNION (UNION X)) \cup (UNION s[k])
      BY <3>2
    <3> QED BY <3>3 DEF X, Y0
  <2>3. IsFiniteSet(U(k - 1)) /\ U(k - 1) \subseteq Literals
    BY <1>4
  <2> HIDE DEF U
  <2>4. IsFiniteSet(U(k - 1) \cup UNION s[k])
    BY <1>2, <2>3, FS_Union
  <2> QED BY <1>2, <2>1, <2>2, <2>3, <2>4
<1>5. n \in S
  <2>1. n \in 0..n
    BY <1>1
  <2> HIDE DEF S
  <2> QED BY <1>1, <1>3, <1>4, <2>1, UpTo
<1> QED BY <1>1, <1>5

(* What dies makes nothing. *)
LEMMA DyingEmpty ==
    ASSUME NEW r \in Requests, MadeFor(r).dies
    PROVE  MadeFor(r).gates = <<>>
<1>1. Refuses(r)
  BY RefusedDie
<1>2. /\ r.enc \in {"a", "b", "i", "c", "e", "s"} /\ r.rhs \in 0..r.n /\ r.n \in Nat \ {0} /\ r.n \in Nat
  BY DEF Requests, Encodings
<1>3. MadeFor(r) = Dies
  <2>1. CASE r.op = "atmost"
    <3>1. MadeFor(r) = gen_card_constraint(r.enc, r.k, r.call, Inputs(r.n), r.rhs)
      BY <2>1 DEF MadeFor
    <3>2. Len(Inputs(r.n)) = r.n
      BY <1>2, InputsLen
    <3>3. \/ r.enc = "a"
          \/ r.enc = "e" /\ r.rhs > 1
          \/ r.enc = "c" /\ r.rhs > 1 /\ ~IsSmall(Inputs(r.n), r.rhs)
      BY <1>1, <1>2, <2>1, <3>2 DEF Refuses, NoAtMost, IsSmall
    <3>4. ~(r.rhs <= 1 /\ r.rhs > 1)
      BY <1>2
    <3>5. CASE r.enc = "a"
      BY <3>1, <3>5 DEF gen_card_constraint
    <3>6. CASE r.enc = "e" /\ r.rhs > 1
      BY <3>1, <3>6 DEF gen_card_constraint
    <3>7. CASE r.enc = "c" /\ r.rhs > 1 /\ ~IsSmall(Inputs(r.n), r.rhs)
      BY <3>1, <3>4, <3>7 DEF gen_card_constraint
    <3> QED BY <3>3, <3>5, <3>6, <3>7
  <2>2. CASE r.op # "atmost"
    <3>1. MadeFor(r) = gen_extra_card_constraint(r.enc, r.k, Inputs(r.n), r.rhs)
      BY <2>2 DEF MadeFor
    <3>2. NoAtLeast(r.enc, r.rhs)
      BY <1>1, <2>2 DEF Refuses
    <3> QED BY <1>2, <3>1, <3>2 DEF NoAtLeast, gen_extra_card_constraint
  <2> QED BY <2>1, <2>2
<1> QED BY <1>3 DEF Dies

LEMMA EntryIs ==
    \A r : /\ Entry(r).made = MadeFor(r) /\ Entry(r).n = r.n /\ Entry(r).enc = r.enc
           /\ Contract(Entry(r)) = Contract(r)
           /\ Refuses(Entry(r)) <=> Refuses(r)
<1> TAKE r
<1> DEFINE e == Entry(r)
<1>1. e.enc = r.enc /\ e.op = r.op /\ e.n = r.n /\ e.rhs = r.rhs /\ e.made = MadeFor(r)
  BY DEF Entry
<1> HIDE DEF e
<1>2. Contract(e) = Contract(r)
  BY <1>1 DEF Contract
<1>3. Refuses(e) <=> Refuses(r)
  BY <1>1 DEF Refuses
<1> QED BY <1>1, <1>2, <1>3 DEF e

(* The gates and the clauses of a process. *)
Parts == [i \in DOMAIN requests |-> requests[i].made.gates]

LEMMA PartsOf ==
    ASSUME NEW rs, NEW count, Serves(rs, count)
    PROVE  /\ Len(rs) \in Nat /\ DOMAIN requests = 1..Len(rs)
           /\ \A i \in 1..Len(rs) : rs[i] \in Requests /\ requests[i] = Entry(rs[i])
           /\ Parts \in Seq(Seq(TidyGates)) /\ Len(Parts) = Len(rs)
           /\ \A i \in 1..Len(rs) : Parts[i] = MadeFor(rs[i]).gates
           /\ Gates = FlattenSeq(Parts)
<1>1. rs \in Seq(Requests) /\ requests = [i \in 1..Len(rs) |-> Entry(rs[i])]
  BY Zenon DEF Serves, Served
<1>2. Len(rs) \in Nat /\ \A i \in 1..Len(rs) : rs[i] \in Requests
  BY <1>1
<1>3. DOMAIN requests = 1..Len(rs) /\ \A i \in 1..Len(rs) : requests[i] = Entry(rs[i])
  BY <1>1
<1>4. \A i \in 1..Len(rs) : requests[i].made.gates = MadeFor(rs[i]).gates
  BY <1>3, EntryIs
<1>5. \A i \in 1..Len(rs) : MadeFor(rs[i]).gates \in Seq(TidyGates)
  BY <1>2, RequestApart
<1>6. Parts = [i \in 1..Len(rs) |-> requests[i].made.gates]
  BY <1>3, Zenon DEF Parts
<1>7. Parts \in [1..Len(rs) -> Seq(TidyGates)] /\ \A i \in 1..Len(rs) : Parts[i] = MadeFor(rs[i]).gates
  <2> DEFINE G == Seq(TidyGates)
  <2>1. \A i \in 1..Len(rs) : requests[i].made.gates \in G
    BY <1>4, <1>5
  <2> HIDE DEF G
  <2>2. Parts \in [1..Len(rs) -> G] /\ \A i \in 1..Len(rs) : Parts[i] = MadeFor(rs[i]).gates
    BY <1>4, <1>6, <2>1
  <2> QED BY <2>2 DEF G
<1>8. Parts \in Seq(Seq(TidyGates)) /\ Len(Parts) = Len(rs)
  BY <1>2, <1>7, SeqFrom
<1> QED BY <1>2, <1>3, <1>7, <1>8 DEF Gates, Parts

(* To fulfil all clauses is to obey each constraint. *)
LEMMA AllObeyed ==
    ASSUME NEW rs, NEW count, Serves(rs, count), NEW T
    PROVE  Fulfils(T, AllClauses) <=> \A i \in 1..Len(rs) : Obeys(T, MadeFor(rs[i]).gates)
<1>1. Parts \in Seq(Seq(TidyGates)) /\ Len(Parts) = Len(rs) /\ Gates = FlattenSeq(Parts)
      /\ \A i \in 1..Len(rs) : Parts[i] = MadeFor(rs[i]).gates /\ Parts[i] \in Seq(TidyGates)
  <2>1. Parts \in Seq(Seq(TidyGates)) /\ Len(Parts) = Len(rs) /\ Gates = FlattenSeq(Parts)
      /\ \A i \in 1..Len(rs) : Parts[i] = MadeFor(rs[i]).gates
    BY PartsOf
  <2> HIDE DEF Parts, Gates
  <2> QED BY <2>1
<1>2. Gates \in Seq(TidyGates)
  BY <1>1, JoinedHas
<1>3. \A g : Contains(Gates, g) <=> \E j \in 1..Len(rs) : Contains(MadeFor(rs[j]).gates, g)
  <2> TAKE g
  <2>1. Contains(FlattenSeq(Parts), g) <=> \E j \in 1..Len(Parts) : Contains(Parts[j], g)
    BY <1>1, JoinedHas
  <2> HIDE DEF Parts, Gates
  <2> QED BY <1>1, <2>1
<1>4. \A s \in Seq(TidyGates) : Obeys(T, s) <=> \A g : Contains(s, g) => Fulfils(T, g)
  <2> TAKE s \in Seq(TidyGates)
  <2>1. DOMAIN s = 1..Len(s)
    OBVIOUS
  <2> QED BY <2>1, Zenon DEF Obeys, Contains
<1>5. Fulfils(T, AllClauses) <=> Obeys(T, Gates)
  <2> HIDE DEF Gates
  <2> QED BY Zenon DEF AllClauses, Fulfils, Obeys
<1>6. \A i \in 1..Len(rs) : Obeys(T, MadeFor(rs[i]).gates) <=> \A g : Contains(MadeFor(rs[i]).gates, g) => Fulfils(T, g)
  <2> TAKE i \in 1..Len(rs)
  <2>1. MadeFor(rs[i]).gates \in Seq(TidyGates)
    <3>1. Parts[i] = MadeFor(rs[i]).gates /\ Parts[i] \in Seq(TidyGates)
      BY <1>1
    <3> HIDE DEF Parts
    <3> QED BY <3>1
  <2> QED BY <1>4, <2>1, Zenon
<1>7. Obeys(T, Gates) <=> \A g : Contains(Gates, g) => Fulfils(T, g)
  BY <1>2, <1>4, Zenon
<1> QED BY <1>3, <1>5, <1>6, <1>7, Zenon

(* A process serves its first request and each one it is asked for after. *)
LEMMA NoneServed == CardInit => CardInv
<1> HAVE CardInit
<1> DEFINE rs == <<>>
           count == [i \in 0..0 |-> 0]
<1>1. rs \in Seq(Requests) /\ Len(rs) = 0 /\ 1..Len(rs) = {}
  OBVIOUS
<1>2. count \in [0..Len(rs) -> Nat] /\ count[0] = 0 /\ count[Len(rs)] = 0
  BY <1>1
<1>3. requests = [i \in 1..Len(rs) |-> Entry(rs[i])]
  <2>1. requests = <<>>
    BY DEF CardInit
  <2>2. [i \in 1..Len(rs) |-> Entry(rs[i])] = <<>>
    BY <1>1
  <2> QED BY <2>1, <2>2
<1>4. nconstr = 0
  BY DEF CardInit
<1> HIDE DEF rs, count
<1>5. Served(rs, count)
  BY <1>1, <1>2 DEF Served
<1>6. Serves(rs, count)
  BY <1>1, <1>2, <1>3, <1>4, <1>5 DEF Serves
<1> QED BY <1>6, Zenon DEF CardInv

LEMMA AnotherServed ==
    ASSUME NEW rs, NEW count, Serves(rs, count),
           NEW enc \in Encodings, NEW op \in {"atmost", "atleast"}, NEW n \in Nat \ {0}, NEW rhs \in 0..n,
           MayAsk(enc, n),
           NEW r, r = [enc |-> enc, op |-> op, n |-> n, rhs |-> rhs, k |-> nconstr + 1, call |-> Len(requests) + 1],
           Serve(enc, op, n, rhs, MadeFor(r))
    PROVE  CardInv'
<1> DEFINE N == Len(rs)
<1>1. /\ rs \in Seq(Requests) /\ N \in Nat /\ count \in [0..N -> Nat] /\ count[0] = 0
      /\ requests = [i \in 1..N |-> Entry(rs[i])] /\ nconstr = count[N] /\ nconstr \in Nat
      /\ \A i \in 1..N : rs[i].n = rs[1].n
      /\ \A i \in 1..N : /\ rs[i].call = i
                         /\ rs[i].k = count[i - 1] + 1
                         /\ count[i] = count[i - 1] + MadeFor(rs[i]).nc
  <2>1. rs \in Seq(Requests) /\ count \in [0..N -> Nat] /\ count[0] = 0
        /\ requests = [i \in 1..N |-> Entry(rs[i])] /\ nconstr = count[N]
        /\ \A i \in 1..N : rs[i].n = rs[1].n
    BY Zenon DEF Serves, Served
  <2>2. \A i \in 1..N : /\ rs[i].call = i
                        /\ rs[i].k = count[i - 1] + 1
                        /\ count[i] = count[i - 1] + MadeFor(rs[i]).nc
    BY Zenon DEF Serves, Served
  <2>3. N \in Nat
    BY <2>1
  <2>4. N \in 0..N
    BY <2>3
  <2>5. nconstr \in Nat
    <3> HIDE DEF N
    <3> QED BY <2>1, <2>4, Zenon
  <2> QED BY <2>1, <2>2, <2>3, <2>5
<1>2. Len(requests) = N /\ requests \in Seq({Entry(rs[i]) : i \in 1..N})
  <2> DEFINE A == {Entry(rs[i]) : i \in 1..N}
  <2>1. requests \in [1..N -> A]
    BY <1>1
  <2> HIDE DEF A, N
  <2> QED BY <1>1, <2>1, SeqFrom DEF A
<1>3. /\ r.enc = enc /\ r.op = op /\ r.n = n /\ r.rhs = rhs /\ r.k = nconstr + 1 /\ r.call = N + 1
  BY <1>2
<1>4. r \in Requests
  <2>1. r \in [enc : Encodings, op : {"atmost", "atleast"}, n : Nat \ {0}, rhs : Nat, k : Nat, call : Nat]
    <3>1. nconstr + 1 \in Nat /\ Len(requests) + 1 \in Nat /\ rhs \in Nat
      BY <1>1, <1>2
    <3> QED BY <3>1
  <2>2. r.rhs <= r.n
    BY <1>3
  <2> QED BY <2>1, <2>2 DEF Requests
<1>5. MadeFor(r).nc \in Nat
  BY <1>4, RequestAdvances
<1> DEFINE rs1 == Append(rs, r)
           count1 == [i \in 0..(N + 1) |-> IF i = N + 1 THEN count[N] + MadeFor(r).nc ELSE count[i]]
<1>6. /\ rs1 \in Seq(Requests) /\ Len(rs1) = N + 1
      /\ \A i \in 1..N : rs1[i] = rs[i]
      /\ rs1[N + 1] = r
  BY <1>1, <1>4
<1>7. /\ count1 \in [0..(N + 1) -> Nat] /\ count1[N + 1] = nconstr + MadeFor(r).nc
      /\ \A i \in 0..N : count1[i] = count[i]
  <2>0. N \in Nat
    BY <1>1
  <2>1. \A i \in 0..N : i \in 0..(N + 1) /\ i # N + 1 /\ count[i] \in Nat
    <3> HIDE DEF N
    <3>1. \A i \in 0..N : i \in 0..(N + 1) /\ i # N + 1
      BY <2>0
    <3>2. \A i \in 0..N : count[i] \in Nat
      BY <1>1
    <3> QED BY <3>1, <3>2
  <2>2. N + 1 \in 0..(N + 1) /\ \A i \in 0..(N + 1) : i # N + 1 => i \in 0..N
    BY <1>1
  <2> HIDE DEF N
  <2> QED BY <1>1, <1>5, <2>1, <2>2
<1>8. nconstr' = nconstr + MadeFor(r).nc /\ requests' = Append(requests, Entry(r))
  <2>1. Entry(r) = [enc |-> enc, op |-> op, n |-> n, rhs |-> rhs, made |-> MadeFor(r)]
    BY <1>3 DEF Entry
  <2> QED BY <2>1 DEF Serve
<1>9. requests' = [i \in 1..(N + 1) |-> Entry(rs1[i])]
  <2> DEFINE A == {Entry(rs[i]) : i \in 1..N}
             new == [i \in 1..(N + 1) |-> Entry(rs1[i])]
  <2>1. requests \in Seq(A) /\ Len(requests) = N
    BY <1>2
  <2> DEFINE e == Entry(r)
             app == Append(requests, e)
             B == A \cup {e}
  <2> HIDE DEF A, e
  <2>2. /\ DOMAIN app = 1..(N + 1) /\ \A i \in 1..N : app[i] = requests[i]
        /\ app[N + 1] = e
    BY <2>1, AppendIs
  <2>2a. app \in Seq(B)
    <3>1. requests \in Seq(B) /\ e \in B
      BY <2>1
    <3> HIDE DEF B
    <3> QED BY <3>1
  <2>2b. app = [i \in 1..(N + 1) |-> app[i]]
    <3>1. app = [i \in DOMAIN app |-> app[i]]
      <4> HIDE DEF app, B
      <4> QED BY <2>2a
    <3> QED BY <2>2, <3>1
  <2>3. \A i \in 1..N : requests[i] = Entry(rs1[i])
    <3> HIDE DEF rs1, N
    <3> QED BY <1>1, <1>6
  <2>4. e = Entry(rs1[N + 1])
    BY <1>6, Zenon DEF e
  <2>5. \A i \in 1..(N + 1) : i = N + 1 \/ i \in 1..N
    BY <1>1
  <2> HIDE DEF app, rs1
  <2>6. \A i \in 1..(N + 1) : app[i] = Entry(rs1[i])
    BY <2>2, <2>3, <2>4, <2>5, Zenon
  <2> HIDE DEF N
  <2>7. app = new
    BY <2>2b, <2>6
  <2> QED BY <1>8, <2>7 DEF app, e
<1>10. Served(rs1, count1)
  <2>1. ASSUME NEW i \in 1..(N + 1)
        PROVE  /\ rs1[i].call = i
               /\ rs1[i].k = count1[i - 1] + 1
               /\ count1[i] = count1[i - 1] + MadeFor(rs1[i]).nc
    <3>1. CASE i \in 1..N
      <4>1. i \in 0..N /\ i - 1 \in 0..N
        BY <1>1, <3>1
      <4>2. rs1[i] = rs[i] /\ count1[i] = count[i] /\ count1[i - 1] = count[i - 1]
        <5> HIDE DEF rs1, count1
        <5> QED BY <1>6, <1>7, <3>1, <4>1
      <4> HIDE DEF rs1, count1, N
      <4> QED BY <1>1, <3>1, <4>2
    <3>2. CASE i = N + 1
      <4>1. i - 1 = N /\ N \in 0..N
        BY <1>1, <3>2
      <4>2. rs1[i] = r /\ count1[i - 1] = count[N] /\ count1[i] = nconstr + MadeFor(r).nc
        <5> HIDE DEF rs1, count1, N
        <5> QED BY <1>6, <1>7, <3>2, <4>1
      <4> HIDE DEF rs1, count1, N
      <4> QED BY <1>1, <1>3, <3>2, <4>1, <4>2
    <3> QED BY <1>1, <3>1, <3>2
  <2>2. count1[0] = 0
    <3>1. 0 \in 0..N
      BY <1>1
    <3> HIDE DEF count1
    <3> QED BY <1>1, <1>7, <3>1
  <2> HIDE DEF rs1, count1, N
  <2> QED BY <1>6, <1>7, <2>1, <2>2, Zenon DEF Served
<1>11. \A i \in 1..(N + 1) : rs1[i].n = rs1[1].n
  <2>1. CASE N = 0
    BY <1>6, <2>1
  <2>2. CASE N # 0
    <3>1. 1 \in 1..N
      BY <1>1, <2>2
    <3>2. requests # <<>> /\ requests[1] = Entry(rs[1])
      <4>1. requests # <<>>
        BY <1>2, <2>2
      <4> HIDE DEF N
      <4> QED BY <1>1, <3>1, <4>1
    <3>3. n = requests[1].n
      BY <3>2 DEF MayAsk
    <3>4. rs[1].n = n
      BY <3>2, <3>3, EntryIs
    <3>5. \A i \in 1..(N + 1) : i = N + 1 \/ i \in 1..N
      BY <1>1
    <3>6. rs1[1] = rs[1] /\ \A i \in 1..N : rs1[i] = rs[i] /\ rs[i].n = n
      <4> HIDE DEF rs1
      <4> QED BY <1>1, <1>6, <3>1, <3>4
    <3> HIDE DEF rs1, N
    <3> QED BY <1>3, <1>6, <3>4, <3>5, <3>6
  <2> QED BY <2>1, <2>2
<1> HIDE DEF rs1, count1
<1>12. nconstr' = count1[Len(rs1)] /\ requests' = [i \in 1..Len(rs1) |-> Entry(rs1[i])]
  BY <1>6, <1>7, <1>8, <1>9
<1>13. Serves(rs1, count1)'
  <2>1. \A i \in 1..Len(rs1) : rs1[i].n = rs1[1].n
    BY <1>6, <1>11
  <2> QED BY <1>10, <1>12, <2>1, Zenon DEF Serves
<1> QED BY <1>13, Zenon DEF CardInv

LEMMA CardKeeps == CardInv /\ [CardNext]_cardVars => CardInv'
<1> SUFFICES ASSUME CardInv, [CardNext]_cardVars PROVE CardInv'
  OBVIOUS
<1>1. PICK rs, count : Serves(rs, count)
  BY Zenon DEF CardInv
<1>2. CASE AskAtMost
  <2>1. PICK enc \in Encodings, n \in 1..MaxInputs : \E rhs \in 0..n :
          MayAsk(enc, n) /\ Serve(enc, "atmost", n, rhs,
             gen_card_constraint(enc, nconstr + 1, Len(requests) + 1, Inputs(n), rhs))
    BY <1>2, Zenon DEF AskAtMost
  <2>2. PICK rhs \in 0..n :
          MayAsk(enc, n) /\ Serve(enc, "atmost", n, rhs,
             gen_card_constraint(enc, nconstr + 1, Len(requests) + 1, Inputs(n), rhs))
    BY <2>1, Zenon
  <2> DEFINE r == [enc |-> enc, op |-> "atmost", n |-> n, rhs |-> rhs, k |-> nconstr + 1, call |-> Len(requests) + 1]
  <2>3. MadeFor(r) = gen_card_constraint(enc, nconstr + 1, Len(requests) + 1, Inputs(n), rhs)
    BY DEF MadeFor
  <2>4. n \in Nat \ {0}
    OBVIOUS
  <2> HIDE DEF r
  <2>5. Serve(enc, "atmost", n, rhs, MadeFor(r))
    BY <2>2, <2>3
  <2> QED BY <1>1, <2>2, <2>4, <2>5, AnotherServed DEF r
<1>3. CASE AskAtLeast
  <2>1. PICK enc \in Encodings, n \in 1..MaxInputs : \E rhs \in 0..n :
          MayAsk(enc, n) /\ Serve(enc, "atleast", n, rhs,
             gen_extra_card_constraint(enc, nconstr + 1, Inputs(n), rhs))
    BY <1>3, Zenon DEF AskAtLeast
  <2>2. PICK rhs \in 0..n :
          MayAsk(enc, n) /\ Serve(enc, "atleast", n, rhs,
             gen_extra_card_constraint(enc, nconstr + 1, Inputs(n), rhs))
    BY <2>1, Zenon
  <2> DEFINE r == [enc |-> enc, op |-> "atleast", n |-> n, rhs |-> rhs, k |-> nconstr + 1, call |-> Len(requests) + 1]
  <2>3. MadeFor(r) = gen_extra_card_constraint(enc, nconstr + 1, Inputs(n), rhs)
    BY DEF MadeFor
  <2>4. n \in Nat \ {0}
    OBVIOUS
  <2> HIDE DEF r
  <2>5. Serve(enc, "atleast", n, rhs, MadeFor(r))
    BY <2>2, <2>3
  <2> QED BY <1>1, <2>2, <2>4, <2>5, AnotherServed DEF r
<1>4. CASE UNCHANGED cardVars
  <2>1. nconstr' = nconstr /\ requests' = requests
    BY <1>4 DEF cardVars
  <2>2. Serves(rs, count)'
    BY <1>1, <2>1 DEF Serves
  <2> QED BY <2>2, Zenon DEF CardInv
<1> QED BY <1>2, <1>3, <1>4, Zenon DEF CardNext

(* What holds of a process that serves requests. *)
LEMMA ServesRefusals ==
    ASSUME NEW rs, NEW count, Serves(rs, count)
    PROVE  RefusalsKnown
<1> SUFFICES ASSUME NEW i \in DOMAIN requests PROVE requests[i].made.dies <=> Refuses(requests[i])
  BY DEF RefusalsKnown
<1>1. i \in 1..Len(rs) /\ rs[i] \in Requests /\ requests[i] = Entry(rs[i])
  BY PartsOf
<1>2. MadeFor(rs[i]).dies <=> Refuses(rs[i])
  BY <1>1, RefusedDie
<1> QED BY <1>1, <1>2, EntryIs

LEMMA ServesDistinct ==
    ASSUME NEW rs, NEW count, Serves(rs, count)
    PROVE  GatesDistinct
<1> SUFFICES ASSUME NEW i \in DOMAIN Gates, NEW j \in DOMAIN Gates,
                    NEW c \in Gates[i] \cap Gates[j], Auxiliary(c)
             PROVE  i = j
  BY Zenon DEF GatesDistinct
<1>1. /\ Parts \in Seq(Seq(TidyGates)) /\ Len(Parts) = Len(rs)
      /\ \A a \in 1..Len(rs) : Parts[a] = MadeFor(rs[a]).gates
      /\ Gates = FlattenSeq(Parts)
  BY PartsOf, Zenon
<1> HIDE DEF Parts, Gates
<1>2. PICK before : Placed(Parts, before)
  BY <1>1, FlattenPlaces
<1>3. \A m \in DOMAIN Gates : \E a \in 1..Len(rs) : \E p \in DOMAIN MadeFor(rs[a]).gates :
        Gates[m] = MadeFor(rs[a]).gates[p] /\ m = before[a] + p
  <2> TAKE m \in DOMAIN Gates
  <2>1. m \in DOMAIN FlattenSeq(Parts) /\ Gates[m] = FlattenSeq(Parts)[m]
    BY <1>1
  <2>2. PICK a \in 1..Len(rs) : \E p \in DOMAIN Parts[a] : FlattenSeq(Parts)[m] = Parts[a][p] /\ m = before[a] + p
    BY <1>1, <1>2, <2>1, Zenon DEF Placed
  <2>3. Parts[a] = MadeFor(rs[a]).gates
    BY <1>1
  <2>4. \E p \in DOMAIN MadeFor(rs[a]).gates : Gates[m] = MadeFor(rs[a]).gates[p] /\ m = before[a] + p
    BY <2>1, <2>2, <2>3, Zenon
  <2> QED BY <2>4, Zenon
<1>4. PICK a \in 1..Len(rs) : \E p \in DOMAIN MadeFor(rs[a]).gates :
        Gates[i] = MadeFor(rs[a]).gates[p] /\ i = before[a] + p
  BY <1>3, Zenon
<1>5. PICK p \in DOMAIN MadeFor(rs[a]).gates : Gates[i] = MadeFor(rs[a]).gates[p] /\ i = before[a] + p
  BY <1>4, Zenon
<1>6. PICK b \in 1..Len(rs) : \E q \in DOMAIN MadeFor(rs[b]).gates :
        Gates[j] = MadeFor(rs[b]).gates[q] /\ j = before[b] + q
  BY <1>3, Zenon
<1>7. PICK q \in DOMAIN MadeFor(rs[b]).gates : Gates[j] = MadeFor(rs[b]).gates[q] /\ j = before[b] + q
  BY <1>6, Zenon
<1>8. c \in MadeFor(rs[a]).gates[p] \cap MadeFor(rs[b]).gates[q]
  BY <1>5, <1>7
<1>9. Served(rs, count)
  BY Zenon DEF Serves
<1>10. a = b /\ p = q
  <2>1. \A d \in MadeFor(rs[a]).gates[p] \cap MadeFor(rs[b]).gates[q] : Auxiliary(d) => a = b /\ p = q
    BY <1>9, ClausesDistinct
  <2> QED BY <1>8, <2>1
<1> QED BY <1>5, <1>7, <1>10

(* The clauses of the inputs' values are fulfilled by the sets that have    *)
(* these inputs and no other.                                               *)
LEMMA GivenInputs ==
    ASSUME NEW xs, NEW t \in SUBSET xs, NEW T
    PROVE  Fulfils(T, {{Pos(x)} : x \in t} \cup {{Neg(Pos(x))} : x \in xs \ t}) <=> T \cap xs = t
<1> DEFINE yes == {{Pos(x)} : x \in t}
           no  == {{Neg(Pos(x))} : x \in xs \ t}
<1>1. Fulfils(T, yes) <=> \A x \in t : x \in T
  <2>1. Fulfils(T, yes) <=> \A x \in t : \E l \in {Pos(x)} : IsTrue(T, l)
    <3> DEFINE F == [x \in t |-> {Pos(x)}]
    <3>1. yes = {F[x] : x \in t} /\ \A x \in t : F[x] = {Pos(x)}
      OBVIOUS
    <3> HIDE DEF F, yes
    <3> QED BY <3>1, FulfilsAll
  <2> QED BY <2>1, TrueLiterals
<1>2. Fulfils(T, no) <=> \A x \in xs \ t : x \notin T
  <2>1. Fulfils(T, no) <=> \A x \in xs \ t : \E l \in {Neg(Pos(x))} : IsTrue(T, l)
    <3> DEFINE D == xs \ t
               F == [x \in D |-> {Neg(Pos(x))}]
    <3>1. no = {F[x] : x \in D} /\ \A x \in D : F[x] = {Neg(Pos(x))}
      OBVIOUS
    <3>2. Fulfils(T, {F[x] : x \in D}) <=> \A x \in D : \E l \in F[x] : IsTrue(T, l)
      BY FulfilsAll
    <3> HIDE DEF F, no
    <3> QED BY <3>1, <3>2
  <2> QED BY <2>1, TrueLiterals
<1> HIDE DEF yes, no
<1>3. Fulfils(T, yes \cup no) <=> Fulfils(T, yes) /\ Fulfils(T, no)
  BY DEF Fulfils
<1>4. Fulfils(T, yes \cup no) <=> T \cap xs = t
  BY <1>1, <1>2, <1>3
<1> QED BY <1>4 DEF yes, no

LEMMA GivenTidy ==
    ASSUME NEW n \in Nat, NEW t \in SUBSET Xs(n)
    PROVE  LET units == {{Pos(x)} : x \in t} \cup {{Neg(Pos(x))} : x \in Xs(n) \ t}
           IN  UNION units \subseteq Literals /\ IsFiniteSet(UNION units)
<1> DEFINE units == {{Pos(x)} : x \in t} \cup {{Neg(Pos(x))} : x \in Xs(n) \ t}
           L == BOOLEAN \X Xs(n)
<1>1. IsFiniteSet(L)
  <2>1. IsFiniteSet({TRUE} \cup {FALSE})
    BY FS_Singleton, FS_AddElement
  <2>2. BOOLEAN = {TRUE} \cup {FALSE}
    OBVIOUS
  <2>3. IsFiniteSet(BOOLEAN)
    BY <2>1, <2>2
  <2> QED BY <2>3, XsFinite, FS_Product
<1>2. L \subseteq Literals
  <2>1. Xs(n) \subseteq InputNames
    BY DEF Xs, InputNames
  <2> QED BY <2>1, InputsFit DEF Literals
<1>3. \A x \in Xs(n) : Pos(x) \in L /\ Neg(Pos(x)) \in L
  <2>2. ASSUME NEW v \in Xs(n) PROVE Pos(v) \in L
    <3>1. TRUE \in BOOLEAN
      OBVIOUS
    <3> QED BY <3>1, Zenon DEF Pos
  <2>3. ASSUME NEW l \in L PROVE Neg(l) \in L
    <3>1. l[1] \in BOOLEAN /\ l[2] \in Xs(n)
      OBVIOUS
    <3>2. (~l[1]) \in BOOLEAN
      OBVIOUS
    <3> QED BY <3>1, <3>2, Zenon DEF Neg
  <2> HIDE DEF L
  <2> QED BY <2>2, <2>3
<1> HIDE DEF L
<1>4. UNION units \subseteq L
  <2>1. \A c \in units : c \subseteq L
    BY <1>3
  <2> HIDE DEF units
  <2> QED BY <2>1
<1> HIDE DEF units
<1>5. UNION units \subseteq Literals /\ IsFiniteSet(UNION units)
  BY <1>1, <1>2, <1>4, FS_Subset
<1> QED BY <1>5 DEF units

LEMMA ServesExactly ==
    ASSUME NEW rs, NEW count, Serves(rs, count)
    PROVE  EncodingExact
<1> DEFINE N == rs[1].n
<1> SUFFICES ASSUME requests # <<>>, NEW t \in SUBSET {<<"x", i>> : i \in 1..requests[1].n}
             PROVE  Solvable(AllClauses \cup {{Pos(x)} : x \in t}
                               \cup {{Neg(Pos(x))} : x \in {<<"x", i>> : i \in 1..requests[1].n} \ t})
                      <=> \A i \in DOMAIN requests : requests[i].made.dies \/ Meets(t, Contract(requests[i]))
  BY Zenon DEF EncodingExact
<1>1. /\ Served(rs, count) /\ Len(rs) \in Nat /\ DOMAIN requests = 1..Len(rs)
      /\ \A i \in 1..Len(rs) : rs[i] \in Requests /\ requests[i] = Entry(rs[i]) /\ rs[i].n = N
  <2>1. Served(rs, count) /\ \A i \in 1..Len(rs) : rs[i].n = N
    BY Zenon DEF Serves
  <2>2. /\ Len(rs) \in Nat /\ DOMAIN requests = 1..Len(rs)
        /\ \A i \in 1..Len(rs) : rs[i] \in Requests /\ requests[i] = Entry(rs[i])
    BY PartsOf
  <2> QED BY <2>1, <2>2
<1>2. 1 \in 1..Len(rs)
  <2>1. requests = [i \in 1..Len(rs) |-> Entry(rs[i])]
    BY Zenon DEF Serves
  <2>2. Len(rs) # 0
    BY <2>1
  <2> QED BY <1>1, <2>2
<1>3. requests[1].n = N /\ N \in Nat \ {0} /\ N \in Nat
  <2>1. rs[1] \in Requests /\ requests[1] = Entry(rs[1])
    BY <1>1, <1>2
  <2>2. rs[1].n \in Nat \ {0}
    BY <2>1 DEF Requests
  <2> QED BY <2>1, <2>2, EntryIs
<1> HIDE DEF N
<1>4. {<<"x", i>> : i \in 1..requests[1].n} = Xs(N)
  BY <1>3 DEF Xs
<1>5. t \in SUBSET Xs(N)
  BY <1>4
<1> DEFINE units == {{Pos(x)} : x \in t} \cup {{Neg(Pos(x))} : x \in Xs(N) \ t}
           Cl == AllClauses \cup units
           R == {rs[i] : i \in {j \in 1..Len(rs) : ~Refuses(rs[j])}}
<1>6. Solvable(Cl) <=> HasSolution(Cl)
  <2>1. UNION units \subseteq Literals /\ IsFiniteSet(UNION units)
    BY <1>3, <1>5, GivenTidy
  <2>2. Gates \in Seq(TidyGates)
    <3>1. Parts \in Seq(Seq(TidyGates)) /\ Gates = FlattenSeq(Parts)
      BY PartsOf
    <3> HIDE DEF Parts, Gates
    <3> QED BY <3>1, JoinedHas
  <2>3. UNION AllClauses \subseteq Literals /\ IsFiniteSet(UNION AllClauses)
    <3> HIDE DEF Gates
    <3> QED BY <2>2, TidyFinite DEF AllClauses
  <2> HIDE DEF units
  <2>4. UNION Cl = (UNION AllClauses) \cup (UNION units)
    OBVIOUS
  <2>5. UNION Cl \subseteq BOOLEAN \X Variables /\ IsFiniteSet(UNION Cl)
    <3>1. IsFiniteSet((UNION AllClauses) \cup (UNION units))
      BY <2>1, <2>3, FS_Union
    <3>2. (UNION AllClauses) \cup (UNION units) \subseteq Literals
      BY <2>1, <2>3
    <3> HIDE DEF Cl
    <3> QED BY <2>4, <3>1, <3>2, Zenon DEF Literals
  <2> HIDE DEF Cl
  <2> QED BY <2>5, SolvableIs
<1>7. \A T : Fulfils(T, Cl) <=> /\ T \cap Xs(N) = t
                                /\ \A i \in 1..Len(rs) : Obeys(T, MadeFor(rs[i]).gates)
  <2> TAKE T
  <2>1. Fulfils(T, units) <=> T \cap Xs(N) = t
    BY <1>5, GivenInputs
  <2> HIDE DEF units
  <2>2. Fulfils(T, Cl) <=> Fulfils(T, AllClauses) /\ Fulfils(T, units)
    BY DEF Fulfils
  <2> HIDE DEF Cl
  <2> QED BY <2>1, <2>2, AllObeyed
<1>8. /\ R \in SUBSET Requests
      /\ \A r \in R : r.n = N /\ ~Refuses(r)
      /\ \A r \in R : \E i \in 1..Len(rs) : r = rs[i] /\ ~Refuses(rs[i])
      /\ \A i \in 1..Len(rs) : ~Refuses(rs[i]) => rs[i] \in R
  BY <1>1
<1> HIDE DEF units, Cl, R
<1>9. Numbered(R)
  <2> SUFFICES ASSUME NEW r \in R, NEW s \in R, r # s
               PROVE  r.call # s.call /\ (MadeFor(r).nc = 1 /\ MadeFor(s).nc = 1 => r.k # s.k)
    BY Zenon DEF Numbered
  <2>1. PICK i \in 1..Len(rs) : r = rs[i]
    BY <1>8
  <2>2. PICK j \in 1..Len(rs) : s = rs[j]
    BY <1>8
  <2> QED BY <1>1, <2>1, <2>2, ServedApart
<1>10. (\E T : T \cap Xs(N) = t /\ \A r \in R : Obeys(T, MadeFor(r).gates))
         <=> \A r \in R : Meets(t, Contract(r))
  BY <1>3, <1>5, <1>8, <1>9, TogetherExact
<1>11. \A i \in 1..Len(rs) : Refuses(rs[i]) => \A T : Obeys(T, MadeFor(rs[i]).gates)
  <2> SUFFICES ASSUME NEW i \in 1..Len(rs), Refuses(rs[i]), NEW T PROVE Obeys(T, MadeFor(rs[i]).gates)
    BY Zenon
  <2>1. rs[i] \in Requests /\ MadeFor(rs[i]).dies
    BY <1>1, RefusedDie
  <2>2. MadeFor(rs[i]).gates = <<>>
    BY <2>1, DyingEmpty
  <2> QED BY <2>2, ObeysNone
<1>12. \A T : (\A r \in R : Obeys(T, MadeFor(r).gates)) <=> \A i \in 1..Len(rs) : Obeys(T, MadeFor(rs[i]).gates)
  BY <1>8, <1>11, Zenon
<1>13. (\A r \in R : Meets(t, Contract(r)))
         <=> \A i \in DOMAIN requests : requests[i].made.dies \/ Meets(t, Contract(requests[i]))
  <2>1. \A i \in 1..Len(rs) : /\ requests[i].made.dies <=> Refuses(rs[i])
                              /\ Contract(requests[i]) = Contract(rs[i])
    <3> TAKE i \in 1..Len(rs)
    <3>1. rs[i] \in Requests /\ requests[i] = Entry(rs[i])
      BY <1>1
    <3>2. MadeFor(rs[i]).dies <=> Refuses(rs[i])
      BY <3>1, RefusedDie
    <3> QED BY <3>1, <3>2, EntryIs
  <2>2. (\A r \in R : Meets(t, Contract(r)))
          <=> \A i \in 1..Len(rs) : Refuses(rs[i]) \/ Meets(t, Contract(rs[i]))
    BY <1>8, Zenon
  <2> QED BY <1>1, <2>1, <2>2
<1>14. HasSolution(Cl) <=> \E T : T \cap Xs(N) = t /\ \A i \in 1..Len(rs) : Obeys(T, MadeFor(rs[i]).gates)
  BY <1>7, Zenon DEF HasSolution
<1>15. Solvable(Cl) <=> \A i \in DOMAIN requests : requests[i].made.dies \/ Meets(t, Contract(requests[i]))
  BY <1>6, <1>10, <1>12, <1>13, <1>14, Zenon
<1>16. Cl = AllClauses \cup {{Pos(x)} : x \in t}
              \cup {{Neg(Pos(x))} : x \in {<<"x", i>> : i \in 1..requests[1].n} \ t}
  BY <1>4 DEF Cl, units
<1> QED BY <1>15, <1>16

(* What the callers of the encodings count on, in every state of a process  *)
(* that serves any number of requests of any size: the clauses of all       *)
(* constraints together allow exactly the inputs the constraints do, no     *)
(* clause on an auxiliary variable is in two gates, and the program refuses *)
(* exactly the requests counted as refused.                                 *)
THEOREM RequestsAlwaysServed == CardSpec => []RequestsServed
<1>1. CardInv => RequestsServed
  <2> SUFFICES ASSUME CardInv PROVE RequestsServed
    OBVIOUS
  <2>1. PICK rs, count : Serves(rs, count)
    BY Zenon DEF CardInv
  <2>2. EncodingExact /\ GatesDistinct /\ RefusalsKnown
    BY <2>1, ServesExactly, ServesDistinct, ServesRefusals
  <2> QED BY <2>2 DEF RequestsServed
<1> QED BY <1>1, NoneServed, CardKeeps, PTL DEF CardSpec
=============================================================================
