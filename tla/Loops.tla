-------------------------------- MODULE Loops --------------------------------
(* What the proofs need of naturals, of loops over a sequence (FoldLeft)   *)
(* and of sums (FoldFunction).  The values a loop goes through are a       *)
(* function of the number of turns: an invariant of the loop is proved of  *)
(* each by induction on that number.                                       *)
EXTENDS Integers, SequencesExt, FiniteSetTheorems, SequenceTheorems, WellFoundedInduction, TLAPS

(* A non-empty set of naturals has a least element. *)
LEMMA LeastNatural ==
    ASSUME NEW T, T \subseteq Nat, T # {}
    PROVE  \E x \in T : \A y \in T : x <= y
<1>1. PICK x \in T : \A y \in T : ~(<<y, x>> \in OpToRel(<, Nat))
  BY NatLessThanWellFounded, WFMin, Zenon
<1>2. ASSUME NEW y \in T PROVE x <= y
  <2>1. <<y, x>> \in OpToRel(<, Nat) <=> y < x
    BY Zenon DEF OpToRel
  <2>2. ~(y < x)
    BY <1>1, <2>1
  <2> QED BY <2>2
<1> QED BY <1>2

(* Induction up to n, for a set in the place of a predicate. *)
LEMMA UpTo ==
    ASSUME NEW n \in Nat, NEW T, 0 \in T,
           \A k \in 1..n : k - 1 \in T => k \in T
    PROVE  \A k \in 0..n : k \in T
<1> DEFINE Bad == {k \in 0..n : k \notin T}
<1> SUFFICES ASSUME Bad # {} PROVE FALSE
  OBVIOUS
<1>0. Bad \subseteq Nat
  OBVIOUS
<1>1. PICK k \in Bad : \A j \in Bad : k <= j
  <2> HIDE DEF Bad
  <2> QED BY <1>0, LeastNatural
<1>2. k # 0 /\ k \in 1..n /\ k - 1 \in 0..n
  BY <1>1
<1>3. k - 1 \notin Bad
  BY <1>1, <1>2
<1> QED BY <1>1, <1>2, <1>3

(* Induction over the naturals. *)
LEMMA AllNat ==
    ASSUME NEW T, 0 \in T, \A n \in Nat : n \in T => n + 1 \in T
    PROVE  \A n \in Nat : n \in T
<1> TAKE n \in Nat
<1>1. \A k \in 1..n : k - 1 \in T => k \in T
  <2> TAKE k \in 1..n
  <2>1. k - 1 \in Nat /\ (k - 1) + 1 = k
    OBVIOUS
  <2> QED BY <2>1
<1> QED BY <1>1, UpTo

(* The recursive function that a fold is made of: what is done with the    *)
(* chosen element of a set and the value for the rest.                     *)
IsFold(it, S, choice, base, step) ==
    it = [t \in SUBSET S |-> IF t = {} THEN base
                            ELSE step[choice[t]][it[t \ {choice[t]}]]]

LEMMA FoldExists ==
    ASSUME NEW S, IsFiniteSet(S), NEW choice, NEW A, NEW base \in A,
           \A t \in SUBSET S : t # {} => choice[t] \in t,
           NEW step \in [S -> [A -> A]]
    PROVE  \E it \in [SUBSET S -> A] : IsFold(it, S, choice, base, step)
<1> DEFINE next(it, t) == IF t = {} THEN base ELSE step[choice[t]][it[t \ {choice[t]}]]
           T == {n \in Nat : \E it \in [SUBSET S -> A] :
                     \A t \in SUBSET S : Cardinality(t) <= n => it[t] = next(it, t)}
<1>0. \A t \in SUBSET S : IsFiniteSet(t) /\ Cardinality(t) \in Nat
  BY FS_Subset, FS_CardinalityType
<1>1. ASSUME NEW it \in [SUBSET S -> A], NEW t \in SUBSET S PROVE next(it, t) \in A
  OBVIOUS
<1>2. 0 \in T
  <2>1. [t \in SUBSET S |-> base] \in [SUBSET S -> A]
    OBVIOUS
  <2>2. \A t \in SUBSET S : Cardinality(t) <= 0 => t = {}
    BY <1>0, FS_EmptySet
  <2> QED BY <2>1, <2>2
<1>3. ASSUME NEW n \in Nat, n \in T PROVE n + 1 \in T
  <2>1. PICK it \in [SUBSET S -> A] :
           \A t \in SUBSET S : Cardinality(t) <= n => it[t] = next(it, t)
    BY <1>3
  <2> DEFINE more == [t \in SUBSET S |-> next(it, t)]
  <2>2. more \in [SUBSET S -> A]
    BY <1>1
  <2>3. \A t \in SUBSET S : Cardinality(t) <= n => more[t] = it[t]
    BY <2>1
  <2>4. ASSUME NEW t \in SUBSET S, Cardinality(t) <= n + 1
        PROVE  more[t] = next(more, t)
    <3>1. CASE t = {}
      BY <3>1
    <3>2. CASE t # {}
      <4>1. choice[t] \in t /\ t \ {choice[t]} \in SUBSET S
        BY <3>2
      <4>2. Cardinality(t \ {choice[t]}) <= n
        BY <1>0, <2>4, <4>1, FS_RemoveElement, SMTT(30)
      <4>3. more[t \ {choice[t]}] = it[t \ {choice[t]}]
        BY <2>3, <4>1, <4>2
      <4> QED BY <4>3
    <3> QED BY <3>1, <3>2
  <2> HIDE DEF next, more
  <2> QED BY <2>2, <2>4
<1>4. Cardinality(S) \in T
  <2> HIDE DEF T
  <2> QED BY <1>0, <1>2, <1>3, AllNat
<1>5. \A t \in SUBSET S : Cardinality(t) <= Cardinality(S)
  BY FS_Subset
<1>6. PICK it \in [SUBSET S -> A] : \A t \in SUBSET S : it[t] = next(it, t)
  BY <1>4, <1>5
<1>7. it = [t \in SUBSET S |-> next(it, t)]
  <2> HIDE DEF next
  <2> QED BY <1>6
<1> QED BY <1>7 DEF IsFold

LEMMA MaxUpTo ==
    ASSUME NEW t, t \subseteq Nat, IsFiniteSet(t), t # {}
    PROVE  Max(t) \in t /\ \A x \in t : x <= Max(t)
<1> DEFINE Upper == {n \in Nat : \A x \in t : x <= n}
           Bounded(u) == \E b \in Nat : \A x \in u : x <= b
           T == {n \in Nat : \A u \in SUBSET t : Cardinality(u) <= n => Bounded(u)}
<1>0. \A u \in SUBSET t : IsFiniteSet(u) /\ Cardinality(u) \in Nat
  BY FS_Subset, FS_CardinalityType
<1>1. Upper # {}
  <2>1. 0 \in T
    BY <1>0, FS_EmptySet
  <2>2. ASSUME NEW n \in Nat, n \in T PROVE n + 1 \in T
    <3>1. ASSUME NEW u \in SUBSET t, Cardinality(u) <= n + 1
          PROVE  Bounded(u)
      <4>1. CASE u = {}
        BY <4>1
      <4>2. CASE u # {}
        <5>1. PICK y : y \in u
          BY <4>2
        <5>2. u \ {y} \in SUBSET t /\ Cardinality(u \ {y}) <= n
          BY <1>0, <3>1, <5>1, FS_RemoveElement
        <5>3. PICK b \in Nat : \A x \in u \ {y} : x <= b
          BY <2>2, <5>2
        <5>4. \A x \in u : x <= (IF b < y THEN y ELSE b)
          BY <5>1, <5>3
        <5> QED BY <5>1, <5>4
      <4> QED BY <4>1, <4>2
    <3> HIDE DEF Bounded
    <3> QED BY <3>1
  <2>3. Cardinality(t) \in T
    <3> HIDE DEF T
    <3> QED BY <1>0, <2>1, <2>2, AllNat
  <2>4. Cardinality(t) <= Cardinality(t)
    BY <1>0
  <2> QED BY <2>3, <2>4
<1>2. PICK b \in Upper : \A c \in Upper : b <= c
  BY <1>1, LeastNatural
<1>3. ASSUME b \notin t PROVE FALSE
  <2>1. PICK y : y \in t
    OBVIOUS
  <2>0. b \in Nat /\ y \in Nat /\ y <= b /\ y # b
    BY <1>3, <2>1
  <2>2. b # 0 /\ b - 1 \in Nat
    BY <2>0
  <2>3. b - 1 \in Upper
    BY <1>3, <2>2
  <2> QED BY <1>2, <2>2, <2>3
<1>4. \E x \in t : \A y \in t : x >= y
  BY <1>3
<1> QED BY <1>4 DEF Max

LEMMA MaxOfUpTo ==
    ASSUME NEW k \in Nat, k # 0
    PROVE  Max(1..k) = k /\ (1..k) \ {k} = 1..(k - 1)
<1>1. 1..k \subseteq Nat /\ IsFiniteSet(1..k) /\ k \in 1..k
  BY FS_Interval
<1>2. Max(1..k) \in 1..k /\ \A x \in 1..k : x <= Max(1..k)
  BY <1>1, MaxUpTo
<1> QED BY <1>1, <1>2

(* A loop of n turns over values in A: what each turn makes of the value,  *)
(* the function of its fold, and the values it goes through.               *)
Turns(n, A) == [1..n -> [A -> A]]

IsLoop(it, n, A, base, turn) ==
    /\ it \in [SUBSET (1..n) -> A]
    /\ it = [t \in SUBSET (1..n) |-> IF t = {} THEN base
                                    ELSE turn[Max(t)][it[t \ {Max(t)}]]]

Iterates(it, n, A, base, turn) ==
    /\ it[{}] = base
    /\ \A t \in SUBSET (1..n) : t # {} /\ it[t \ {Max(t)}] \in A =>
          it[t] = turn[Max(t)][it[t \ {Max(t)}]]

Values(G, n, A, base, turn) ==
    /\ G \in [0..n -> A]
    /\ G[0] = base
    /\ \A k \in 1..n : G[k] = turn[k][G[k - 1]]

LEMMA LoopExists ==
    ASSUME NEW n \in Nat, NEW A, NEW base \in A, NEW turn \in Turns(n, A)
    PROVE  \E it : IsLoop(it, n, A, base, turn)
<1> DEFINE S == 1..n
           choice == [t \in SUBSET S |-> Max(t)]
<1>1. IsFiniteSet(S) /\ S \subseteq Nat /\ turn \in [S -> [A -> A]]
  BY FS_Interval DEF Turns
<1> HIDE DEF S
<1>2. \A t \in SUBSET S : t # {} => choice[t] \in t
  BY <1>1, FS_Subset, MaxUpTo
<1> HIDE DEF choice
<1>3. PICK it \in [SUBSET S -> A] : IsFold(it, S, choice, base, turn)
  BY <1>1, <1>2, FoldExists
<1>4. it = [t \in SUBSET S |-> IF t = {} THEN base
                              ELSE turn[choice[t]][it[t \ {choice[t]}]]]
  BY <1>3 DEF IsFold
<1>5. it = [t \in SUBSET S |-> IF t = {} THEN base
                              ELSE turn[Max(t)][it[t \ {Max(t)}]]]
  BY <1>4 DEF choice
<1>6. IsLoop(it, n, A, base, turn)
  BY <1>5 DEF IsLoop, S
<1> QED BY <1>6

(* The values a loop of n turns goes through, given the function of its    *)
(* fold.                                                                   *)
LEMMA LoopValues ==
    ASSUME NEW n \in Nat, NEW A, NEW base \in A, NEW turn \in Turns(n, A),
           NEW it, Iterates(it, n, A, base, turn)
    PROVE  \E G : Values(G, n, A, base, turn) /\ G[n] = it[1..n]
<1>0. /\ turn \in [1..n -> [A -> A]]
      /\ it[{}] = base
      /\ \A t \in SUBSET (1..n) : t # {} /\ it[t \ {Max(t)}] \in A =>
            it[t] = turn[Max(t)][it[t \ {Max(t)}]]
  BY DEF Turns, Iterates
<1> DEFINE G == [k \in 0..n |-> it[1..k]]
           T == {k \in 0..n : G[k] \in A}
<1>1. G[0] = base
  <2>1. 1..0 = {}
    OBVIOUS
  <2> QED BY <1>0, <2>1
<1>2. ASSUME NEW k \in 1..n, G[k - 1] \in A PROVE G[k] = turn[k][G[k - 1]]
  <2>1. k \in Nat /\ k # 0 /\ k - 1 \in 0..n /\ k \in 0..n
    OBVIOUS
  <2>2. 1..k \in SUBSET (1..n) /\ 1..k # {}
    <3>1. 1 \in 1..k /\ \A x \in 1..k : x \in 1..n
      OBVIOUS
    <3>2. 1..k \subseteq 1..n
      BY <3>1
    <3> QED BY <3>1, <3>2, Zenon
  <2>3. Max(1..k) = k /\ (1..k) \ {k} = 1..(k - 1)
    BY <2>1, MaxOfUpTo
  <2>4. it[1..(k - 1)] \in A
    BY <1>2, <2>1
  <2>5. it[1..k] = turn[k][it[1..(k - 1)]]
    BY <1>0, <2>2, <2>3, <2>4
  <2> QED BY <2>1, <2>5
<1>3. \A k \in 0..n : k \in T
  <2>1. 0 \in T
    BY <1>1
  <2>2. \A k \in 1..n : k - 1 \in T => k \in T
    <3> TAKE k \in 1..n
    <3> HAVE k - 1 \in T
    <3>1. G[k] = turn[k][G[k - 1]] /\ G[k - 1] \in A
      BY <1>2
    <3> HIDE DEF G
    <3> QED BY <1>0, <3>1
  <2> HIDE DEF T
  <2> QED BY <2>1, <2>2, UpTo
<1>4. G \in [0..n -> A]
  BY <1>3
<1>5. ASSUME NEW k \in 1..n PROVE G[k] = turn[k][G[k - 1]]
  <2>1. k - 1 \in 0..n
    OBVIOUS
  <2>2. G[k - 1] \in A
    BY <1>4, <2>1
  <2> HIDE DEF G
  <2> QED BY <1>2, <2>2
<1>6. G[n] = it[1..n]
  OBVIOUS
<1> HIDE DEF G
<1> QED BY <1>1, <1>4, <1>5, <1>6 DEF Values

(* Sequences put together: the parts up to each. *)

Joins(seqs, A, P) ==
    /\ P \in [0..Len(seqs) -> Seq(A)]
    /\ P[0] = <<>>
    /\ \A k \in 1..Len(seqs) : P[k] = P[k - 1] \o seqs[k]
    /\ FlattenSeq(seqs) = P[Len(seqs)]

LEMMA FlattenLoop ==
    ASSUME NEW A, NEW seqs \in Seq(Seq(A))
    PROVE  \E P : Joins(seqs, A, P)
<1> DEFINE n == Len(seqs)
           B == Seq(A)
           turn == [k \in 1..n |-> [t \in B |-> t \o seqs[k]]]
<1>1. n \in Nat /\ <<>> \in B /\ \A k \in 1..n : seqs[k] \in B
  OBVIOUS
<1>2. turn \in Turns(n, B)
  <2> SUFFICES ASSUME NEW k \in 1..n, NEW t \in B PROVE t \o seqs[k] \in B
    BY DEF Turns
  <2> QED BY <1>1, ConcatProperties
<1> HIDE DEF n, B
<1>3. PICK it : IsLoop(it, n, B, <<>>, turn)
  <2> HIDE DEF turn
  <2> QED BY <1>1, <1>2, LoopExists
<1>4. Iterates(it, n, B, <<>>, turn)
  <2>1. 1..n \subseteq Nat /\ IsFiniteSet(1..n)
    BY <1>1, FS_Interval
  <2>2. \A t \in SUBSET (1..n) : t # {} => Max(t) \in 1..n
    BY <2>1, FS_Subset, MaxUpTo
  <2> HIDE DEF turn
  <2> QED BY <1>3, <2>2 DEF IsLoop, Iterates
<1>5. PICK P : Values(P, n, B, <<>>, turn) /\ P[n] = it[1..n]
  <2> HIDE DEF turn
  <2> QED BY <1>1, <1>2, <1>4, LoopValues
<1>6. P \in [0..n -> B] /\ P[0] = <<>>
  BY <1>5 DEF Values
<1>7. \A k \in 1..n : k - 1 \in 0..n /\ P[k] = P[k - 1] \o seqs[k]
  <2> TAKE k \in 1..n
  <2>1. k - 1 \in 0..n
    BY <1>1
  <2>2. P[k - 1] \in B
    BY <1>6, <2>1
  <2>3. P[k] = turn[k][P[k - 1]]
    BY <1>5 DEF Values
  <2> QED BY <2>1, <2>2, <2>3
<1> HIDE DEF turn
<1>f. n # 0 => P[1] = seqs[1]
  <2> SUFFICES ASSUME n # 0 PROVE P[1] = seqs[1]
    OBVIOUS
  <2>1. 1 \in 1..n /\ 1 - 1 = 0
    BY <1>1
  <2>2. P[1] = P[0] \o seqs[1] /\ seqs[1] \in B
    BY <1>1, <1>7, <2>1
  <2> QED BY <1>6, <2>2, ConcatEmptySeq DEF B
<1>8. FlattenSeq(seqs) = P[n]
  <2>1. CASE n = 0
    <3>1. seqs = <<>>
      BY <2>1 DEF n
    <3>2. FlattenSeq(seqs) = seqs
      BY <2>1 DEF FlattenSeq, n
    <3> QED BY <1>6, <2>1, <3>1, <3>2
  <2>2. CASE n # 0
    <3> DEFINE Is(g) == g = [i \in 1..n |-> IF i = 1 THEN seqs[i] ELSE g[i - 1] \o seqs[i]]
               F == CHOOSE g : Is(g)
               Q == [i \in 1..n |-> P[i]]
    <3>1. FlattenSeq(seqs) = F[n]
      BY <2>2, Zenon DEF FlattenSeq, n
    <3>2. Is(Q)
      <4>1. ASSUME NEW i \in 1..n
            PROVE  P[i] = IF i = 1 THEN seqs[i] ELSE Q[i - 1] \o seqs[i]
        <5>1. CASE i = 1
          BY <1>f, <2>2, <5>1
        <5>2. CASE i # 1
          <6>1. i - 1 \in 1..n
            BY <1>1, <5>2
          <6> QED BY <1>7, <5>2, <6>1
        <5> QED BY <5>1, <5>2
      <4> QED BY <4>1
    <3>3. Is(F)
      <4> HIDE DEF Is, Q
      <4> QED BY <3>2
    <3> HIDE DEF F, Q
    <3> DEFINE T == {k \in 0..n : k # 0 => F[k] = P[k]}
    <3>4. 0 \in T
      BY <1>1
    <3>5. \A k \in 1..n : k - 1 \in T => k \in T
      <4> TAKE k \in 1..n
      <4> HAVE k - 1 \in T
      <4>1. k \in 0..n
        BY <1>1
      <4>2. F[k] = IF k = 1 THEN seqs[k] ELSE F[k - 1] \o seqs[k]
        BY <3>3, Zenon
      <4>3. CASE k = 1
        BY <1>f, <2>2, <4>1, <4>2, <4>3
      <4>4. CASE k # 1
        <5>1. k - 1 # 0 /\ F[k - 1] = P[k - 1]
          BY <1>1, <4>4
        <5>2. F[k] = P[k]
          BY <1>7, <4>2, <4>4, <5>1
        <5> QED BY <4>1, <5>2
      <4> QED BY <4>3, <4>4
    <3>6. n \in T
      <4>1. n \in 0..n
        BY <1>1
      <4> HIDE DEF T
      <4> QED BY <1>1, <3>4, <3>5, <4>1, UpTo
    <3> QED BY <2>2, <3>1, <3>6
  <2> QED BY <2>1, <2>2
<1>9. Joins(seqs, A, P)
  BY <1>6, <1>7, <1>8 DEF Joins, n, B
<1> QED BY <1>9

(* Counting, one by one. *)
LEMMA CountNext ==
    ASSUME NEW k \in Nat, k # 0, NEW X
    PROVE  /\ IsFiniteSet(X \cap 1..k) /\ Cardinality(X \cap 1..k) \in Nat
           /\ Cardinality(X \cap 1..k)
                 = Cardinality(X \cap 1..(k - 1)) + (IF k \in X THEN 1 ELSE 0)
<1> DEFINE Y == X \cap 1..(k - 1)
<1>1. IsFiniteSet(Y) /\ Cardinality(Y) \in Nat
  <2>1. IsFiniteSet(1..(k - 1))
    BY FS_Interval
  <2> QED BY <2>1, FS_Subset, FS_CardinalityType
<1>2. X \cap 1..k = IF k \in X THEN Y \cup {k} ELSE Y
  OBVIOUS
<1>3. k \notin Y
  OBVIOUS
<1> HIDE DEF Y
<1>4. IsFiniteSet(Y \cup {k}) /\ Cardinality(Y \cup {k}) = Cardinality(Y) + 1
  BY <1>1, <1>3, FS_AddElement
<1>5. IsFiniteSet(X \cap 1..k) /\ Cardinality(X \cap 1..k) = Cardinality(Y) + (IF k \in X THEN 1 ELSE 0)
  <2>1. CASE k \in X
    <3>1. X \cap 1..k = Y \cup {k}
      BY <1>2, <2>1
    <3> QED BY <1>4, <2>1, <3>1
  <2>2. CASE k \notin X
    <3>1. X \cap 1..k = Y
      BY <1>2, <2>2
    <3>2. IsFiniteSet(X \cap 1..k) /\ Cardinality(X \cap 1..k) = Cardinality(Y)
      BY <1>1, <3>1, Zenon
    <3> QED BY <1>1, <2>2, <3>2
  <2> QED BY <2>1, <2>2
<1>6. Cardinality(X \cap 1..k) \in Nat
  BY <1>5, FS_CardinalityType
<1> QED BY <1>5, <1>6 DEF Y

(* A function defined by recursion over the naturals, whose value at n is   *)
(* in V[n], exists.                                                         *)
IsRecursion(f, base, step) == f = [n \in Nat |-> IF n = 0 THEN base ELSE step[n][f[n - 1]]]

LEMMA RecursionExists ==
    ASSUME NEW V, NEW base \in V[0], NEW step,
           \A n \in Nat : n # 0 => \A x \in V[n - 1] : step[n][x] \in V[n]
    PROVE  /\ \E f : IsRecursion(f, base, step)
           /\ \A f : IsRecursion(f, base, step) => \A n \in Nat : f[n] \in V[n]
<1> DEFINE Upto(n, g) == /\ g = [i \in 0..n |-> g[i]] /\ g[0] = base
                         /\ \A i \in 1..n : g[i] = step[i][g[i - 1]]
                         /\ \A i \in 0..n : g[i] \in V[i]
           Has == {n \in Nat : \E g : Upto(n, g)}
<1>1. 0 \in Has
  <2> DEFINE g == [i \in 0..0 |-> base]
  <2>1. Upto(0, g)
    OBVIOUS
  <2> HIDE DEF Upto, g
  <2> QED BY <2>1
<1>2. ASSUME NEW n \in Nat, n \in Has PROVE n + 1 \in Has
  <2>1. PICK g : Upto(n, g)
    BY <1>2
  <2> DEFINE h == [i \in 0..(n + 1) |-> IF i = n + 1 THEN step[n + 1][g[n]] ELSE g[i]]
  <2>2. g[n] \in V[n] /\ n + 1 # 0 /\ (n + 1) - 1 = n /\ n + 1 \in Nat
    BY <2>1
  <2>3. step[n + 1][g[n]] \in V[n + 1]
    BY <2>2
  <2>4. h[n + 1] = step[n + 1][g[n]] /\ \A i \in 0..n : h[i] = g[i]
    OBVIOUS
  <2>5. h = [i \in 0..(n + 1) |-> h[i]]
    OBVIOUS
  <2> HIDE DEF h
  <2>6. ASSUME NEW i \in 1..(n + 1) PROVE h[i] = step[i][h[i - 1]]
    <3>1. i - 1 \in 0..n /\ (i = n + 1 \/ i \in 1..n) /\ (i \in 1..n => i \in 0..n)
      OBVIOUS
    <3>2. CASE i = n + 1
      <4>1. i - 1 = n
        BY <3>2
      <4> QED BY <2>4, <3>1, <3>2, <4>1
    <3>3. CASE i \in 1..n
      <4>1. g[i] = step[i][g[i - 1]]
        BY <2>1, <3>3
      <4> QED BY <2>4, <3>1, <3>3, <4>1
    <3> QED BY <3>1, <3>2, <3>3
  <2>7. ASSUME NEW i \in 0..(n + 1) PROVE h[i] \in V[i]
    <3>1. i = n + 1 \/ i \in 0..n
      OBVIOUS
    <3> QED BY <2>1, <2>3, <2>4, <3>1
  <2>8. h[0] = base
    <3>1. 0 \in 0..n
      OBVIOUS
    <3> QED BY <2>1, <2>4, <3>1
  <2>9. Upto(n + 1, h)
    BY <2>5, <2>6, <2>7, <2>8
  <2> HIDE DEF Upto
  <2> QED BY <2>9
<1>3. \A n \in Nat : \E g : Upto(n, g)
  <2> HIDE DEF Upto
  <2>1. \A n \in Nat : n \in Has => n + 1 \in Has
    BY <1>2
  <2>2. \A n \in Nat : n \in Has
    <3> HIDE DEF Has
    <3> QED BY <1>1, <2>1, AllNat
  <2> QED BY <2>2
<1>4. ASSUME NEW n \in Nat, NEW g, NEW h, Upto(n, g), Upto(n + 1, h) PROVE g[n] = h[n]
  <2> DEFINE S == {i \in 0..n : g[i] = h[i]}
  <2>1. 0 \in S
    BY <1>4
  <2>2. ASSUME NEW i \in 1..n, i - 1 \in S PROVE i \in S
    <3>1. i \in 0..n /\ i \in 1..(n + 1)
      OBVIOUS
    <3> QED BY <1>4, <2>2, <3>1
  <2>3. \A i \in 0..n : i \in S
    <3> HIDE DEF S
    <3> QED BY <2>1, <2>2, UpTo
  <2>4. n \in 0..n
    OBVIOUS
  <2> QED BY <2>3, <2>4
<1> DEFINE G(n) == CHOOSE g : Upto(n, g)
           f == [n \in Nat |-> G(n)[n]]
<1>5. \A n \in Nat : Upto(n, G(n))
  <2> HIDE DEF Upto
  <2> QED BY <1>3, Zenon
<1>6. ASSUME NEW n \in Nat PROVE f[n] = IF n = 0 THEN base ELSE step[n][f[n - 1]]
  <2>1. CASE n = 0
    <3>1. G(0)[0] = base
      BY <1>5
    <3> HIDE DEF G
    <3> QED BY <2>1, <3>1
  <2>2. CASE n # 0
    <3>1. n - 1 \in Nat /\ (n - 1) + 1 = n /\ n \in 1..n
      BY <2>2
    <3>2. Upto(n, G(n)) /\ Upto(n - 1, G(n - 1))
      BY <1>5, <3>1
    <3>3. G(n)[n] = step[n][G(n)[n - 1]]
      BY <3>1, <3>2
    <3> HIDE DEF G, Upto
    <3>4. G(n - 1)[n - 1] = G(n)[n - 1]
      BY <1>4, <3>1, <3>2
    <3> QED BY <2>2, <3>1, <3>3, <3>4
  <2> QED BY <2>1, <2>2
<1>7. IsRecursion(f, base, step)
  <2>1. f = [n \in Nat |-> f[n]]
    OBVIOUS
  <2> HIDE DEF f
  <2>2. [n \in Nat |-> f[n]] = [n \in Nat |-> IF n = 0 THEN base ELSE step[n][f[n - 1]]]
    BY <1>6, Zenon
  <2> QED BY <2>1, <2>2, Zenon DEF IsRecursion
<1>8. ASSUME NEW r, IsRecursion(r, base, step) PROVE \A n \in Nat : r[n] \in V[n]
  <2>1. \A n \in Nat : r[n] = IF n = 0 THEN base ELSE step[n][r[n - 1]]
    <3> DEFINE R(n) == IF n = 0 THEN base ELSE step[n][r[n - 1]]
    <3>1. r = [n \in Nat |-> R(n)]
      BY <1>8 DEF IsRecursion
    <3> HIDE DEF R
    <3>2. \A n \in Nat : r[n] = R(n)
      BY <3>1
    <3> QED BY <3>2 DEF R
  <2> DEFINE S == {n \in Nat : r[n] \in V[n]}
  <2>2. 0 \in S
    BY <2>1
  <2>3. ASSUME NEW n \in Nat, n \in S PROVE n + 1 \in S
    <3>1. n + 1 \in Nat /\ n + 1 # 0 /\ (n + 1) - 1 = n
      OBVIOUS
    <3>2. r[n + 1] = step[n + 1][r[n]] /\ r[n] \in V[n]
      BY <2>1, <2>3, <3>1
    <3> QED BY <3>1, <3>2
  <2>4. \A n \in Nat : n \in S
    <3> HIDE DEF S
    <3> QED BY <2>2, <2>3, AllNat
  <2> QED BY <2>4
<1> HIDE DEF f
<1> QED BY <1>7, <1>8
=============================================================================
