----------------------------- MODULE CoachProofs -----------------------------
(* For any number of solvers, features and instances, any values and any   *)
(* configuration: the two data sets of a solver together hold its usable   *)
(* instances once and stay so, its test set stays like its training set,   *)
(* sound input gets to the end, the labels of the columns tell what is in  *)
(* them, and the model file matches the training sets it was made from.    *)
(* Forward selection, which the coach calls, comes last: what it answers.  *)
EXTENDS Coach, ForwardSelection, Loops

-----------------------------------------------------------------------------
(* What the loops over sequences compute. *)

(* The values the loop of Chosen goes through. *)
ChosenTurns(s, S, A, G) ==
    /\ G \in [0..Len(s) -> Seq(A)]
    /\ G[0] = <<>>
    /\ \A k \in 1..Len(s) : G[k] = IF s[k] \in S THEN Append(G[k - 1], s[k]) ELSE G[k - 1]
    /\ Chosen(s, S) = G[Len(s)]

LEMMA ChosenLoop ==
    ASSUME NEW A, NEW s \in Seq(A), NEW S
    PROVE  \E G : ChosenTurns(s, S, A, G)
<1> DEFINE n == Len(s)
           B == Seq(A)
           Turn1(t, e) == IF e \in S THEN Append(t, e) ELSE t
           turn == [k \in 1..n |-> [t \in B |-> Turn1(t, s[k])]]
           it == CHOOSE g : g = [t \in SUBSET (1..n) |-> IF t = {} THEN <<>>
                                        ELSE Turn1(g[t \ {Max(t)}], s[Max(t)])]
<1>1. n \in Nat /\ <<>> \in B /\ DOMAIN s = 1..n
  OBVIOUS
<1>2. turn \in Turns(n, B)
  <2> SUFFICES ASSUME NEW k \in 1..n, NEW t \in B PROVE Turn1(t, s[k]) \in B
    BY DEF Turns
  <2> QED BY <1>1
<1>3. Chosen(s, S) = it[1..n]
  BY <1>1, Zenon DEF Chosen, FoldLeft, MapThenFoldSet
<1> HIDE DEF n, B, Turn1
<1>4. 1..n \subseteq Nat /\ IsFiniteSet(1..n)
  BY <1>1, FS_Interval
<1>5. \A t \in SUBSET (1..n) : t # {} => Max(t) \in 1..n
  BY <1>4, FS_Subset, MaxUpTo
<1>6. it = [t \in SUBSET (1..n) |-> IF t = {} THEN <<>>
                                  ELSE Turn1(it[t \ {Max(t)}], s[Max(t)])]
  <2>1. PICK g : IsLoop(g, n, B, <<>>, turn)
    <3> HIDE DEF turn
    <3> QED BY <1>1, <1>2, LoopExists
  <2>2. g = [t \in SUBSET (1..n) |-> IF t = {} THEN <<>>
                                    ELSE Turn1(g[t \ {Max(t)}], s[Max(t)])]
    BY <1>5, <2>1 DEF IsLoop
  <2> QED BY <2>2
<1> HIDE DEF it
<1>7. Iterates(it, n, B, <<>>, turn)
  BY <1>5, <1>6 DEF Iterates
<1>8. PICK G : Values(G, n, B, <<>>, turn) /\ G[n] = it[1..n]
  <2> HIDE DEF turn
  <2> QED BY <1>1, <1>2, <1>7, LoopValues
<1>9. G \in [0..n -> B] /\ G[0] = <<>>
  BY <1>8 DEF Values
<1>10. \A k \in 1..n : G[k] = Turn1(G[k - 1], s[k])
  <2> TAKE k \in 1..n
  <2>1. k - 1 \in 0..n
    BY <1>1
  <2>2. G[k - 1] \in B
    BY <1>9, <2>1
  <2>3. G[k] = turn[k][G[k - 1]]
    BY <1>8 DEF Values
  <2> QED BY <1>1, <2>2, <2>3
<1> HIDE DEF turn
<1>11. ChosenTurns(s, S, A, G)
  BY <1>3, <1>8, <1>9, <1>10 DEF n, B, Turn1, ChosenTurns
<1> QED BY <1>11

(* What is chosen are the entries in S, in their order. *)
LEMMA ChosenIs ==
    ASSUME NEW A, NEW s \in Seq(A), NEW S
    PROVE  /\ Chosen(s, S) \in Seq(A)
           /\ ToSet(Chosen(s, S)) = ToSet(s) \cap S
<1>1. PICK G : ChosenTurns(s, S, A, G)
  BY ChosenLoop
<1> DEFINE n == Len(s)
           T == {k \in 0..n : ToSet(G[k]) = {s[i] : i \in 1..k} \cap S}
<1>2. n \in Nat /\ DOMAIN s = 1..n /\ G \in [0..n -> Seq(A)]
  BY <1>1 DEF ChosenTurns
<1>3. 0 \in T
  BY <1>1, <1>2 DEF ChosenTurns, ToSet
<1>4. ASSUME NEW k \in 1..n, k - 1 \in T PROVE k \in T
  <2> DEFINE g == G[k - 1]
  <2>1. g \in Seq(A) /\ ToSet(g) = {s[i] : i \in 1..(k - 1)} \cap S /\ s[k] \in A
    <3>1. k - 1 \in 0..n /\ k \in DOMAIN s
      BY <1>2
    <3>2. g \in Seq(A) /\ s[k] \in A
      BY <1>2, <3>1
    <3> QED BY <1>4, <3>2
  <2>2. {s[i] : i \in 1..k} = {s[i] : i \in 1..(k - 1)} \cup {s[k]}
    <3>1. \A i : i \in 1..k <=> i \in 1..(k - 1) \/ i = k
      BY <1>2
    <3> QED BY <3>1, Zenon
  <2>3. G[k] = IF s[k] \in S THEN Append(g, s[k]) ELSE g
    BY <1>1 DEF ChosenTurns
  <2> HIDE DEF g
  <2>4. ToSet(Append(g, s[k])) = ToSet(g) \cup {s[k]}
    <3> DEFINE h == Append(g, s[k])
               m == Len(g)
    <3>1. m \in Nat /\ DOMAIN g = 1..m /\ DOMAIN h = 1..(m + 1) /\ h[m + 1] = s[k]
          /\ \A i \in 1..m : h[i] = g[i]
      BY <2>1
    <3>2. 1..(m + 1) = 1..m \cup {m + 1}
      BY <3>1
    <3> HIDE DEF h, m
    <3>3. {h[i] : i \in DOMAIN h} = {g[i] : i \in DOMAIN g} \cup {s[k]}
      <4>1. \A i : i \in DOMAIN h <=> i \in DOMAIN g \/ i = m + 1
        BY <3>1, <3>2
      <4>2. \A i \in DOMAIN g : h[i] = g[i]
        BY <3>1
      <4> QED BY <3>1, <4>1, <4>2, Zenon
    <3> QED BY <3>3 DEF h, ToSet
  <2>5. ToSet(G[k]) = {s[i] : i \in 1..k} \cap S
    BY <2>1, <2>2, <2>3, <2>4
  <2>6. k \in 0..n
    BY <1>2
  <2> QED BY <2>5, <2>6
<1> HIDE DEF T
<1>5. \A k \in 0..n : k \in T
  BY <1>2, <1>3, <1>4, UpTo
<1>6. ToSet(G[n]) = {s[i] : i \in 1..n} \cap S
  BY <1>2, <1>5 DEF T
<1>7. Chosen(s, S) = G[n] /\ G[n] \in Seq(A)
  BY <1>1, <1>2 DEF ChosenTurns
<1> QED BY <1>2, <1>6, <1>7 DEF ToSet

(* Increasing sequences of numbers. *)
Increasing(s) == \A i, j \in 1..Len(s) : i < j => s[i] < s[j]

LEMMA ChosenSorted ==
    ASSUME NEW s \in Seq(Int), Increasing(s), NEW S
    PROVE  Increasing(Chosen(s, S))
<1>1. PICK G : ChosenTurns(s, S, Int, G)
  BY ChosenLoop
<1> DEFINE n == Len(s)
           Below(k) == \A i \in 1..Len(G[k]) : \A j \in (k + 1)..n : G[k][i] < s[j]
           T == {k \in 0..n : Increasing(G[k]) /\ Below(k)}
<1>2. n \in Nat /\ DOMAIN s = 1..n /\ G \in [0..n -> Seq(Int)]
  BY <1>1 DEF ChosenTurns
<1>3. 0 \in T
  BY <1>1, <1>2 DEF ChosenTurns, Increasing
<1>4. ASSUME NEW k \in 1..n, k - 1 \in T PROVE k \in T
  <2> DEFINE g == G[k - 1]
             h == Append(g, s[k])
             m == Len(g)
  <2>1. /\ g \in Seq(Int) /\ Increasing(g) /\ s[k] \in Int
        /\ \A i \in 1..m : \A j \in k..n : g[i] < s[j]
    <3>1. k - 1 \in 0..n /\ (k - 1) + 1 = k
      BY <1>2
    <3>2. Increasing(g) /\ Below(k - 1)
      BY <1>4
    <3>3. g \in Seq(Int) /\ s[k] \in Int
      BY <1>2, <3>1
    <3> QED BY <3>1, <3>2, <3>3
  <2>2. G[k] = IF s[k] \in S THEN h ELSE g
    BY <1>1 DEF ChosenTurns
  <2>3. \A j \in (k + 1)..n : j \in k..n /\ s[k] < s[j] /\ j \in 1..n
    BY <1>2 DEF Increasing
  <2>4. m \in Nat /\ h \in Seq(Int) /\ Len(h) = m + 1 /\ h[m + 1] = s[k]
        /\ \A i \in 1..m : h[i] = g[i] /\ g[i] \in Int
    BY <2>1
  <2>5. k \in k..n
    BY <1>2
  <2> HIDE DEF h, g, m
  <2>6. Increasing(h)
    <3> SUFFICES ASSUME NEW i \in 1..(m + 1), NEW j \in 1..(m + 1), i < j
                 PROVE  h[i] < h[j]
      BY <2>4 DEF Increasing
    <3>1. i \in 1..m
      BY <2>4
    <3>2. CASE j = m + 1
      BY <2>1, <2>4, <2>5, <3>1, <3>2
    <3>3. CASE j # m + 1
      <4>1. j \in 1..m
        BY <2>4, <3>3
      <4>2. g[i] < g[j]
        BY <2>1, <3>1, <4>1 DEF Increasing, m
      <4> QED BY <2>4, <3>1, <4>1, <4>2
    <3> QED BY <3>2, <3>3
  <2>7. \A i \in 1..Len(h) : \A j \in (k + 1)..n : h[i] < s[j]
    <3> SUFFICES ASSUME NEW i \in 1..(m + 1), NEW j \in (k + 1)..n PROVE h[i] < s[j]
      BY <2>4
    <3>1. CASE i = m + 1
      BY <2>3, <2>4, <3>1
    <3>2. CASE i # m + 1
      <4>1. i \in 1..m
        BY <2>4, <3>2
      <4> QED BY <2>1, <2>3, <2>4, <4>1
    <3> QED BY <3>1, <3>2
  <2>8. \A i \in 1..Len(g) : \A j \in (k + 1)..n : g[i] < s[j]
    BY <2>1, <2>3 DEF m
  <2>9. CASE s[k] \in S
    BY <1>2, <2>2, <2>6, <2>7, <2>9
  <2>10. CASE s[k] \notin S
    BY <1>2, <2>1, <2>2, <2>8, <2>10
  <2> QED BY <2>9, <2>10
<1> HIDE DEF T
<1>5. \A k \in 0..n : k \in T
  BY <1>2, <1>3, <1>4, UpTo
<1>6. Increasing(G[n])
  BY <1>2, <1>5 DEF T
<1>7. Chosen(s, S) = G[n]
  BY <1>1 DEF ChosenTurns
<1> QED BY <1>6, <1>7

(* An increasing sequence has as many entries as members. *)
LEMMA IncreasingCounts ==
    ASSUME NEW s \in Seq(Int), Increasing(s)
    PROVE  IsFiniteSet(ToSet(s)) /\ Cardinality(ToSet(s)) = Len(s)
<1> DEFINE n == Len(s)
<1>1. n \in Nat /\ DOMAIN s = 1..n /\ s \in [1..n -> Int]
  OBVIOUS
<1>2. s \in Bijection(1..n, ToSet(s))
  <2>1. \A i, j \in 1..n : s[i] = s[j] => i = j
    <3> SUFFICES ASSUME NEW i \in 1..n, NEW j \in 1..n, s[i] = s[j] PROVE i = j
      OBVIOUS
    <3>1. s[i] \in Int /\ s[j] \in Int /\ ~(s[i] < s[j]) /\ ~(s[j] < s[i])
      BY <1>1
    <3> QED BY <1>1, <3>1 DEF Increasing
  <2> QED BY <1>1, <2>1 DEF Bijection, Injection, Surjection, IsInjective, ToSet
<1>3. IsFiniteSet(1..n) /\ Cardinality(1..n) = n
  BY <1>1, FS_Interval
<1> HIDE DEF n
<1> QED BY <1>2, <1>3, FS_Bijection DEF n, ExistsBijection

(* Every combination is a sequence of places in the partition, and there   *)
(* is a sequence of them.                                                  *)
LEMMA LongerType ==
    ASSUME NEW n \in Nat, NEW s \in Seq(1..n)
    PROVE  Longer(s, n) \in Seq(Seq(1..n))
<1> DEFINE top == IF s = <<>> THEN 0 ELSE s[Len(s)]
           m == IF n - top >= 0 THEN n - top ELSE 0
<1>1. top \in 0..n
  BY DEF top
<1>2. Longer(s, n) = [i \in 1..(n - top) |-> Append(s, top + i)]
  BY DEF Longer
<1> HIDE DEF top
<1>3. m \in Nat /\ 1..(n - top) = 1..m
  BY <1>1
<1>4. \A i \in 1..m : Append(s, top + i) \in Seq(1..n)
  <2> SUFFICES ASSUME NEW i \in 1..m PROVE top + i \in 1..n
    OBVIOUS
  <2> QED BY <1>1, <1>3
<1> HIDE DEF m
<1>5. [i \in 1..m |-> Append(s, top + i)] \in Seq(Seq(1..n))
  BY <1>3, <1>4
<1> QED BY <1>2, <1>3, <1>5

LEMMA AllLongerType ==
    ASSUME NEW n \in Nat, NEW found \in Seq(Seq(1..n))
    PROVE  AllLonger(found, n) \in Seq(Seq(1..n))
<1> DEFINE m == Len(found)
           B == Seq(Seq(1..n))
           Turn1(all, s) == all \o Longer(s, n)
           turn == [k \in 1..m |-> [t \in B |-> Turn1(t, found[k])]]
           it == CHOOSE g : g = [t \in SUBSET (1..m) |-> IF t = {} THEN <<>>
                                        ELSE Turn1(g[t \ {Max(t)}], found[Max(t)])]
<1>1. m \in Nat /\ <<>> \in B /\ DOMAIN found = 1..m
  OBVIOUS
<1>2. turn \in Turns(m, B)
  <2> SUFFICES ASSUME NEW k \in 1..m, NEW t \in B PROVE Turn1(t, found[k]) \in B
    BY DEF Turns
  <2>1. Longer(found[k], n) \in B
    BY <1>1, LongerType
  <2> QED BY <2>1
<1>3. AllLonger(found, n) = it[1..m]
  BY <1>1, Zenon DEF AllLonger, FoldLeft, MapThenFoldSet
<1> HIDE DEF m, B, Turn1
<1>4. 1..m \subseteq Nat /\ IsFiniteSet(1..m)
  BY <1>1, FS_Interval
<1>5. \A t \in SUBSET (1..m) : t # {} => Max(t) \in 1..m
  BY <1>4, FS_Subset, MaxUpTo
<1>6. PICK g : IsLoop(g, m, B, <<>>, turn)
  <2> HIDE DEF turn
  <2> QED BY <1>1, <1>2, LoopExists
<1>7. g \in [SUBSET (1..m) -> B]
      /\ g = [t \in SUBSET (1..m) |-> IF t = {} THEN <<>>
                                      ELSE Turn1(g[t \ {Max(t)}], found[Max(t)])]
  BY <1>5, <1>6 DEF IsLoop
<1>8. it = [t \in SUBSET (1..m) |-> IF t = {} THEN <<>>
                                    ELSE Turn1(it[t \ {Max(t)}], found[Max(t)])]
  BY <1>7
<1> HIDE DEF it
<1>9. Iterates(it, m, B, <<>>, turn)
  BY <1>5, <1>8 DEF Iterates
<1>10. PICK G : Values(G, m, B, <<>>, turn) /\ G[m] = it[1..m]
  <2> HIDE DEF turn
  <2> QED BY <1>1, <1>2, <1>9, LoopValues
<1>11. G[m] \in B
  BY <1>1, <1>10 DEF Values
<1> QED BY <1>3, <1>10, <1>11 DEF B

LEMMA CombinationsType ==
    ASSUME NEW n \in Nat, NEW k \in Nat
    PROVE  Combinations(n, k) \in Seq(Seq(1..n))
<1> DEFINE B == Seq(Seq(1..n))
           idx == [i \in 1..k |-> i]
           Turn1(found, i) == AllLonger(found, n)
           turn == [j \in 1..k |-> [t \in B |-> Turn1(t, idx[j])]]
           it == CHOOSE g : g = [t \in SUBSET (1..k) |-> IF t = {} THEN <<<<>>>>
                                        ELSE Turn1(g[t \ {Max(t)}], idx[Max(t)])]
<1>1. <<<<>>>> \in B /\ DOMAIN idx = 1..k
  OBVIOUS
<1>2. turn \in Turns(k, B)
  BY AllLongerType DEF Turns
<1>3. Combinations(n, k) = it[1..k]
  BY <1>1, Zenon DEF Combinations, FoldLeft, MapThenFoldSet
<1> HIDE DEF B, Turn1, idx
<1>4. 1..k \subseteq Nat /\ IsFiniteSet(1..k)
  BY FS_Interval
<1>5. \A t \in SUBSET (1..k) : t # {} => Max(t) \in 1..k
  BY <1>4, FS_Subset, MaxUpTo
<1>6. PICK g : IsLoop(g, k, B, <<<<>>>>, turn)
  <2> HIDE DEF turn
  <2> QED BY <1>1, <1>2, LoopExists
<1>7. g \in [SUBSET (1..k) -> B]
      /\ g = [t \in SUBSET (1..k) |-> IF t = {} THEN <<<<>>>>
                                      ELSE Turn1(g[t \ {Max(t)}], idx[Max(t)])]
  BY <1>5, <1>6 DEF IsLoop
<1>8. it = [t \in SUBSET (1..k) |-> IF t = {} THEN <<<<>>>>
                                    ELSE Turn1(it[t \ {Max(t)}], idx[Max(t)])]
  BY <1>7
<1> HIDE DEF it
<1>9. Iterates(it, k, B, <<<<>>>>, turn)
  BY <1>5, <1>8 DEF Iterates
<1>10. PICK G : Values(G, k, B, <<<<>>>>, turn) /\ G[k] = it[1..k]
  <2> HIDE DEF turn
  <2> QED BY <1>1, <1>2, <1>9, LoopValues
<1>11. G[k] \in B
  BY <1>10 DEF Values
<1> QED BY <1>3, <1>10, <1>11 DEF B

(* Sequences whose entries may be anything. *)
IsSeq(s) == s \in Seq(ToSet(s))

LEMMA MadeSeq ==
    ASSUME NEW n \in Nat, NEW s, s = [i \in 1..n |-> s[i]]
    PROVE  IsSeq(s) /\ Len(s) = n
<1>1. \A i \in 1..n : s[i] \in ToSet(s)
  BY DEF ToSet
<1>2. s \in [1..n -> ToSet(s)]
  BY <1>1
<1> QED BY <1>2 DEF IsSeq

LEMMA CatSeq ==
    ASSUME NEW s, NEW t, IsSeq(s), IsSeq(t)
    PROVE  IsSeq(s \o t) /\ Len(s \o t) = Len(s) + Len(t)
<1> DEFINE A == ToSet(s) \cup ToSet(t)
           u == s \o t
<1>1. s \in Seq(A) /\ t \in Seq(A)
  BY DEF IsSeq
<1> HIDE DEF A
<1>2. u \in Seq(A) /\ Len(u) = Len(s) + Len(t)
  BY <1>1
<1> HIDE DEF u
<1>3. Len(u) \in Nat /\ u = [i \in 1..Len(u) |-> u[i]]
  BY <1>2
<1> QED BY <1>2, <1>3, MadeSeq DEF u

(* The loop over the partitions. *)
ExpandTurns(ds, k, parts, G) ==
    /\ G[0] = ds
    /\ \A i \in 1..Len(parts) : G[i] = ExpandOnPartition(G[i - 1], k, parts[i])
    /\ Expand(ds, k, parts) = G[Len(parts)]

LEMMA ExpandLoop ==
    ASSUME NEW ds, NEW k, NEW parts, parts \in Seq(Seq(Nat)), parts # <<>>
    PROVE  \E G : ExpandTurns(ds, k, parts, G)
<1> DEFINE n == Len(parts)
           S == SUBSET (1..n)
           Turn1(d, part) == ExpandOnPartition(d, k, part)
           next(g, t) == IF t = {} THEN ds ELSE Turn1(g[t \ {Max(t)}], parts[Max(t)])
           T == {m \in Nat : \E g : \A t \in S : Cardinality(t) <= m => g[t] = next(g, t)}
           it == CHOOSE g : g = [t \in S |-> next(g, t)]
<1>1. n \in Nat /\ DOMAIN parts = 1..n
  OBVIOUS
<1>2. Expand(ds, k, parts) = it[1..n]
  BY <1>1, Zenon DEF Expand, FoldLeft, MapThenFoldSet
<1> HIDE DEF n, Turn1
<1>3. 1..n \subseteq Nat /\ IsFiniteSet(1..n) /\ Cardinality(1..n) = n
  BY <1>1, FS_Interval
<1>4. \A t \in S : /\ IsFiniteSet(t) /\ Cardinality(t) \in Nat /\ Cardinality(t) <= n
                   /\ t # {} => Max(t) \in t
  <2> TAKE t \in S
  <2>1. IsFiniteSet(t) /\ Cardinality(t) <= n
    BY <1>3, FS_Subset
  <2> QED BY <1>3, <2>1, MaxUpTo, FS_CardinalityType
<1>5. 0 \in T
  <2> DEFINE g == [t \in S |-> ds]
  <2>1. ASSUME NEW t \in S, Cardinality(t) <= 0 PROVE g[t] = next(g, t)
    <3>1. t = {}
      BY <1>4, <2>1, FS_EmptySet
    <3> QED BY <3>1
  <2> HIDE DEF g
  <2> QED BY <2>1
<1>6. ASSUME NEW m \in Nat, m \in T PROVE m + 1 \in T
  <2>1. PICK g : \A t \in S : Cardinality(t) <= m => g[t] = next(g, t)
    BY <1>6
  <2> DEFINE more == [t \in S |-> IF Cardinality(t) <= m THEN g[t] ELSE next(g, t)]
  <2>2. ASSUME NEW t \in S, Cardinality(t) <= m + 1 PROVE more[t] = next(more, t)
    <3>1. CASE t = {}
      <4>1. Cardinality(t) <= m
        BY <3>1, FS_EmptySet
      <4> QED BY <2>1, <3>1, <4>1
    <3>2. CASE t # {}
      <4>1. t \ {Max(t)} \in S /\ Cardinality(t \ {Max(t)}) <= m
        <5>1. Cardinality(t \ {Max(t)}) = Cardinality(t) - 1
          BY <1>4, <3>2, FS_RemoveElement
        <5>2. Cardinality(t) \in Nat
          BY <1>4
        <5>3. Cardinality(t) - 1 <= m
          <6> DEFINE a == Cardinality(t)
          <6>1. a \in Nat /\ a <= m + 1 /\ m \in Nat
            BY <2>2, <5>2
          <6> HIDE DEF a
          <6>2. a - 1 <= m
            BY <6>1
          <6> QED BY <6>2 DEF a
        <5>4. t \ {Max(t)} \in S
          OBVIOUS
        <5> QED BY <5>1, <5>3, <5>4
      <4>2. more[t \ {Max(t)}] = g[t \ {Max(t)}]
        BY <4>1
      <4>3. next(more, t) = next(g, t)
        BY <3>2, <4>2, Zenon
      <4>4. more[t] = next(g, t)
        BY <2>1
      <4> QED BY <4>3, <4>4
    <3> QED BY <3>1, <3>2
  <2> HIDE DEF more, next
  <2>3. \E h : \A t \in S : Cardinality(t) <= m + 1 => h[t] = next(h, t)
    BY <2>2
  <2>4. m + 1 \in Nat
    OBVIOUS
  <2> HIDE DEF S
  <2> QED BY <2>3, <2>4, Zenon
<1>7. n \in T
  <2> HIDE DEF T
  <2> QED BY <1>1, <1>5, <1>6, AllNat
<1>8. PICK g : \A t \in S : g[t] = next(g, t)
  <2>1. PICK g : \A t \in S : Cardinality(t) <= n => g[t] = next(g, t)
    BY <1>7
  <2> QED BY <1>4, <2>1
<1>9. it = [t \in S |-> next(it, t)]
  <2> DEFINE h == [t \in S |-> g[t]]
  <2>1. h = [t \in S |-> next(h, t)]
    <3>1. ASSUME NEW t \in S PROVE h[t] = next(h, t)
      <4>1. CASE t = {}
        BY <1>8, <4>1
      <4>2. CASE t # {}
        <5>1. t \ {Max(t)} \in S
          OBVIOUS
        <5>2. h[t \ {Max(t)}] = g[t \ {Max(t)}]
          BY <5>1
        <5>3. next(h, t) = next(g, t)
          BY <4>2, <5>2, Zenon
        <5> QED BY <1>8, <5>3
      <4> QED BY <4>1, <4>2
    <3> HIDE DEF next
    <3> QED BY <3>1
  <2> HIDE DEF h, next
  <2> QED BY <2>1
<1> HIDE DEF it
<1> DEFINE G == [i \in 0..n |-> it[1..i]]
<1>10. G[0] = ds
  <2>1. 1..0 = {} /\ {} \in S /\ 0 \in 0..n
    BY <1>1
  <2> QED BY <1>9, <2>1
<1>11. ASSUME NEW i \in 1..n PROVE G[i] = Turn1(G[i - 1], parts[i])
  <2>1. i \in Nat /\ i # 0 /\ i \in 0..n /\ i - 1 \in 0..n /\ 1..i \in S /\ 1..i # {}
    <3>1. i \in Nat /\ i # 0 /\ i \in 0..n /\ i - 1 \in 0..n
      BY <1>1
    <3>2. \A j \in 1..i : j \in 1..n
      BY <1>1
    <3>3. i \in 1..i
      BY <3>1
    <3> QED BY <3>1, <3>2, <3>3
  <2>2. Max(1..i) = i /\ (1..i) \ {i} = 1..(i - 1)
    BY <2>1, MaxOfUpTo
  <2>3. it[1..i] = Turn1(it[1..(i - 1)], parts[i])
    BY <1>9, <2>1, <2>2
  <2> QED BY <2>1, <2>3
<1>12. G[n] = it[1..n]
  BY <1>1
<1> HIDE DEF G
<1>13. ExpandTurns(ds, k, parts, G)
  BY <1>2, <1>10, <1>11, <1>12 DEF n, Turn1, ExpandTurns
<1> QED BY <1>13

-----------------------------------------------------------------------------
(* A data set, as far as the columns go. *)
Faults == {"none", "assert", "null", "wild"}

IsRecord(ds) ==
    /\ DOMAIN ds = {"rows", "out", "cols", "stdDone", "oStdDone", "fault"}
    /\ ds.fault \in Faults

Alike(a, b) == a.cols = b.cols /\ a.stdDone = b.stdDone

-----------------------------------------------------------------------------
(* The operations keep two data sets alike that are. *)

LEMMA NewIsRecord ==
    ASSUME NEW rows, NEW features
    PROVE  /\ IsRecord(NewDataSet(rows, features))
           /\ NewDataSet(rows, features) # NoDataSet
<1>1. IsRecord(NewDataSet(rows, features))
  BY DEF IsRecord, Faults, NewDataSet
<1>2. "rows" \in DOMAIN NewDataSet(rows, features) /\ DOMAIN NoDataSet = {}
  BY DEF NewDataSet, NoDataSet
<1> QED BY <1>1, <1>2

LEMMA NewAlike ==
    ASSUME NEW a, NEW b, NEW features
    PROVE  Alike(NewDataSet(a, features), NewDataSet(b, features))
BY DEF Alike, NewDataSet

LEMMA RemoveKeepsRecord ==
    ASSUME NEW ds, IsRecord(ds), NEW keep
    PROVE  /\ IsRecord(RemoveFeatures(ds, keep))
           /\ RemoveFeatures(ds, keep).stdDone = ds.stdDone
BY DEF IsRecord, Faults, RemoveFeatures, Faulty, WithCols

LEMMA RemoveKeepsAlike ==
    ASSUME NEW a, NEW b, IsRecord(a), IsRecord(b), Alike(a, b), NEW keep
    PROVE  Alike(RemoveFeatures(a, keep), RemoveFeatures(b, keep))
<1>1. RemoveFeatures(a, keep).cols = RemoveFeatures(b, keep).cols
  BY DEF IsRecord, Alike, RemoveFeatures, Faulty, WithCols, NumCols
<1> QED BY <1>1, RemoveKeepsRecord DEF Alike

LEMMA StandardizeKeeps ==
    ASSUME NEW a, NEW b, IsRecord(a), IsRecord(b), NEW factors
    PROVE  /\ IsRecord(Standardize(a, factors))
           /\ Alike(a, b) => Alike(Standardize(a, factors), Standardize(b, factors))
BY DEF IsRecord, Alike, Standardize

LEMMA OutputKeeps ==
    ASSUME NEW ds, IsRecord(ds)
    PROVE  /\ IsRecord(StandardizeOutput(ds)) /\ Alike(StandardizeOutput(ds), ds)
           /\ \A timeouts : /\ IsRecord(RemoveTimeouts(ds, timeouts))
                            /\ Alike(RemoveTimeouts(ds, timeouts), ds)
BY DEF IsRecord, Alike, StandardizeOutput, RemoveTimeouts

(* Where both go well, with the order and the partition of the columns the *)
(* same.                                                                   *)
LEMMA ExpandOneKeeps ==
    ASSUME NEW a, NEW b, IsRecord(a), IsRecord(b), Alike(a, b), NEW k, NEW part,
           ExpandOnPartition(a, k, part).fault = "none",
           ExpandOnPartition(b, k, part).fault = "none"
    PROVE  /\ IsRecord(ExpandOnPartition(a, k, part)) /\ IsRecord(ExpandOnPartition(b, k, part))
           /\ Alike(ExpandOnPartition(a, k, part), ExpandOnPartition(b, k, part))
<1> DEFINE Grown(cols) ==
               LET combos == Combinations(Len(part), k)
               IN  cols \o [c \in DOMAIN combos |-> Product(cols, part, combos[c])]
                        \o [p \in DOMAIN part |-> Power(cols[part[p]], k)]
<1>1. ASSUME NEW ds, IsRecord(ds), ExpandOnPartition(ds, k, part).fault = "none"
      PROVE  ExpandOnPartition(ds, k, part) = WithCols(ds, Grown(ds.cols))
  BY <1>1 DEF IsRecord, ExpandOnPartition, Faulty
<1> HIDE DEF Grown
<1>2. ASSUME NEW ds, IsRecord(ds), ExpandOnPartition(ds, k, part).fault = "none"
      PROVE  /\ IsRecord(ExpandOnPartition(ds, k, part))
             /\ ExpandOnPartition(ds, k, part).stdDone = ds.stdDone
             /\ ExpandOnPartition(ds, k, part).cols = Grown(ds.cols)
  BY <1>1, <1>2 DEF IsRecord, WithCols
<1> QED BY <1>2 DEF Alike

(* A fault stays. *)
HasFields(ds) == DOMAIN ds = {"rows", "out", "cols", "stdDone", "oStdDone", "fault"}

LEMMA ExpandFaulty ==
    ASSUME NEW ds, HasFields(ds), NEW k, NEW part
    PROVE  /\ HasFields(ExpandOnPartition(ds, k, part))
           /\ ExpandOnPartition(ds, k, part).fault = "none" => ds.fault = "none"
BY DEF HasFields, ExpandOnPartition, Faulty, WithCols

LEMMA ExpandAlike ==
    ASSUME NEW a, NEW b, IsRecord(a), IsRecord(b), Alike(a, b),
           NEW k, NEW parts, parts \in Seq(Seq(Nat)),
           Expand(a, k, parts).fault = "none", Expand(b, k, parts).fault = "none"
    PROVE  /\ IsRecord(Expand(a, k, parts)) /\ IsRecord(Expand(b, k, parts))
           /\ Alike(Expand(a, k, parts), Expand(b, k, parts))
<1>1. CASE parts = <<>>
  <2> DEFINE all(ds) == [c \in DOMAIN ds.cols |-> c]
  <2>1. all(a) = all(b)
    BY DEF Alike
  <2>2. \A ds : Expand(ds, k, parts) = ExpandOnPartition(ds, k, all(ds))
    BY <1>1 DEF Expand
  <2> HIDE DEF all
  <2> QED BY <2>1, <2>2, ExpandOneKeeps
<1>2. CASE parts # <<>>
  <2>1. PICK A : ExpandTurns(a, k, parts, A)
    BY <1>2, ExpandLoop
  <2>2. PICK B : ExpandTurns(b, k, parts, B)
    BY <1>2, ExpandLoop
  <2> DEFINE n == Len(parts)
             Fine(i) == IsRecord(A[i]) /\ IsRecord(B[i]) /\ Alike(A[i], B[i])
             Upto(i) == /\ HasFields(A[i]) /\ HasFields(B[i])
                        /\ (A[i].fault = "none" /\ B[i].fault = "none" => Fine(i))
             T == {i \in 0..n : Upto(i)}
  <2>3. n \in Nat /\ n \in 0..n
    OBVIOUS
  <2> HIDE DEF Fine, Upto
  <2>4. 0 \in T
    BY <2>1, <2>2, <2>3 DEF IsRecord, HasFields, ExpandTurns, Fine, Upto
  <2>5. ASSUME NEW i \in 1..n, i - 1 \in T PROVE i \in T
    <3>0. /\ HasFields(A[i - 1]) /\ HasFields(B[i - 1])
          /\ (A[i - 1].fault = "none" /\ B[i - 1].fault = "none" => Fine(i - 1))
      <4>1. Upto(i - 1)
        BY <2>5
      <4> QED BY <4>1 DEF Upto
    <3>1. /\ A[i] = ExpandOnPartition(A[i - 1], k, parts[i])
          /\ B[i] = ExpandOnPartition(B[i - 1], k, parts[i])
      BY <2>1, <2>2 DEF ExpandTurns
    <3>2. HasFields(A[i]) /\ HasFields(B[i])
      BY <3>0, <3>1, ExpandFaulty
    <3>3. ASSUME A[i].fault = "none", B[i].fault = "none" PROVE Fine(i)
      <4>1. A[i - 1].fault = "none" /\ B[i - 1].fault = "none"
        BY <3>0, <3>1, <3>3, ExpandFaulty
      <4>2. Fine(i - 1)
        BY <3>0, <4>1
      <4> QED BY <3>1, <3>3, <4>2, ExpandOneKeeps DEF Fine
    <3> QED BY <2>3, <3>2, <3>3 DEF Upto
  <2> HIDE DEF T
  <2>6. \A i \in 0..n : i \in T
    BY <2>3, <2>4, <2>5, UpTo
  <2>7. Expand(a, k, parts) = A[n] /\ Expand(b, k, parts) = B[n]
    BY <2>1, <2>2 DEF ExpandTurns
  <2> QED BY <2>3, <2>6, <2>7 DEF T, Upto, Fine
<1> QED BY <1>1, <1>2

LEMMA ExpandKeeps ==
    ASSUME NEW a, NEW b, IsRecord(a), IsRecord(b),
           NEW k, NEW parts, parts \in Seq(Seq(Nat)),
           Expand(a, k, parts).fault = "none", Expand(b, k, parts).fault = "none"
    PROVE  /\ IsRecord(Expand(a, k, parts)) /\ IsRecord(Expand(b, k, parts))
           /\ Alike(a, b) => Alike(Expand(a, k, parts), Expand(b, k, parts))
<1>1. Alike(a, a) /\ Alike(b, b)
  BY DEF Alike
<1> QED BY <1>1, ExpandAlike

-----------------------------------------------------------------------------
(* The inductive invariant, in parts. *)

Later    == {"names", "outputs", "features", "flags", "select", "expand", "reselect",
             "learn", "test"}

Shape ==
    /\ input \in Inputs
    /\ pc \in {"create", "harmful"} \cup Later \cup Terminal
    /\ solver \in Solvers
    /\ DOMAIN train = Solvers /\ DOMAIN test = Solvers /\ DOMAIN timedOut = Solvers

(* The data sets are made one by one. *)
NotYet == pc = "create" => \A s \in Solvers : s >= solver => train[s] = NoDataSet

Records ==
    pc \notin Terminal =>
        \A s \in Solvers : (pc = "create" => s < solver) =>
            IsRecord(train[s]) /\ (HasTest => IsRecord(test[s]))

(* Until its harmful columns are removed a data set has those of the file. *)
NewTraining(s) ==
    NewDataSet(TrainingRows(InOrder, timedOut[s], input.percentTest), Features)
NewTest(s) == NewDataSet(TestRows(InOrder, timedOut[s], input.percentTest), Features)

Fresh ==
    HasTest => \A s \in Solvers :
        (pc = "create" /\ s < solver) \/ (pc = "harmful" /\ s >= solver) =>
            train[s] = NewTraining(s) /\ test[s] = NewTest(s)

Mirror ==
    HasTest => \A s \in Solvers : Made(s) /\ SameKept(s) => Alike(train[s], test[s])

IInv == Shape /\ NotYet /\ Records /\ Fresh /\ Mirror

LEMMA InitIInv == Init => IInv
<1> SUFFICES ASSUME Init PROVE IInv
  OBVIOUS
<1>1. DOMAIN timedOut = Solvers
  BY InputsAssumption DEF Init
<1>2. Shape /\ NotYet
  BY <1>1, NumSolversAssumption DEF Init, Shape, NotYet, Solvers
<1>3. Records /\ Fresh /\ Mirror
  BY DEF Init, Records, Fresh, Mirror, Made, Solvers
<1> QED BY <1>2, <1>3 DEF IInv

LEMMA Turn ==
    ASSUME solver \in Solvers, NEW head, NEW exit, NextSolver(head, exit)
    PROVE  /\ solver' = 1 \/ solver' = solver + 1
           /\ \/ pc' = head /\ solver' = solver + 1
              \/ pc' = exit /\ solver' = 1 /\ solver = NumSolvers
           /\ solver' \in Solvers
BY NumSolversAssumption DEF NextSolver, Solvers

LEMMA SameInput ==
    ASSUME input' = input
    PROVE  /\ HasTest' = HasTest
           /\ \A s : timedOut'[s] = timedOut[s] => SameKept(s)' = SameKept(s)
BY DEF HasTest, SameKept, Harmless

-----------------------------------------------------------------------------
(* The program stops. *)
LEMMA StopCore ==
    ASSUME IInv, NEW outcomes, outcomes \subseteq Terminal, Stop(outcomes)
    PROVE  IInv'
<1>1. pc' \in Terminal /\ pc' \notin {"create", "harmful"}
  BY DEF Stop, Terminal
<1>2. /\ train' = train /\ test' = test /\ timedOut' = timedOut /\ input' = input
      /\ solver' = solver
  BY DEF Stop, data
<1>3. Mirror'
  BY <1>2, SameInput DEF IInv, Mirror, Made
<1> QED BY <1>1, <1>2, <1>3 DEF IInv, Shape, NotYet, Records, Fresh

(* A stage after the harmful columns are removed replaces the data sets of *)
(* one solver by others, which are alike if they were.                     *)
LEMMA WorkCore ==
    ASSUME IInv, pc \in Later, pc' \in Later \cup {"done"}, solver' \in Solvers,
           input' = input, timedOut' = timedOut,
           DOMAIN train' = Solvers, DOMAIN test' = Solvers,
           \A s \in Solvers : s # solver => train'[s] = train[s] /\ test'[s] = test[s],
           IsRecord(train'[solver]), HasTest => IsRecord(test'[solver]),
           HasTest /\ Alike(train[solver], test[solver])
               => Alike(train'[solver], test'[solver])
    PROVE  IInv'
<1>1. pc \notin {"create", "harmful"} \cup Terminal /\ pc' \notin {"create", "harmful"}
  BY DEF Later, Terminal
<1>2. Shape'
  BY DEF IInv, Shape, Terminal
<1>3. Records'
  BY <1>1, SameInput DEF IInv, Shape, Records
<1>4. Mirror'
  <2> SUFFICES ASSUME HasTest, NEW s \in Solvers, Made(s)', SameKept(s)
               PROVE  Alike(train'[s], test'[s])
    BY SameInput DEF Mirror
  <2>1. IsRecord(train[s])
    BY <1>1 DEF IInv, Records
  <2>2. train[s] # NoDataSet
    <3>1. "cols" \in DOMAIN train[s] /\ DOMAIN NoDataSet = {}
      BY <2>1 DEF IsRecord, NoDataSet
    <3> QED BY <3>1
  <2>3. Alike(train[s], test[s])
    BY <2>2 DEF IInv, Mirror, Made
  <2> QED BY <2>3
<1> QED BY <1>1, <1>2, <1>3, <1>4 DEF IInv, NotYet, Fresh

LEMMA QuietCore ==
    ASSUME IInv, pc \in Later, pc' \in Later \cup {"done"}, solver' \in Solvers,
           input' = input, timedOut' = timedOut, train' = train, test' = test
    PROVE  IInv'
<1>1. IsRecord(train[solver]) /\ (HasTest => IsRecord(test[solver]))
  BY DEF IInv, Records, Shape, Later, Terminal
<1> QED BY <1>1, WorkCore DEF IInv, Shape
-----------------------------------------------------------------------------
LEMMA CreateCore ==
    ASSUME IInv, Create
    PROVE  IInv'
<1> USE DEF data
<1>1. PICK out :
         /\ timedOut' = [timedOut EXCEPT ![solver] = out]
         /\ IF HasTest
            THEN /\ train' = [train EXCEPT ![solver] = NewDataSet(
                        TrainingRows(InOrder, out, input.percentTest), Features)]
                 /\ test' = [test EXCEPT ![solver] = NewDataSet(
                        TestRows(InOrder, out, input.percentTest), Features)]
            ELSE /\ train' = [train EXCEPT ![solver] = NewDataSet(InOrder, Features)]
                 /\ UNCHANGED test
  BY DEF Create
<1>2. /\ pc = "create" /\ input' = input /\ solver \in Solvers
      /\ NextSolver("create", "harmful")
  BY DEF Create, IInv, Shape
<1>3. /\ solver' \in Solvers
      /\ \/ pc' = "create" /\ solver' = solver + 1
         \/ pc' = "harmful" /\ solver' = 1 /\ solver = NumSolvers
  BY <1>2, Turn
<1>4. \A s \in Solvers : s # solver =>
         timedOut'[s] = timedOut[s] /\ train'[s] = train[s] /\ test'[s] = test[s]
  BY <1>1, <1>2 DEF IInv, Shape
<1>5. timedOut'[solver] = out
  BY <1>1, <1>2 DEF IInv, Shape
<1>6. ASSUME HasTest, NEW s \in Solvers, s = solver
      PROVE  train'[s] = NewTraining(s)' /\ test'[s] = NewTest(s)'
  BY <1>1, <1>2, <1>5, <1>6 DEF IInv, Shape, NewTraining, NewTest
<1>7. IsRecord(train'[solver]) /\ (HasTest => IsRecord(test'[solver]))
  BY <1>1, <1>2, NewIsRecord DEF IInv, Shape
<1>8. Shape'
  BY <1>1, <1>2, <1>3 DEF IInv, Shape
<1>9. \A s \in Solvers :
         (pc' = "create" /\ s < solver') \/ (pc' = "harmful" /\ s >= solver')
             <=> s < solver \/ s = solver \/ pc' = "harmful"
  BY <1>2, <1>3, NumSolversAssumption DEF Solvers
<1>10. \A s \in Solvers : pc' = "harmful" => s < solver \/ s = solver
  BY <1>3, NumSolversAssumption DEF Solvers
<1>11. NotYet'
  BY <1>2, <1>3, <1>4 DEF IInv, NotYet, Solvers
<1>12. Records'
  <2> SUFFICES ASSUME NEW s \in Solvers, s < solver \/ s = solver
               PROVE  IsRecord(train'[s]) /\ (HasTest => IsRecord(test'[s]))
    BY <1>2, <1>3, <1>10, SameInput DEF Records, Solvers
  <2>1. s < solver => IsRecord(train[s]) /\ (HasTest => IsRecord(test[s]))
    BY <1>2 DEF IInv, Records, Terminal
  <2> QED BY <1>2, <1>4, <1>7, <2>1 DEF Solvers
<1>13. Fresh'
  <2> SUFFICES ASSUME HasTest, NEW s \in Solvers, s < solver \/ s = solver
               PROVE  train'[s] = NewTraining(s)' /\ test'[s] = NewTest(s)'
    BY <1>2, <1>9, <1>10, SameInput DEF Fresh
  <2>1. CASE s = solver
    BY <1>6, <2>1
  <2>2. CASE s < solver /\ s # solver
    <3>1. train[s] = NewTraining(s) /\ test[s] = NewTest(s)
      BY <1>2, <2>2 DEF IInv, Fresh
    <3> QED BY <1>2, <1>4, <2>2, <3>1 DEF NewTraining, NewTest
  <2> QED BY <2>1, <2>2
<1>14. Mirror'
  <2> SUFFICES ASSUME HasTest, NEW s \in Solvers, Made(s)', SameKept(s)'
               PROVE  Alike(train'[s], test'[s])
    BY <1>2, SameInput DEF Mirror
  <2>1. CASE s = solver
    BY <1>6, <2>1, NewAlike DEF NewTraining, NewTest
  <2>2. CASE s # solver
    BY <1>2, <1>4, <2>2, SameInput DEF IInv, Mirror, Made
  <2> QED BY <2>1, <2>2
<1> QED BY <1>8, <1>11, <1>12, <1>13, <1>14 DEF IInv

(* The harmful columns of the two sets of a solver, removed independently, *)
(* are the same columns or are not spoken of.                              *)
LEMMA HarmfulCore ==
    ASSUME IInv, RemoveHarmful
    PROVE  IInv'
<1> USE DEF data
<1>1. /\ pc = "harmful" /\ input' = input /\ timedOut' = timedOut /\ solver \in Solvers
      /\ NextSolver("harmful", "names")
  BY DEF RemoveHarmful, IInv, Shape
<1>2. /\ solver' \in Solvers
      /\ \/ pc' = "harmful" /\ solver' = solver + 1
         \/ pc' = "names" /\ solver' = 1
  BY <1>1, Turn
<1>3. \A s \in Solvers : s # solver => train'[s] = train[s] /\ test'[s] = test[s]
  BY <1>1 DEF RemoveHarmful, IInv, Shape
<1>4. train'[solver] = RemoveHarmfulFeatures(train[solver], input.value)
  BY <1>1 DEF RemoveHarmful, IInv, Shape
<1>5. HasTest => test'[solver] = RemoveHarmfulFeatures(test[solver], input.value)
  BY <1>1 DEF RemoveHarmful, IInv, Shape
<1>6. IsRecord(train[solver]) /\ (HasTest => IsRecord(test[solver]))
  BY <1>1 DEF IInv, Records, Terminal
<1>7. /\ IsRecord(train'[solver]) /\ train'[solver].stdDone = train[solver].stdDone
      /\ HasTest => /\ IsRecord(test'[solver])
                    /\ test'[solver].stdDone = test[solver].stdDone
  BY <1>4, <1>5, <1>6, RemoveKeepsRecord DEF RemoveHarmfulFeatures
<1>8. Shape'
  BY <1>1, <1>2 DEF RemoveHarmful, IInv, Shape, Later
<1>9. Records'
  BY <1>1, <1>2, <1>3, <1>7, SameInput DEF IInv, Records, Terminal
<1>10. Fresh'
  <2> SUFFICES ASSUME HasTest, NEW s \in Solvers, pc' = "harmful", s >= solver'
               PROVE  train'[s] = NewTraining(s)' /\ test'[s] = NewTest(s)'
    BY <1>1, <1>2, SameInput DEF Fresh
  <2>1. s # solver /\ s >= solver
    BY <1>1, <1>2 DEF Solvers
  <2> QED BY <1>1, <1>3, <2>1 DEF IInv, Fresh, NewTraining, NewTest
<1>11. Mirror'
  <2> SUFFICES ASSUME HasTest, NEW s \in Solvers, Made(s)', SameKept(s)
               PROVE  Alike(train'[s], test'[s])
    BY <1>1, SameInput DEF Mirror
  <2>1. CASE s = solver
    <3>1. train[s] = NewTraining(s) /\ test[s] = NewTest(s)
      BY <1>1, <2>1 DEF IInv, Fresh, Solvers
    <3>2. train'[s].cols = test'[s].cols
      BY <1>4, <1>5, <2>1, <3>1 DEF SameKept, Harmless, NewTraining, NewTest
    <3>3. train[s].stdDone = test[s].stdDone
      BY <3>1, NewAlike DEF NewTraining, NewTest, Alike
    <3> QED BY <1>7, <2>1, <3>2, <3>3 DEF Alike
  <2>2. CASE s # solver
    BY <1>3, <2>2 DEF IInv, Mirror, Made
  <2> QED BY <2>1, <2>2
<1>12. NotYet'
  BY <1>2 DEF NotYet
<1> QED BY <1>8, <1>9, <1>10, <1>11, <1>12 DEF IInv
-----------------------------------------------------------------------------
LEMMA OutputsCore ==
    ASSUME IInv, PrepareOutputs
    PROVE  IInv'
<1>1. /\ pc \in Later /\ pc' \in Later /\ solver' = solver /\ solver \in Solvers
      /\ input' = input /\ timedOut' = timedOut
  BY DEF PrepareOutputs, Goto, Later, data, IInv, Shape
<1>2. /\ DOMAIN train' = Solvers /\ DOMAIN test' = Solvers
      /\ \A s \in Solvers : s # solver => train'[s] = train[s] /\ test'[s] = test[s]
  BY <1>1 DEF PrepareOutputs, IInv, Shape
<1>3. IsRecord(train[solver]) /\ (HasTest => IsRecord(test[solver]))
  BY <1>1 DEF IInv, Records, Later, Terminal
<1>4. /\ IsRecord(Unlimited(train[solver]))
      /\ Alike(Unlimited(train[solver]), train[solver])
  BY <1>3, OutputKeeps DEF Unlimited, Alike
<1>5. /\ train'[solver] = IF input.outputStd THEN StandardizeOutput(Unlimited(train[solver]))
                          ELSE Unlimited(train[solver])
      /\ test'[solver] = IF input.outputStd THEN StandardizeOutput(test[solver])
                         ELSE test[solver]
  BY <1>1 DEF PrepareOutputs, IInv, Shape
<1>6. IsRecord(train'[solver]) /\ Alike(train'[solver], train[solver])
  BY <1>4, <1>5, OutputKeeps DEF Alike
<1>7. HasTest => IsRecord(test'[solver]) /\ Alike(test'[solver], test[solver])
  BY <1>3, <1>5, OutputKeeps DEF Alike
<1>8. HasTest /\ Alike(train[solver], test[solver]) => Alike(train'[solver], test'[solver])
  BY <1>6, <1>7 DEF Alike
<1> QED BY <1>1, <1>2, <1>6, <1>7, <1>8, WorkCore

LEMMA StandardizeCore ==
    ASSUME IInv, StandardizeFeatures
    PROVE  IInv'
<1>1. /\ pc \in Later /\ NextSolver("outputs", "flags") /\ solver \in Solvers
      /\ input' = input /\ timedOut' = timedOut
  BY DEF StandardizeFeatures, Later, data, IInv, Shape
<1>2. pc' \in Later /\ solver' \in Solvers
  BY <1>1, Turn DEF Later
<1>3. CASE ~input.featureStd
  BY <1>1, <1>2, <1>3, QuietCore DEF StandardizeFeatures
<1>4. CASE input.featureStd
  <2>1. HasTest
    BY <1>4 DEF StandardizeFeatures
  <2>2. PICK factors : /\ train' = [train EXCEPT ![solver] = Standardize(@, factors)]
                       /\ test'  = [test  EXCEPT ![solver] = Standardize(@, factors)]
    BY <1>4 DEF StandardizeFeatures
  <2>3. IsRecord(train[solver]) /\ IsRecord(test[solver])
    BY <1>1, <2>1 DEF IInv, Records, Later, Terminal
  <2>4. /\ train'[solver] = Standardize(train[solver], factors)
        /\ test'[solver] = Standardize(test[solver], factors)
        /\ DOMAIN train' = Solvers /\ DOMAIN test' = Solvers
        /\ \A s \in Solvers : s # solver => train'[s] = train[s] /\ test'[s] = test[s]
    BY <1>1, <2>2 DEF IInv, Shape
  <2>5. /\ IsRecord(train'[solver]) /\ IsRecord(test'[solver])
        /\ Alike(train[solver], test[solver]) => Alike(train'[solver], test'[solver])
    BY <2>3, <2>4, StandardizeKeeps
  <2> QED BY <1>1, <1>2, <2>4, <2>5, WorkCore
<1> QED BY <1>3, <1>4

LEMMA SelectCore ==
    ASSUME IInv, NEW here \in Later, NEW after \in Later, Select(here, after)
    PROVE  IInv'
<1>1. pc \in Later /\ solver \in Solvers
  BY DEF Select, IInv, Shape
<1>2. IsRecord(train[solver]) /\ (HasTest => IsRecord(test[solver]))
  BY <1>1 DEF IInv, Records, Later, Terminal
<1>3. CASE Goto(after) /\ UNCHANGED <<data, train, test, file>>
  BY <1>1, <1>3, QuietCore DEF Goto, data
<1>4. CASE Stop({"crashed"})
  BY <1>4, StopCore DEF Terminal
<1>5. CASE Stop(SelectionStops(train[solver]))
  BY <1>5, StopCore DEF Terminal, SelectionStops
<1>6. ASSUME HasTest, NEW res,
             LET kept == RemoveFeatures(test[solver], res) IN
                IF kept.fault # "none" THEN Stop(Outcomes(kept.fault))
                ELSE /\ train' = [train EXCEPT ![solver] = RemoveFeatures(@, res)]
                     /\ test'  = [test  EXCEPT ![solver] = kept]
                     /\ Goto(after)
                     /\ UNCHANGED <<data, file>>
      PROVE  IInv'
  <2>1. /\ IsRecord(RemoveFeatures(test[solver], res))
        /\ IsRecord(RemoveFeatures(train[solver], res))
        /\ Alike(train[solver], test[solver]) =>
              Alike(RemoveFeatures(train[solver], res), RemoveFeatures(test[solver], res))
    BY <1>2, <1>6, RemoveKeepsRecord, RemoveKeepsAlike
  <2>2. CASE RemoveFeatures(test[solver], res).fault # "none"
    <3>1. Outcomes(RemoveFeatures(test[solver], res).fault) \subseteq Terminal
      BY <2>1, <2>2 DEF IsRecord, Faults, Outcomes, Terminal
    <3> QED BY <1>6, <2>2, <3>1, StopCore
  <2>3. CASE RemoveFeatures(test[solver], res).fault = "none"
    <3>1. /\ train' = [train EXCEPT ![solver] = RemoveFeatures(@, res)]
          /\ test'  = [test  EXCEPT ![solver] = RemoveFeatures(test[solver], res)]
          /\ pc' = after /\ solver' = solver /\ input' = input /\ timedOut' = timedOut
      BY <1>6, <2>3 DEF Goto, data
    <3>2. /\ train'[solver] = RemoveFeatures(train[solver], res)
          /\ test'[solver] = RemoveFeatures(test[solver], res)
          /\ DOMAIN train' = Solvers /\ DOMAIN test' = Solvers
          /\ \A s \in Solvers : s # solver => train'[s] = train[s] /\ test'[s] = test[s]
      BY <1>1, <3>1 DEF IInv, Shape
    <3> QED BY <1>1, <2>1, <3>1, <3>2, WorkCore
  <2> QED BY <2>2, <2>3
<1> QED BY <1>3, <1>4, <1>5, <1>6 DEF Select

LEMMA ExpandCore ==
    ASSUME IInv, ExpandBoth
    PROVE  IInv'
<1> DEFINE first == Expanded(train[solver])
           second == Expanded(test[solver])
<1>1. pc \in Later /\ solver \in Solvers
  BY DEF ExpandBoth, Later, IInv, Shape
<1>2. IsRecord(train[solver]) /\ (HasTest => IsRecord(test[solver]))
  BY <1>1 DEF IInv, Records, Later, Terminal
<1>3. \/ \E outcomes : outcomes \subseteq Terminal /\ Stop(outcomes)
      \/ /\ HasTest /\ first.fault = "none" /\ second.fault = "none"
         /\ train' = [train EXCEPT ![solver] = first]
         /\ test'  = [test  EXCEPT ![solver] = second]
         /\ Goto("reselect")
         /\ UNCHANGED <<data, file>>
  <2>1. {"crashed"} \subseteq Terminal /\ \A fault : Outcomes(fault) \subseteq Terminal
    BY DEF Terminal, Outcomes
  <2> QED BY <2>1 DEF ExpandBoth
<1> HIDE DEF first, second
<1>4. CASE \E outcomes : outcomes \subseteq Terminal /\ Stop(outcomes)
  BY <1>4, StopCore
<1>5. CASE /\ HasTest /\ first.fault = "none" /\ second.fault = "none"
           /\ train' = [train EXCEPT ![solver] = first]
           /\ test'  = [test  EXCEPT ![solver] = second]
           /\ Goto("reselect")
           /\ UNCHANGED <<data, file>>
  <2>1. /\ pc' \in Later /\ solver' = solver /\ input' = input /\ timedOut' = timedOut
    BY <1>5 DEF Goto, data, Later
  <2>2. /\ train'[solver] = first /\ test'[solver] = second
        /\ DOMAIN train' = Solvers /\ DOMAIN test' = Solvers
        /\ \A s \in Solvers : s # solver => train'[s] = train[s] /\ test'[s] = test[s]
    BY <1>1, <1>5 DEF IInv, Shape
  <2>3. input.fePartitions \in Seq(Seq(Nat))
    BY InputsAssumption DEF IInv, Shape
  <2>4. IsRecord(first) /\ IsRecord(second)
        /\ (Alike(train[solver], test[solver]) => Alike(first, second))
    BY <1>2, <1>5, <2>3, ExpandKeeps DEF first, second, Expanded
  <2> QED BY <1>1, <1>5, <2>1, <2>2, <2>4, WorkCore
<1> QED BY <1>3, <1>4, <1>5

LEMMA OthersCore ==
    ASSUME IInv, WriteSolverNames \/ WriteFlags \/ DoNotExpand \/ Learn \/ Test
    PROVE  IInv'
<1>1. /\ pc \in Later /\ solver \in Solvers
      /\ input' = input /\ timedOut' = timedOut /\ train' = train /\ test' = test
  BY DEF WriteSolverNames, WriteFlags, DoNotExpand, Learn, Test, Later, data, IInv, Shape
<1>2. CASE WriteSolverNames \/ WriteFlags \/ DoNotExpand \/ Learn
  <2>1. pc' \in Later /\ solver' = solver
    BY <1>2 DEF WriteSolverNames, WriteFlags, DoNotExpand, Learn, Goto, Later
  <2> QED BY <1>1, <2>1, QuietCore
<1>3. CASE Test
  <2>1. pc' \in Later \cup {"done"} /\ solver' \in Solvers
    BY <1>1, <1>3, Turn DEF Test, Later
  <2> QED BY <1>1, <2>1, QuietCore
<1> QED BY <1>2, <1>3

LEMMA StopsCore ==
    ASSUME IInv, \/ CreateTraps \/ PrepareOutputsNoTest \/ StandardizeFeaturesStops
                 \/ LearnStops \/ TestStops
    PROVE  IInv'
<1>1. PICK outcomes \in SUBSET {"aborted", "crashed", "failed"} : Stop(outcomes)
  BY DEF CreateTraps, PrepareOutputsNoTest, StandardizeFeaturesStops, LearnStops, TestStops
<1> QED BY <1>1, StopCore DEF Terminal

LEMMA StutterCore ==
    ASSUME IInv, UNCHANGED vars
    PROVE  IInv'
<1> USE DEF vars
<1>1. Mirror'
  BY SameInput DEF IInv, Mirror, Made
<1>2. Fresh' /\ Records'
  BY SameInput DEF IInv, Fresh, Records, NewTraining, NewTest
<1> QED BY <1>1, <1>2 DEF IInv, Shape, NotYet

LEMMA NextIInv == IInv /\ [Next]_vars => IInv'
<1> SUFFICES ASSUME IInv, [Next]_vars PROVE IInv'
  OBVIOUS
<1>1. CASE FirstSelection \/ SecondSelection
  BY <1>1, SelectCore DEF FirstSelection, SecondSelection, Later
<1>2. CASE Ended \/ UNCHANGED vars
  BY <1>2, StutterCore DEF Ended
<1> QED
  BY <1>1, <1>2, CreateCore, HarmfulCore, OutputsCore, StandardizeCore, ExpandCore,
     OthersCore, StopsCore DEF Next

THEOREM Invariance == Spec => []IInv
BY InitIInv, NextIInv, PTL DEF Spec
-----------------------------------------------------------------------------
(* Where the harmful columns of a solver's two sets are the same, its test *)
(* set has the columns of its training set, made in the same way from the  *)
(* same factors, after every stage, an expansion over partitions too.      *)
THEOREM TestLikeTraining == Spec => []TestMirrors
<1>1. IInv => TestMirrors
  BY DEF IInv, Mirror, Alike, TestMirrors
<1> QED BY <1>1, Invariance, PTL

-----------------------------------------------------------------------------
(* The rows, the columns and the outputs of a data set. *)
IsWhole(ds) == IsDataSet(ds) /\ ds.rows \in Seq(Int) /\ IsSeq(ds.cols)

SameRows(e, ds) ==
    /\ DOMAIN e = DOMAIN ds /\ e.rows = ds.rows /\ e.out = ds.out
    /\ e.stdDone \in BOOLEAN /\ e.oStdDone \in BOOLEAN
    /\ IsSeq(ds.cols) => IsSeq(e.cols)

LEMMA SameRowsWhole ==
    ASSUME NEW ds, IsWhole(ds), NEW e, SameRows(e, ds), e.fault = "none"
    PROVE  IsWhole(e)
  BY DEF IsWhole, IsDataSet, SameRows

LEMMA ExpandOneRows ==
    ASSUME NEW ds, DOMAIN ds = {"rows", "out", "cols", "stdDone", "oStdDone", "fault"},
           ds.stdDone \in BOOLEAN, ds.oStdDone \in BOOLEAN,
           NEW k \in Nat, NEW part \in Seq(Nat)
    PROVE  SameRows(ExpandOnPartition(ds, k, part), ds)
<1> DEFINE combos == Combinations(Len(part), k)
           products == [c \in DOMAIN combos |-> Product(ds.cols, part, combos[c])]
           powers == [p \in DOMAIN part |-> Power(ds.cols[part[p]], k)]
           cols == ds.cols \o products \o powers
<1>1. ASSUME IsSeq(ds.cols) PROVE IsSeq(cols)
  <2>1. IsSeq(products)
    <3>1. combos \in Seq(Seq(1..Len(part)))
      BY CombinationsType
    <3> HIDE DEF combos
    <3>2. Len(combos) \in Nat /\ DOMAIN combos = 1..Len(combos)
      BY <3>1
    <3>3. products = [c \in 1..Len(combos) |-> products[c]]
      BY <3>2
    <3> HIDE DEF products
    <3> QED BY <3>2, <3>3, MadeSeq
  <2>2. IsSeq(powers)
    <3>1. Len(part) \in Nat /\ DOMAIN part = 1..Len(part)
      OBVIOUS
    <3>2. powers = [c \in 1..Len(part) |-> powers[c]]
      BY <3>1
    <3> HIDE DEF powers
    <3> QED BY <3>1, <3>2, MadeSeq
  <2> HIDE DEF products, powers
  <2>3. IsSeq(ds.cols \o products)
    BY <1>1, <2>1, CatSeq
  <2> QED BY <2>2, <2>3, CatSeq
<1>2. \/ ExpandOnPartition(ds, k, part) = ds
      \/ \E fault : ExpandOnPartition(ds, k, part) = Faulty(ds, fault)
      \/ ExpandOnPartition(ds, k, part) = WithCols(ds, cols)
  BY DEF ExpandOnPartition
<1> HIDE DEF cols
<1> QED BY <1>1, <1>2 DEF SameRows, Faulty, WithCols

LEMMA ExpandRows ==
    ASSUME NEW ds, DOMAIN ds = {"rows", "out", "cols", "stdDone", "oStdDone", "fault"},
           ds.stdDone \in BOOLEAN, ds.oStdDone \in BOOLEAN, NEW k \in Nat, NEW parts \in Seq(Seq(Nat))
    PROVE  SameRows(Expand(ds, k, parts), ds)
<1>1. CASE parts = <<>>
  <2>1. CASE IsSeq(ds.cols)
    <3> DEFINE all == [c \in DOMAIN ds.cols |-> c]
    <3>1. all \in Seq(Nat)
      BY <2>1 DEF IsSeq
    <3>2. Expand(ds, k, parts) = ExpandOnPartition(ds, k, all)
      BY <1>1 DEF Expand
    <3> HIDE DEF all
    <3> QED BY <3>1, <3>2, ExpandOneRows
  <2>2. CASE ~IsSeq(ds.cols)
    BY <1>1, <2>2 DEF Expand, SameRows, ExpandOnPartition, Faulty, WithCols
  <2> QED BY <2>1, <2>2
<1>2. CASE parts # <<>>
  <2>0. PICK G : ExpandTurns(ds, k, parts, G)
    BY <1>2, ExpandLoop
  <2>1. /\ G[0] = ds
        /\ \A i \in 1..Len(parts) : G[i] = ExpandOnPartition(G[i - 1], k, parts[i])
        /\ Expand(ds, k, parts) = G[Len(parts)]
    BY <2>0 DEF ExpandTurns
  <2> DEFINE n == Len(parts)
             T == {i \in 0..n : SameRows(G[i], ds)}
  <2>2. n \in Nat
    OBVIOUS
  <2>3. 0 \in T
    BY <2>1, <2>2 DEF SameRows
  <2>4. ASSUME NEW i \in 1..n, i - 1 \in T PROVE i \in T
    <3>1. SameRows(G[i - 1], ds) /\ i \in 0..n
      BY <2>2, <2>4
    <3>2. G[i] = ExpandOnPartition(G[i - 1], k, parts[i])
      BY <2>1
    <3>3. SameRows(G[i], G[i - 1])
      <4> DEFINE d == G[i - 1]
      <4>1. /\ DOMAIN d = {"rows", "out", "cols", "stdDone", "oStdDone", "fault"}
            /\ d.stdDone \in BOOLEAN /\ d.oStdDone \in BOOLEAN
        BY <3>1 DEF SameRows
      <4> HIDE DEF d
      <4>2. parts[i] \in Seq(Nat)
        BY <2>2
      <4>3. SameRows(ExpandOnPartition(d, k, parts[i]), d)
        BY <4>1, <4>2, ExpandOneRows
      <4> QED BY <3>2, <4>3 DEF d
    <3>4. SameRows(G[i], ds)
      BY <3>1, <3>3 DEF SameRows
    <3> QED BY <3>1, <3>4
  <2> HIDE DEF T
  <2>5. \A i \in 0..n : i \in T
    BY <2>2, <2>3, <2>4, UpTo
  <2>6. n \in 0..n /\ Expand(ds, k, parts) = G[n]
    BY <2>1, <2>2
  <2>7. SameRows(G[n], ds)
    BY <2>5, <2>6 DEF T
  <2> QED BY <2>6, <2>7
<1> QED BY <1>1, <1>2

(* The rows of both sets, for every configuration, with partitions too.    *)
(* What is split at the start is not split again: the columns change, the  *)
(* rows and the outputs beside them do not.                                *)
Stages == {"create", "harmful"} \cup Later

Places ==
    /\ input \in Inputs
    /\ timedOut \in [Solvers -> SUBSET Instances]
    /\ DOMAIN train = Solvers /\ DOMAIN test = Solvers
    /\ pc \in Stages \cup Terminal
    /\ solver \in Solvers

Wholes ==
    \A s \in Solvers :
        /\ Made(s) => IsWhole(train[s])
        /\ test[s] # NoDataSet => IsWhole(test[s])
        /\ test[s] # NoDataSet <=> Made(s) /\ HasTest

MadeInTurn ==
    /\ pc = "create" => \A s \in Solvers : Made(s) <=> s < solver
    /\ pc \in Stages \ {"create"} => \A s \in Solvers : Made(s)

SplitOf(s) ==
    /\ train[s].rows = TrainingRows(InOrder, timedOut[s], input.percentTest)
    /\ test[s].rows = TestRows(InOrder, timedOut[s], input.percentTest)
    /\ train[s].out = train[s].rows
    /\ test[s].out = test[s].rows

Splits == HasTest => \A s \in Solvers : Made(s) => SplitOf(s)

RInv == Places /\ Wholes /\ MadeInTurn /\ Splits

LEMMA InputTypes ==
    ASSUME input \in Inputs
    PROVE  /\ input.percentTest \in Nat /\ input.fePartitions \in Seq(Seq(Nat))
           /\ input.timeouts \in [Solvers -> SUBSET Instances]
           /\ input.fsopt \in {"NONE", "DELTA", "INSTS"} /\ input.fsInsts \in Nat
  BY InputsAssumption

LEMMA InstanceFacts ==
    /\ InOrder \in Seq(Int) /\ Increasing(InOrder) /\ ToSet(InOrder) = Instances
    /\ IsFiniteSet(Instances) /\ Instances \subseteq Int
<1>1. NumInstances \in Nat
  BY NumInstancesAssumption
<1>2. InOrder \in Seq(Int) /\ Len(InOrder) = NumInstances /\ DOMAIN InOrder = 1..NumInstances
  BY <1>1 DEF InOrder
<1>3. Increasing(InOrder)
  BY <1>1, <1>2 DEF Increasing, InOrder
<1>4. ToSet(InOrder) = Instances
  <2>1. ASSUME NEW x \in Instances PROVE x + 1 \in 1..NumInstances /\ (x + 1) - 1 = x
    BY <1>1 DEF Instances
  <2>2. \A i \in 1..NumInstances : i - 1 \in Instances
    BY <1>1 DEF Instances
  <2> QED BY <1>2, <2>1, <2>2 DEF ToSet, InOrder
<1> QED BY <1>1, <1>2, <1>3, <1>4, FS_Interval DEF Instances

(* What is split: which rows go where. *)
LEMMA RowsOf ==
    ASSUME NEW timeouts, NEW p
    PROVE  /\ TrainingRows(InOrder, timeouts, p) \in Seq(Int)
           /\ TestRows(InOrder, timeouts, p) \in Seq(Int)
           /\ Increasing(TrainingRows(InOrder, timeouts, p))
           /\ Increasing(TestRows(InOrder, timeouts, p))
           /\ ToSet(TrainingRows(InOrder, timeouts, p))
                 = {i \in Instances \ timeouts : ~IsTestRow(i, p)}
           /\ ToSet(TestRows(InOrder, timeouts, p))
                 = {i \in Instances \ timeouts : IsTestRow(i, p)}
<1> DEFINE A == {i \in ToSet(InOrder) \ timeouts : ~IsTestRow(i, p)}
           B == {i \in ToSet(InOrder) \ timeouts : IsTestRow(i, p)}
<1>1. A \subseteq ToSet(InOrder) /\ B \subseteq ToSet(InOrder)
  OBVIOUS
<1>2. TrainingRows(InOrder, timeouts, p) = Chosen(InOrder, A)
      /\ TestRows(InOrder, timeouts, p) = Chosen(InOrder, B)
  BY DEF TrainingRows, TestRows
<1>3. /\ A = {i \in Instances \ timeouts : ~IsTestRow(i, p)}
      /\ B = {i \in Instances \ timeouts : IsTestRow(i, p)}
  BY InstanceFacts
<1> HIDE DEF A, B
<1>4. \A S : /\ Chosen(InOrder, S) \in Seq(Int) /\ Increasing(Chosen(InOrder, S))
             /\ ToSet(Chosen(InOrder, S)) = ToSet(InOrder) \cap S
  BY InstanceFacts, ChosenIs, ChosenSorted
<1> QED BY <1>1, <1>2, <1>3, <1>4

LEMMA NewWhole ==
    ASSUME NEW rows \in Seq(Int), ToSet(rows) \subseteq Instances
    PROVE  /\ IsWhole(NewDataSet(rows, Features))
           /\ NewDataSet(rows, Features).rows = rows /\ NewDataSet(rows, Features).out = rows
           /\ NewDataSet(rows, Features) # NoDataSet
<1> DEFINE cols == [c \in DOMAIN Features |-> RawColumn(Features[c])]
<1>1. Len(Features) \in Nat /\ DOMAIN Features = 1..Len(Features)
  BY FeaturesAssumption
<1>2. cols = [c \in 1..Len(Features) |-> cols[c]]
  BY <1>1
<1> HIDE DEF cols
<1>3. IsSeq(cols)
  BY <1>1, <1>2, MadeSeq
<1>4. NewDataSet(rows, Features).cols = cols
  BY DEF NewDataSet, cols
<1> QED BY <1>3, <1>4, NewIsRecord DEF IsWhole, IsDataSet, NewDataSet

LEMMA WholeMade ==
    ASSUME NEW ds, IsWhole(ds)
    PROVE  ds # NoDataSet
<1>1. "rows" \in DOMAIN ds /\ DOMAIN NoDataSet = {}
  BY DEF IsWhole, IsDataSet, NoDataSet
<1> QED BY <1>1

(* Most operations leave rows and outputs alone. *)
LEMMA RemoveRowsAnyhow ==
    ASSUME NEW ds, IsWhole(ds), NEW keep, IsSeq(keep), RemoveFeatures(ds, keep).fault = "none"
    PROVE  IsWhole(RemoveFeatures(ds, keep)) /\ SameRows(RemoveFeatures(ds, keep), ds)
<1> DEFINE kept == RemoveFeatures(ds, keep)
           named(n) == [ds.cols[Sorted(keep, n)] EXCEPT
                           !.null = @ \/ \E m \in 1..(n - 1) : Sorted(keep, m) = Sorted(keep, n)]
           cols == [n \in DOMAIN keep |-> named(n)]
<1>1. ds.fault = "none"
  BY DEF IsWhole, IsDataSet
<1>2. kept = ds \/ kept = Faulty(ds, "wild") \/ kept = WithCols(ds, cols)
  <2> HIDE DEF named
  <2> QED BY DEF RemoveFeatures, named
<1>3. IsSeq(cols)
  <2>1. Len(keep) \in Nat /\ DOMAIN keep = 1..Len(keep)
    BY DEF IsSeq
  <2> HIDE DEF named
  <2>2. cols = [n \in 1..Len(keep) |-> cols[n]]
    BY <2>1
  <2> QED BY <2>1, <2>2, MadeSeq
<1> HIDE DEF kept, cols
<1>4. kept = ds \/ kept = WithCols(ds, cols)
  BY <1>1, <1>2 DEF kept, Faulty, IsWhole, IsDataSet
<1>5. IsWhole(kept) /\ SameRows(kept, ds)
  BY <1>3, <1>4 DEF IsWhole, IsDataSet, SameRows, WithCols
<1> QED BY <1>5 DEF kept

LEMMA RemoveRows ==
    ASSUME NEW ds, IsWhole(ds), NEW keep, IsSeq(keep),
           \A n \in DOMAIN keep : keep[n] \in DOMAIN ds.cols
    PROVE  IsWhole(RemoveFeatures(ds, keep)) /\ SameRows(RemoveFeatures(ds, keep), ds)
<1>1. RemoveFeatures(ds, keep).fault = "none"
  BY DEF IsWhole, IsDataSet, RemoveFeatures, WithCols
<1> QED BY <1>1, RemoveRowsAnyhow

LEMMA StandardizeRows ==
    ASSUME NEW ds, IsWhole(ds), NEW factors
    PROVE  /\ IsWhole(Standardize(ds, factors)) /\ SameRows(Standardize(ds, factors), ds)
           /\ IsWhole(StandardizeOutput(ds)) /\ SameRows(StandardizeOutput(ds), ds)
           /\ SameRows(ds, ds)
<1> DEFINE cols == [c \in DOMAIN ds.cols |-> Scaled(ds.cols[c], ScaleOf(ds.cols[c], factors))]
           done == [ds EXCEPT !.stdDone = TRUE, !.cols = cols]
<1>1. Len(ds.cols) \in Nat /\ DOMAIN ds.cols = 1..Len(ds.cols)
  BY DEF IsWhole, IsSeq
<1>2. cols = [c \in 1..Len(ds.cols) |-> cols[c]]
  BY <1>1
<1>3. Standardize(ds, factors) = ds \/ Standardize(ds, factors) = done
  BY DEF Standardize, IsWhole, IsDataSet
<1> HIDE DEF cols
<1>4. IsSeq(cols)
  BY <1>1, <1>2, MadeSeq
<1>5. SameRows(ds, ds) /\ IsWhole(done) /\ SameRows(done, ds)
  BY <1>4 DEF IsWhole, IsDataSet, SameRows
<1> HIDE DEF done
<1>6. IsWhole(StandardizeOutput(ds)) /\ SameRows(StandardizeOutput(ds), ds)
  BY DEF IsWhole, IsDataSet, SameRows, StandardizeOutput
<1> QED BY <1>3, <1>5, <1>6

LEMMA TimeoutRows ==
    ASSUME NEW ds, IsWhole(ds), NEW timeouts
    PROVE  IsWhole(RemoveTimeouts(ds, timeouts))
<1> DEFINE kept == Chosen(ds.rows, ToSet(ds.rows) \ timeouts)
<1>1. kept \in Seq(Int) /\ ToSet(kept) \subseteq Instances
  BY ChosenIs DEF IsWhole, IsDataSet
<1>2. RemoveTimeouts(ds, timeouts) = ds \/ RemoveTimeouts(ds, timeouts) = [ds EXCEPT !.rows = kept]
  BY DEF RemoveTimeouts
<1> HIDE DEF kept
<1> QED BY <1>1, <1>2 DEF IsWhole, IsDataSet

LEMMA InitRInv == Init => RInv
<1> SUFFICES ASSUME Init PROVE RInv
  OBVIOUS
<1>1. /\ input \in Inputs /\ timedOut = input.timeouts /\ pc = "create" /\ solver = 1
      /\ train = [s \in Solvers |-> NoDataSet] /\ test = [s \in Solvers |-> NoDataSet]
  BY DEF Init
<1>2. 1 \in Solvers /\ \A s \in Solvers : ~(s < 1)
  BY NumSolversAssumption DEF Solvers
<1>3. Places
  BY <1>1, <1>2, InputTypes DEF Places, Stages
<1>4. \A s \in Solvers : ~Made(s) /\ test[s] = NoDataSet
  BY <1>1 DEF Made
<1> QED BY <1>1, <1>2, <1>3, <1>4 DEF RInv, Wholes, MadeInTurn, Splits, Stages

LEMMA StopRows ==
    ASSUME RInv, NEW outcomes, outcomes \subseteq Terminal, Stop(outcomes)
    PROVE  RInv'
<1>1. /\ input' = input /\ timedOut' = timedOut /\ train' = train /\ test' = test
      /\ solver' = solver /\ pc' \in Terminal
  BY DEF Stop, data
<1>2. pc' \notin Stages
  BY <1>1 DEF Stages, Later, Terminal
<1> QED BY <1>1, <1>2
        DEF RInv, Places, Wholes, MadeInTurn, Splits, SplitOf, Made, HasTest, Stages

(* A stage replaces the data sets of one solver by others with the same    *)
(* rows; without a test set the rows may change.                           *)
LEMMA WorkRows ==
    ASSUME RInv, pc \in Stages \ {"create"}, pc' \in (Stages \ {"create"}) \cup {"done"},
           solver' \in Solvers, input' = input, timedOut' = timedOut,
           DOMAIN train' = Solvers, DOMAIN test' = Solvers,
           \A s \in Solvers : s # solver => train'[s] = train[s] /\ test'[s] = test[s],
           IsWhole(train'[solver]),
           HasTest => /\ IsWhole(test'[solver])
                      /\ SameRows(train'[solver], train[solver])
                      /\ SameRows(test'[solver], test[solver]),
           ~HasTest => test'[solver] = test[solver]
    PROVE  RInv'
<1>1. solver \in Solvers /\ \A s \in Solvers : Made(s)
  BY DEF RInv, Places, MadeInTurn
<1>2. HasTest' = HasTest
  BY DEF HasTest
<1>3. \A s \in Solvers : Made(s)' /\ IsWhole(train'[s])
  BY <1>1, WholeMade DEF RInv, Wholes, Made
<1>4. Places'
  BY DEF RInv, Places, Terminal
<1>5. Wholes'
  <2> SUFFICES ASSUME NEW s \in Solvers
               PROVE  /\ test'[s] # NoDataSet => IsWhole(test'[s])
                      /\ test'[s] # NoDataSet <=> HasTest
    BY <1>2, <1>3 DEF Wholes
  <2>1. CASE s = solver
    BY <1>1, <2>1, WholeMade DEF RInv, Wholes
  <2>2. CASE s # solver
    BY <1>1, <2>2 DEF RInv, Wholes
  <2> QED BY <2>1, <2>2
<1>6. MadeInTurn'
  BY <1>3 DEF MadeInTurn
<1>7. Splits'
  <2> SUFFICES ASSUME HasTest, NEW s \in Solvers PROVE SplitOf(s)'
    BY <1>2 DEF Splits
  <2>1. SplitOf(s)
    BY <1>1 DEF RInv, Splits
  <2>2. /\ train'[s].rows = train[s].rows /\ train'[s].out = train[s].out
        /\ test'[s].rows = test[s].rows /\ test'[s].out = test[s].out
    <3>1. CASE s = solver
      BY <3>1 DEF SameRows
    <3>2. CASE s # solver
      BY <3>2
    <3> QED BY <3>1, <3>2
  <2> QED BY <2>1, <2>2 DEF SplitOf
<1> QED BY <1>4, <1>5, <1>6, <1>7 DEF RInv

LEMMA QuietRows ==
    ASSUME RInv, pc \in Stages \ {"create"}, pc' \in (Stages \ {"create"}) \cup {"done"},
           solver' \in Solvers, input' = input, timedOut' = timedOut,
           train' = train, test' = test
    PROVE  RInv'
<1>1. /\ solver \in Solvers /\ DOMAIN train = Solvers /\ DOMAIN test = Solvers
      /\ IsWhole(train[solver]) /\ (HasTest => IsWhole(test[solver]))
  BY DEF RInv, Places, MadeInTurn, Wholes
<1>2. /\ SameRows(train[solver], train[solver])
      /\ HasTest => SameRows(test[solver], test[solver])
  BY <1>1, StandardizeRows
<1> QED BY <1>1, <1>2, WorkRows

LEMMA CreateRows ==
    ASSUME RInv, Create
    PROVE  RInv'
<1>1. /\ pc = "create" /\ solver \in Solvers /\ input' = input /\ NextSolver("create", "harmful")
      /\ timedOut \in [Solvers -> SUBSET Instances]
      /\ DOMAIN train = Solvers /\ DOMAIN test = Solvers
  BY DEF Create, RInv, Places
<1>2. PICK out \in StillTimedOut :
         /\ timedOut' = [timedOut EXCEPT ![solver] = out]
         /\ IF HasTest
            THEN /\ train' = [train EXCEPT ![solver] = NewDataSet(
                        TrainingRows(InOrder, out, input.percentTest), Features)]
                 /\ test' = [test EXCEPT ![solver] = NewDataSet(
                        TestRows(InOrder, out, input.percentTest), Features)]
            ELSE /\ train' = [train EXCEPT ![solver] = NewDataSet(InOrder, Features)]
                 /\ UNCHANGED test
  BY DEF Create
<1> DEFINE rows == TrainingRows(InOrder, out, input.percentTest)
           others == TestRows(InOrder, out, input.percentTest)
<1>3. out \subseteq Instances
  BY <1>1, <1>2 DEF StillTimedOut
<1>4. /\ rows \in Seq(Int) /\ others \in Seq(Int)
      /\ ToSet(rows) \subseteq Instances /\ ToSet(others) \subseteq Instances
  BY RowsOf
<1>5. HasTest' = HasTest
  BY <1>1 DEF HasTest
<1>6. /\ solver' \in Solvers
      /\ \/ pc' = "create" /\ solver' = solver + 1
         \/ pc' = "harmful" /\ solver' = 1 /\ solver = NumSolvers
  BY <1>1, Turn
<1>7. \A s \in Solvers : s # solver =>
         timedOut'[s] = timedOut[s] /\ train'[s] = train[s] /\ test'[s] = test[s]
  BY <1>1, <1>2
<1>8. Places'
  <2>1. timedOut' \in [Solvers -> SUBSET Instances]
    BY <1>1, <1>2, <1>3
  <2>2. DOMAIN train' = Solvers /\ DOMAIN test' = Solvers
    BY <1>1, <1>2
  <2> QED BY <1>1, <1>6, <2>1, <2>2 DEF RInv, Places, Stages
<1>9. ASSUME HasTest PROVE train'[solver] # NoDataSet /\ Wholes' /\ Splits'
  <2>1. timedOut'[solver] = out
    BY <1>1, <1>2
  <2>2. train'[solver] = NewDataSet(rows, Features) /\ test'[solver] = NewDataSet(others, Features)
    BY <1>1, <1>2, <1>9
  <2> HIDE DEF rows, others
  <2>3. /\ IsWhole(train'[solver]) /\ train'[solver] # NoDataSet
        /\ train'[solver].rows = rows /\ train'[solver].out = rows
        /\ IsWhole(test'[solver]) /\ test'[solver] # NoDataSet
        /\ test'[solver].rows = others /\ test'[solver].out = others
    BY <1>4, <2>2, NewWhole
  <2>4. ASSUME NEW s \in Solvers, s = solver PROVE SplitOf(s)'
    BY <1>1, <2>1, <2>3, <2>4 DEF SplitOf, rows, others
  <2>5. Wholes'
    <3> SUFFICES ASSUME NEW s \in Solvers
                 PROVE  /\ train'[s] # NoDataSet => IsWhole(train'[s])
                        /\ test'[s] # NoDataSet => IsWhole(test'[s])
                        /\ test'[s] # NoDataSet <=> train'[s] # NoDataSet
      BY <1>5, <1>9 DEF Wholes, Made
    <3>1. CASE s = solver
      BY <2>3, <3>1
    <3>2. CASE s # solver
      BY <1>7, <1>9, <3>2 DEF RInv, Wholes, Made
    <3> QED BY <3>1, <3>2
  <2>6. Splits'
    <3> SUFFICES ASSUME NEW s \in Solvers, Made(s)' PROVE SplitOf(s)'
      BY DEF Splits
    <3>1. CASE s = solver
      BY <2>4, <3>1
    <3>2. CASE s # solver
      <4>1. SplitOf(s)
        BY <1>7, <1>9, <3>2 DEF RInv, Splits, Made
      <4> QED BY <1>1, <1>7, <3>2, <4>1 DEF SplitOf
    <3> QED BY <3>1, <3>2
  <2> QED BY <2>3, <2>5, <2>6
<1>10. ASSUME ~HasTest PROVE train'[solver] # NoDataSet /\ Wholes' /\ Splits'
  <2>1. train'[solver] = NewDataSet(InOrder, Features) /\ test' = test
    BY <1>1, <1>2, <1>10
  <2>2. IsWhole(train'[solver]) /\ train'[solver] # NoDataSet
    BY <2>1, InstanceFacts, NewWhole
  <2>3. Wholes'
    <3> SUFFICES ASSUME NEW s \in Solvers
                 PROVE  /\ train'[s] # NoDataSet => IsWhole(train'[s])
                        /\ test'[s] = NoDataSet
      BY <1>5, <1>10 DEF Wholes, Made
    <3>1. CASE s = solver
      BY <1>10, <2>1, <2>2, <3>1 DEF RInv, Wholes
    <3>2. CASE s # solver
      BY <1>7, <1>10, <3>2 DEF RInv, Wholes, Made
    <3> QED BY <3>1, <3>2
  <2>4. Splits'
    BY <1>5, <1>10 DEF Splits
  <2> QED BY <2>2, <2>3, <2>4
<1>11. train'[solver] # NoDataSet /\ Wholes' /\ Splits'
  BY <1>9, <1>10
<1>12. MadeInTurn'
  <2>1. \A s \in Solvers : train'[s] # NoDataSet <=> s < solver \/ s = solver
    <3> SUFFICES ASSUME NEW s \in Solvers
                 PROVE  train'[s] # NoDataSet <=> s < solver \/ s = solver
      OBVIOUS
    <3>1. CASE s = solver
      BY <1>11, <3>1
    <3>2. CASE s # solver
      BY <1>1, <1>7, <3>2 DEF RInv, MadeInTurn, Made
    <3> QED BY <3>1, <3>2
  <2>2. CASE pc' = "create" /\ solver' = solver + 1
    <3>1. \A s \in Solvers : s < solver \/ s = solver <=> s < solver'
      BY <1>1, <2>2 DEF Solvers
    <3> QED BY <2>1, <2>2, <3>1 DEF MadeInTurn, Made
  <2>3. CASE pc' = "harmful" /\ solver' = 1 /\ solver = NumSolvers
    <3>1. \A s \in Solvers : s < solver \/ s = solver
      BY <2>3, NumSolversAssumption DEF Solvers
    <3> QED BY <2>1, <2>3, <3>1 DEF MadeInTurn, Made
  <2> QED BY <1>6, <2>2, <2>3
<1> QED BY <1>8, <1>11, <1>12 DEF RInv

(* Where a stage finds the data sets of its solver. *)
LEMMA StageFacts ==
    ASSUME RInv, pc \in Stages \ {"create"}
    PROVE  /\ solver \in Solvers /\ DOMAIN train = Solvers /\ DOMAIN test = Solvers
           /\ IsWhole(train[solver]) /\ (HasTest => IsWhole(test[solver]))
           /\ ~HasTest => test[solver] = NoDataSet
  BY DEF RInv, Places, MadeInTurn, Wholes

LEMMA HarmlessRows ==
    ASSUME NEW ds, IsWhole(ds), NEW value
    PROVE  /\ IsWhole(RemoveHarmfulFeatures(ds, value))
           /\ SameRows(RemoveHarmfulFeatures(ds, value), ds)
<1> DEFINE all == [c \in DOMAIN ds.cols |-> c]
           good == {c \in DOMAIN ds.cols : ~IsConstant(ds, c, value)}
           keep == Chosen(all, good)
<1>1. all \in Seq(Nat) /\ ToSet(all) = DOMAIN ds.cols
  BY DEF IsWhole, IsSeq, ToSet
<1>2. RemoveHarmfulFeatures(ds, value) = RemoveFeatures(ds, keep)
  BY DEF RemoveHarmfulFeatures
<1> HIDE DEF all, good
<1>3. keep \in Seq(Nat) /\ ToSet(keep) = ToSet(all) \cap good
  BY <1>1, ChosenIs
<1> HIDE DEF keep
<1>4. IsSeq(keep) /\ \A n \in DOMAIN keep : keep[n] \in DOMAIN ds.cols
  <2>1. \A n \in DOMAIN keep : keep[n] \in ToSet(keep)
    BY DEF ToSet
  <2>2. keep = [n \in 1..Len(keep) |-> keep[n]] /\ Len(keep) \in Nat
    BY <1>3
  <2> QED BY <1>1, <1>3, <2>1, <2>2, MadeSeq
<1> QED BY <1>2, <1>4, RemoveRows

LEMMA HarmfulRows ==
    ASSUME RInv, RemoveHarmful
    PROVE  RInv'
<1>1. /\ pc = "harmful" /\ input' = input /\ timedOut' = timedOut /\ NextSolver("harmful", "names")
  BY DEF RemoveHarmful, data
<1>2. pc \in Stages \ {"create"}
  BY <1>1 DEF Stages
<1>3. /\ solver' \in Solvers /\ pc' \in Stages \ {"create"}
  BY <1>1, <1>2, StageFacts, Turn DEF Stages, Later
<1>4. DOMAIN train' = Solvers /\ DOMAIN test' = Solvers
  BY <1>2, StageFacts DEF RemoveHarmful
<1>5. \A s \in Solvers : s # solver => train'[s] = train[s] /\ test'[s] = test[s]
  BY <1>2, StageFacts DEF RemoveHarmful
<1>6. /\ train'[solver] = RemoveHarmfulFeatures(train[solver], input.value)
      /\ HasTest => test'[solver] = RemoveHarmfulFeatures(test[solver], input.value)
      /\ ~HasTest => test'[solver] = test[solver]
  BY <1>2, StageFacts DEF RemoveHarmful
<1>7. /\ IsWhole(train'[solver]) /\ SameRows(train'[solver], train[solver])
      /\ HasTest => IsWhole(test'[solver]) /\ SameRows(test'[solver], test[solver])
  BY <1>2, <1>6, StageFacts, HarmlessRows
<1> QED BY <1>1, <1>2, <1>3, <1>4, <1>5, <1>6, <1>7, WorkRows

LEMMA OutputsRows ==
    ASSUME RInv, PrepareOutputs
    PROVE  RInv'
<1>1. /\ pc = "outputs" /\ input' = input /\ timedOut' = timedOut /\ solver' = solver
      /\ pc' = "features" /\ (input.outputStd => HasTest)
  BY DEF PrepareOutputs, data, Goto
<1>2. pc \in Stages \ {"create"} /\ pc' \in Stages \ {"create"}
  BY <1>1 DEF Stages, Later
<1>3. DOMAIN train' = Solvers /\ DOMAIN test' = Solvers
  BY <1>2, StageFacts DEF PrepareOutputs
<1>4. \A s \in Solvers : s # solver => train'[s] = train[s] /\ test'[s] = test[s]
  BY <1>2, StageFacts DEF PrepareOutputs
<1>5. /\ train'[solver] = IF input.outputStd THEN StandardizeOutput(Unlimited(train[solver]))
                                             ELSE Unlimited(train[solver])
      /\ test'[solver] = IF input.outputStd THEN StandardizeOutput(test[solver])
                                            ELSE test[solver]
  BY <1>2, StageFacts DEF PrepareOutputs
<1>6. /\ IsWhole(Unlimited(train[solver]))
      /\ HasTest => Unlimited(train[solver]) = train[solver]
  BY <1>2, StageFacts, TimeoutRows DEF Unlimited
<1>7. /\ IsWhole(train'[solver])
      /\ HasTest => SameRows(train'[solver], train[solver])
      /\ HasTest => IsWhole(test'[solver]) /\ SameRows(test'[solver], test[solver])
      /\ ~HasTest => test'[solver] = test[solver]
  BY <1>1, <1>2, <1>5, <1>6, StageFacts, StandardizeRows
<1>8. solver' \in Solvers
  BY <1>1, <1>2, StageFacts
<1> QED BY <1>1, <1>2, <1>3, <1>4, <1>7, <1>8, WorkRows

LEMMA StandardRows ==
    ASSUME RInv, StandardizeFeatures
    PROVE  RInv'
<1>1. /\ pc = "features" /\ input' = input /\ timedOut' = timedOut
      /\ NextSolver("outputs", "flags") /\ (input.featureStd => HasTest)
  BY DEF StandardizeFeatures, data
<1>2. pc \in Stages \ {"create"}
  BY <1>1 DEF Stages, Later
<1>3. solver' \in Solvers /\ pc' \in Stages \ {"create"}
  BY <1>1, <1>2, StageFacts, Turn DEF Stages, Later
<1>4. CASE ~input.featureStd
  BY <1>1, <1>2, <1>3, <1>4, QuietRows DEF StandardizeFeatures
<1>5. CASE input.featureStd
  <2>1. PICK factors : /\ train' = [train EXCEPT ![solver] = Standardize(@, factors)]
                       /\ test'  = [test  EXCEPT ![solver] = Standardize(@, factors)]
    BY <1>5 DEF StandardizeFeatures
  <2>2. DOMAIN train' = Solvers /\ DOMAIN test' = Solvers
    BY <1>2, <2>1, StageFacts
  <2>3. \A s \in Solvers : s # solver => train'[s] = train[s] /\ test'[s] = test[s]
    BY <1>2, <2>1, StageFacts
  <2>4. /\ train'[solver] = Standardize(train[solver], factors)
        /\ test'[solver] = Standardize(test[solver], factors)
    BY <1>2, <2>1, StageFacts
  <2>5. /\ IsWhole(train'[solver]) /\ SameRows(train'[solver], train[solver])
        /\ IsWhole(test'[solver]) /\ SameRows(test'[solver], test[solver])
    BY <1>1, <1>2, <1>5, <2>4, StageFacts, StandardizeRows
  <2> QED BY <1>1, <1>2, <1>3, <1>5, <2>2, <2>3, <2>5, WorkRows
<1> QED BY <1>4, <1>5

(* What may be selected are columns of the data set. *)
LEMMA SelectionsAreColumns ==
    ASSUME input \in Inputs, NEW ds, IsWhole(ds), NEW res \in Selections(ds)
    PROVE  IsSeq(res) /\ \A n \in DOMAIN res : res[n] \in DOMAIN ds.cols
<1> DEFINE m == Len(ds.cols)
           k == input.fsInsts
<1>1. m \in Nat /\ DOMAIN ds.cols = 1..m /\ NumCols(ds) = m /\ k \in Nat
  BY InputTypes DEF IsWhole, IsSeq, NumCols
<1>2. m # 0
  BY DEF Selections, Unusable, NumCols
<1> HIDE DEF m, k
<1>3. \/ res \in Alone(ds) \/ res = AllOf(ds)
      \/ res = [c \in 1..m |-> 1] \o AllOf(ds)
      \/ res \in Sets(ds, k)
  BY <1>1 DEF Selections, k
<1>4. CASE res \in Alone(ds)
  <2>1. PICK c \in DOMAIN ds.cols : res = <<c>>
    BY <1>4 DEF Alone
  <2>2. res \in [1..1 -> DOMAIN ds.cols] /\ 1 \in Nat
    BY <2>1
  <2> QED BY <2>2, MadeSeq
<1>5. AllOf(ds) \in [1..m -> 1..m] /\ AllOf(ds) \in Seq(1..m) /\ Len(AllOf(ds)) = m
  BY <1>1 DEF AllOf
<1>6. CASE res = AllOf(ds)
  BY <1>1, <1>5, <1>6, MadeSeq
<1>7. CASE res = [c \in 1..m |-> 1] \o AllOf(ds)
  <2>1. [c \in 1..m |-> 1] \in Seq(1..m)
    BY <1>1, <1>2
  <2>2. res \in Seq(1..m)
    BY <1>5, <1>7, <2>1
  <2> DEFINE A == 1..m
  <2>3. res \in Seq(A)
    BY <2>2
  <2> HIDE DEF A
  <2>4. Len(res) \in Nat /\ DOMAIN res = 1..Len(res) /\ res = [i \in 1..Len(res) |-> res[i]]
        /\ \A i \in DOMAIN res : res[i] \in A
    BY <2>3
  <2> QED BY <1>1, <2>4, MadeSeq DEF A
<1>8. CASE res \in Sets(ds, k)
  <2>1. res \in [1..k -> DOMAIN ds.cols]
    BY <1>8 DEF Sets
  <2> QED BY <1>1, <2>1, MadeSeq
<1> QED BY <1>3, <1>4, <1>6, <1>7, <1>8

LEMMA SelectRows ==
    ASSUME RInv, NEW here, NEW after, here \in Stages \ {"create"}, after \in Stages \ {"create"},
           Select(here, after)
    PROVE  RInv'
<1>1. pc = here /\ pc \in Stages \ {"create"}
  BY DEF Select
<1>2. CASE input.fsopt = "NONE"
  <2>1. /\ pc' = after /\ solver' = solver /\ input' = input /\ timedOut' = timedOut
        /\ train' = train /\ test' = test
    BY <1>2 DEF Select, Goto, data
  <2> QED BY <1>1, <2>1, QuietRows, StageFacts
<1>3. CASE input.fsopt # "NONE"
  <2>0. \/ \E outcomes : outcomes \subseteq Terminal /\ Stop(outcomes)
        \/ \E res \in Selections(train[solver]) :
               /\ HasTest
               /\ RemoveFeatures(test[solver], res).fault = "none"
               /\ train' = [train EXCEPT ![solver] = RemoveFeatures(@, res)]
               /\ test'  = [test  EXCEPT ![solver] = RemoveFeatures(test[solver], res)]
               /\ Goto(after) /\ UNCHANGED <<data, file>>
    <3>1. {"crashed"} \subseteq Terminal /\ SelectionStops(train[solver]) \subseteq Terminal
      BY DEF Terminal, SelectionStops
    <3>2. ASSUME NEW ds, ds.fault # "none", ds.fault \in Faults
          PROVE  Outcomes(ds.fault) \subseteq Terminal
      BY <3>2 DEF Outcomes, Terminal, Faults
    <3>3. HasTest => \A res : RemoveFeatures(test[solver], res).fault \in Faults
      BY <1>1, StageFacts, RemoveKeepsRecord DEF IsWhole, IsDataSet, IsRecord, Faults
    <3> QED BY <1>3, <3>1, <3>2, <3>3 DEF Select
  <2>1. CASE \E outcomes : outcomes \subseteq Terminal /\ Stop(outcomes)
    BY <2>1, StopRows
  <2>2. ASSUME NEW res \in Selections(train[solver]),
               /\ HasTest
               /\ RemoveFeatures(test[solver], res).fault = "none"
               /\ train' = [train EXCEPT ![solver] = RemoveFeatures(@, res)]
               /\ test'  = [test  EXCEPT ![solver] = RemoveFeatures(test[solver], res)]
               /\ Goto(after) /\ UNCHANGED <<data, file>>
        PROVE  RInv'
    <3>1. /\ pc' = after /\ solver' = solver /\ input' = input /\ timedOut' = timedOut
      BY <2>2 DEF Goto, data
    <3>2. /\ solver \in Solvers /\ IsWhole(train[solver]) /\ IsWhole(test[solver])
          /\ input \in Inputs
      BY <1>1, <2>2, StageFacts DEF RInv, Places
    <3>3. IsSeq(res) /\ \A n \in DOMAIN res : res[n] \in DOMAIN train[solver].cols
      BY <3>2, SelectionsAreColumns
    <3>4. DOMAIN train' = Solvers /\ DOMAIN test' = Solvers
      BY <1>1, <2>2, StageFacts
    <3>5. /\ \A s \in Solvers : s # solver => train'[s] = train[s] /\ test'[s] = test[s]
          /\ train'[solver] = RemoveFeatures(train[solver], res)
          /\ test'[solver] = RemoveFeatures(test[solver], res)
      BY <1>1, <2>2, StageFacts
    <3>6. IsWhole(train'[solver]) /\ SameRows(train'[solver], train[solver])
      BY <3>2, <3>3, <3>5, RemoveRows
    <3>7. IsWhole(test'[solver]) /\ SameRows(test'[solver], test[solver])
      BY <2>2, <3>2, <3>3, <3>5, RemoveRowsAnyhow
    <3> QED BY <1>1, <2>2, <3>1, <3>2, <3>4, <3>5, <3>6, <3>7, WorkRows
  <2> QED BY <2>0, <2>1, <2>2
<1> QED BY <1>2, <1>3

LEMMA ExpandStays ==
    ASSUME NEW ds, IsWhole(ds), input \in Inputs
    PROVE  /\ SameRows(Expanded(ds), ds)
           /\ Expanded(ds).fault = "none" => IsWhole(Expanded(ds))
<1>1. input.fePartOrder \in Nat /\ input.fePartitions \in Seq(Seq(Nat))
  BY InputTypes, InputsAssumption
<1>2. SameRows(Expanded(ds), ds)
  BY <1>1, ExpandRows DEF Expanded, IsWhole, IsDataSet
<1> QED BY <1>2, SameRowsWhole

LEMMA ExpandBothRows ==
    ASSUME RInv, ExpandBoth
    PROVE  RInv'
<1>1. pc = "expand" /\ pc \in Stages \ {"create"}
  BY DEF ExpandBoth, Stages, Later
<1>2. \/ \E outcomes : outcomes \subseteq Terminal /\ Stop(outcomes)
      \/ /\ HasTest
         /\ Expanded(train[solver]).fault = "none" /\ Expanded(test[solver]).fault = "none"
         /\ train' = [train EXCEPT ![solver] = Expanded(train[solver])]
         /\ test'  = [test  EXCEPT ![solver] = Expanded(test[solver])]
         /\ Goto("reselect") /\ UNCHANGED <<data, file>>
  <2>1. {"crashed"} \subseteq Terminal /\ \A fault : Outcomes(fault) \subseteq Terminal
    BY DEF Terminal, Outcomes
  <2> QED BY <2>1 DEF ExpandBoth
<1>3. CASE \E outcomes : outcomes \subseteq Terminal /\ Stop(outcomes)
  BY <1>3, StopRows
<1>4. ASSUME /\ HasTest
             /\ Expanded(train[solver]).fault = "none" /\ Expanded(test[solver]).fault = "none"
             /\ train' = [train EXCEPT ![solver] = Expanded(train[solver])]
             /\ test'  = [test  EXCEPT ![solver] = Expanded(test[solver])]
             /\ Goto("reselect") /\ UNCHANGED <<data, file>>
      PROVE  RInv'
  <2>1. /\ pc' = "reselect" /\ solver' = solver /\ input' = input /\ timedOut' = timedOut
        /\ pc' \in Stages \ {"create"}
    BY <1>4 DEF Goto, data, Stages, Later
  <2>2. /\ solver \in Solvers /\ IsWhole(train[solver]) /\ IsWhole(test[solver])
        /\ input \in Inputs
    BY <1>1, <1>4, StageFacts DEF RInv, Places
  <2>3. DOMAIN train' = Solvers /\ DOMAIN test' = Solvers
    BY <1>1, <1>4, StageFacts
  <2>4. /\ \A s \in Solvers : s # solver => train'[s] = train[s] /\ test'[s] = test[s]
        /\ train'[solver] = Expanded(train[solver])
        /\ test'[solver] = Expanded(test[solver])
    BY <1>1, <1>4, StageFacts
  <2>5. IsWhole(train'[solver]) /\ SameRows(train'[solver], train[solver])
    BY <1>4, <2>2, <2>4, ExpandStays
  <2>6. IsWhole(test'[solver]) /\ SameRows(test'[solver], test[solver])
    BY <1>4, <2>2, <2>4, ExpandStays
  <2> QED BY <1>1, <1>4, <2>1, <2>2, <2>3, <2>4, <2>5, <2>6, WorkRows
<1> QED BY <1>2, <1>3, <1>4

(* The stages that touch no data set. *)
LEMMA OtherRows ==
    ASSUME RInv, WriteSolverNames \/ WriteFlags \/ DoNotExpand \/ Learn \/ Test
    PROVE  RInv'
<1>1. pc \in Stages \ {"create"} /\ input' = input /\ timedOut' = timedOut
      /\ train' = train /\ test' = test
  BY DEF WriteSolverNames, WriteFlags, DoNotExpand, Learn, Test, data, Stages, Later
<1>2. \/ solver' = solver /\ pc' \in Stages \ {"create"}
      \/ NextSolver("select", "done")
  BY DEF WriteSolverNames, WriteFlags, DoNotExpand, Learn, Test, Goto, Stages, Later
<1>3. solver' \in Solvers /\ pc' \in (Stages \ {"create"}) \cup {"done"}
  BY <1>1, <1>2, StageFacts, Turn DEF Stages, Later
<1> QED BY <1>1, <1>3, QuietRows

LEMMA StopsRows ==
    ASSUME RInv, CreateTraps \/ PrepareOutputsNoTest \/ StandardizeFeaturesStops
                 \/ LearnStops \/ TestStops
    PROVE  RInv'
<1>1. \E outcomes : outcomes \subseteq Terminal /\ Stop(outcomes)
  BY DEF CreateTraps, PrepareOutputsNoTest, StandardizeFeaturesStops, LearnStops, TestStops,
         Terminal
<1> QED BY <1>1, StopRows

LEMMA NextRInv == RInv /\ [Next]_vars => RInv'
<1> SUFFICES ASSUME RInv, [Next]_vars PROVE RInv'
  OBVIOUS
<1>1. CASE UNCHANGED vars
  BY <1>1 DEF vars, RInv, Places, Wholes, MadeInTurn, Splits, SplitOf, Made, HasTest
<1>2. CASE FirstSelection \/ SecondSelection
  <2>1. {"select", "expand", "reselect", "learn"} \subseteq Stages \ {"create"}
    BY DEF Stages, Later
  <2> QED BY <1>2, <2>1, SelectRows DEF FirstSelection, SecondSelection
<1> QED BY <1>1, <1>2, CreateRows, HarmfulRows, OutputsRows, StandardRows, ExpandBothRows,
           OtherRows, StopsRows DEF Next, Ended

(* Rows split in two by a condition. *)
LEMMA SplitCounts ==
    ASSUME NEW a \in Seq(Int), NEW b \in Seq(Int), Increasing(a), Increasing(b),
           ToSet(a) \cap ToSet(b) = {}
    PROVE  /\ ToSet(a \o b) = ToSet(a) \cup ToSet(b)
           /\ Len(a \o b) = Cardinality(ToSet(a) \cup ToSet(b))
           /\ IsSorted(a, <) /\ IsSorted(b, <)
<1>1. /\ IsFiniteSet(ToSet(a)) /\ Cardinality(ToSet(a)) = Len(a)
      /\ IsFiniteSet(ToSet(b)) /\ Cardinality(ToSet(b)) = Len(b)
  BY IncreasingCounts
<1>2. Cardinality(ToSet(a) \cap ToSet(b)) = 0
  BY FS_EmptySet
<1>3. Cardinality(ToSet(a) \cup ToSet(b)) = Len(a) + Len(b)
  <2> DEFINE m == Len(a)
             n == Len(b)
             c == Cardinality(ToSet(a) \cup ToSet(b))
  <2>1. c = m + n - 0
    BY <1>1, <1>2, FS_Union
  <2>2. m \in Nat /\ n \in Nat
    OBVIOUS
  <2> HIDE DEF m, n, c
  <2>3. c = m + n
    BY <2>1, <2>2
  <2> QED BY <2>3 DEF m, n, c
<1>4. Len(a \o b) = Len(a) + Len(b)
  OBVIOUS
<1>5. ToSet(a \o b) = ToSet(a) \cup ToSet(b)
  <2> DEFINE c == a \o b
             m == Len(a)
             n == Len(b)
  <2>1. m \in Nat /\ n \in Nat /\ DOMAIN a = 1..m /\ DOMAIN b = 1..n /\ DOMAIN c = 1..(m + n)
    OBVIOUS
  <2>2. /\ \A i \in 1..m : i \in 1..(m + n) /\ c[i] = a[i]
        /\ \A i \in 1..n : i + m \in 1..(m + n) /\ c[i + m] = b[i]
    OBVIOUS
  <2>3. \A i \in 1..(m + n) : i \in 1..m \/ (i - m \in 1..n /\ (i - m) + m = i)
    BY <2>1
  <2> HIDE DEF c, m, n
  <2>4. ASSUME NEW x \in {c[i] : i \in DOMAIN c}
        PROVE  x \in {a[i] : i \in DOMAIN a} \cup {b[i] : i \in DOMAIN b}
    <3>1. PICK i \in 1..(m + n) : x = c[i]
      BY <2>1
    <3> QED BY <2>1, <2>2, <2>3, <3>1
  <2>5. ASSUME NEW x \in {a[i] : i \in DOMAIN a} \cup {b[i] : i \in DOMAIN b}
        PROVE  x \in {c[i] : i \in DOMAIN c}
    BY <2>1, <2>2
  <2> QED BY <2>4, <2>5 DEF ToSet, c
<1>6. IsSorted(a, <) /\ IsSorted(b, <)
  BY DEF IsSorted, Increasing
<1> QED BY <1>3, <1>4, <1>5, <1>6

LEMMA RowsAreSplit == RInv => SplitExact
<1> SUFFICES ASSUME RInv PROVE SplitExact
  OBVIOUS
<1>1. TypeOK
  <2>1. pc \in Terminal \cup {"create", "harmful", "names", "outputs", "features", "flags",
                             "select", "expand", "reselect", "learn", "test"}
    BY DEF RInv, Places, Stages, Later
  <2>2. input.percentTest \in Nat /\ input.timeouts \in [Solvers -> SUBSET Instances]
    BY InputTypes DEF RInv, Places
  <2>3. ASSUME NEW s \in Solvers
        PROVE  /\ train[s] # NoDataSet => IsDataSet(train[s])
               /\ test[s] # NoDataSet => IsDataSet(test[s]) /\ train[s] # NoDataSet
               /\ HasTest => (test[s] = NoDataSet <=> train[s] = NoDataSet)
    BY DEF RInv, Wholes, Made, IsWhole
  <2> QED BY <2>1, <2>2, <2>3 DEF TypeOK, RInv, Places
<1>2. ASSUME NEW s \in Solvers, Made(s), HasTest
      PROVE  LET usable == Instances \ timedOut[s]
                 held   == train[s].rows \o test[s].rows
             IN  /\ ToSet(held) = usable /\ Len(held) = Cardinality(usable)
                 /\ IsSorted(train[s].rows, <) /\ IsSorted(test[s].rows, <)
                 /\ \A i \in usable :
                       i \in ToSet(test[s].rows) <=> i % (100 \div input.percentTest) = 0
                 /\ train[s].out = train[s].rows /\ test[s].out = test[s].rows
  <2> DEFINE a == train[s].rows
             b == test[s].rows
             U == Instances \ timedOut[s]
             Tested(i) == IsTestRow(i, input.percentTest)
  <2>1. /\ a = TrainingRows(InOrder, timedOut[s], input.percentTest)
        /\ b = TestRows(InOrder, timedOut[s], input.percentTest)
        /\ train[s].out = a /\ test[s].out = b
    BY <1>2 DEF RInv, Splits, SplitOf
  <2> HIDE DEF a, b
  <2>2. /\ a \in Seq(Int) /\ b \in Seq(Int) /\ Increasing(a) /\ Increasing(b)
        /\ ToSet(a) = {i \in U : ~Tested(i)}
        /\ ToSet(b) = {i \in U : Tested(i)}
    BY <2>1, RowsOf
  <2>3. ToSet(a) \cup ToSet(b) = U /\ ToSet(a) \cap ToSet(b) = {}
    <3> HIDE DEF Tested, U
    <3> QED BY <2>2
  <2>4. /\ ToSet(a \o b) = U /\ Len(a \o b) = Cardinality(U)
        /\ IsSorted(a, <) /\ IsSorted(b, <)
    <3> HIDE DEF U
    <3> QED BY <2>2, <2>3, SplitCounts
  <2>5. \A i \in U : i \in ToSet(b) <=> i % (100 \div input.percentTest) = 0
    BY <2>2 DEF IsTestRow, TestValue
  <2> QED BY <2>1, <2>4, <2>5 DEF a, b
<1> QED BY <1>1, <1>2 DEF SplitExact

(* createDataSets: both sets of a solver together hold each of its usable  *)
(* instances once, in the order of the file, and every row stands beside   *)
(* the output of its own instance, at every later moment.                  *)
THEOREM SplitIsExact == Spec => []SplitExact
<1>1. Init => RInv
  BY InitRInv
<1>2. RInv /\ [Next]_vars => RInv'
  BY NextRInv
<1>3. RInv => SplitExact
  BY RowsAreSplit
<1> QED BY <1>1, <1>2, <1>3, PTL DEF Spec

-----------------------------------------------------------------------------
(* Sorting what is in order already changes nothing. *)
LEMMA SortedIs ==
    ASSUME NEW keep \in Seq(Int), Increasing(keep), NEW n \in 1..Len(keep)
    PROVE  Sorted(keep, n) = keep[n]
<1> DEFINE m == Len(keep)
           Below(c) == {i \in DOMAIN keep : keep[i] < c}
           Upto(c) == {i \in DOMAIN keep : keep[i] <= c}
           Right(c) == Cardinality(Below(c)) < n /\ Cardinality(Upto(c)) >= n
<1>1. m \in Nat /\ DOMAIN keep = 1..m /\ n \in Nat /\ n - 1 \in Nat /\ n \in DOMAIN keep
      /\ \A i \in 1..m : keep[i] \in Int
  OBVIOUS
<1>2. Below(keep[n]) = 1..(n - 1)
  <2>1. ASSUME NEW i \in 1..m PROVE keep[i] < keep[n] <=> i < n
    <3>1. CASE i < n
      BY <3>1 DEF Increasing
    <3>2. CASE i = n
      BY <1>1, <3>2
    <3>3. CASE i > n
      <4>1. keep[n] < keep[i]
        BY <1>1, <3>3 DEF Increasing
      <4> QED BY <1>1, <3>3, <4>1
    <3> QED BY <1>1, <3>1, <3>2, <3>3
  <2>2. \A i : i \in 1..(n - 1) <=> i \in 1..m /\ i < n
    BY <1>1
  <2> QED BY <1>1, <2>1, <2>2
<1>3. Upto(keep[n]) = 1..n
  <2>1. ASSUME NEW i \in 1..m PROVE keep[i] <= keep[n] <=> i <= n
    <3>1. CASE i < n
      <4>1. keep[i] < keep[n]
        BY <3>1 DEF Increasing
      <4> QED BY <1>1, <3>1, <4>1
    <3>2. CASE i = n
      BY <1>1, <3>2
    <3>3. CASE i > n
      <4>1. keep[n] < keep[i]
        BY <1>1, <3>3 DEF Increasing
      <4> QED BY <1>1, <3>3, <4>1
    <3> QED BY <1>1, <3>1, <3>2, <3>3
  <2>2. \A i : i \in 1..n <=> i \in 1..m /\ i <= n
    BY <1>1
  <2> QED BY <1>1, <2>1, <2>2
<1>4. Cardinality(1..(n - 1)) = n - 1 /\ Cardinality(1..n) = n
  BY <1>1, FS_Interval
<1>5. Right(keep[n]) /\ keep[n] \in ToSet(keep)
  <2>1. n - 1 < n /\ n >= n
    BY <1>1
  <2> QED BY <1>1, <1>2, <1>3, <1>4, <2>1 DEF ToSet
<1>6. ASSUME NEW c \in ToSet(keep), Right(c) PROVE c = keep[n]
  <2>1. PICK i \in 1..m : c = keep[i]
    BY <1>1 DEF ToSet
  <2>2. \A d : IsFiniteSet(Below(d)) /\ IsFiniteSet(Upto(d))
              /\ Cardinality(Below(d)) \in Nat /\ Cardinality(Upto(d)) \in Nat
    <3>1. IsFiniteSet(1..m)
      BY <1>1, FS_Interval
    <3>2. \A d : Below(d) \subseteq 1..m /\ Upto(d) \subseteq 1..m
      BY <1>1
    <3> HIDE DEF Below, Upto
    <3> QED BY <3>1, <3>2, FS_Subset, FS_CardinalityType
  <2>3. CASE i < n
    <3>1. Upto(c) \subseteq Below(keep[n])
      <4>1. c < keep[n]
        BY <2>1, <2>3 DEF Increasing
      <4> QED BY <1>1, <2>1, <4>1
    <3> DEFINE x == Cardinality(Upto(c))
    <3>2. x <= n - 1
      <4> HIDE DEF Below, Upto
      <4> QED BY <1>2, <1>4, <2>2, <3>1, FS_Subset
    <3>3. x \in Nat /\ x >= n
      BY <1>6, <2>2
    <3> HIDE DEF x
    <3> QED BY <1>1, <3>2, <3>3
  <2>4. CASE i > n
    <3>1. Upto(keep[n]) \subseteq Below(c)
      <4>1. keep[n] < c
        BY <2>1, <2>4 DEF Increasing
      <4> QED BY <1>1, <2>1, <4>1
    <3> DEFINE x == Cardinality(Below(c))
    <3>2. n <= x
      <4> HIDE DEF Below, Upto
      <4> QED BY <1>3, <1>4, <2>2, <3>1, FS_Subset
    <3>3. x \in Nat /\ x < n
      BY <1>6, <2>2
    <3> HIDE DEF x
    <3> QED BY <1>1, <3>2, <3>3
  <2> QED BY <1>1, <2>1, <2>3, <2>4
<1>7. Sorted(keep, n) = CHOOSE c \in ToSet(keep) : Right(c)
  BY DEF Sorted
<1> HIDE DEF Right
<1> QED BY <1>5, <1>6, <1>7

(* Kept in their order, the columns are those named and their pointers     *)
(* stay.                                                                   *)
Sturdy(ds) ==
    \A c \in DOMAIN ds.cols : "null" \in DOMAIN ds.cols[c] /\ ds.cols[c].null = FALSE

LEMMA KeepAll ==
    ASSUME NEW ds, NEW keep, Len(keep) = Len(ds.cols)
    PROVE  RemoveFeatures(ds, keep) = ds
BY DEF RemoveFeatures, NumCols

LEMMA KeepInOrder ==
    ASSUME NEW ds, IsWhole(ds), Sturdy(ds), NEW keep \in Seq(Int), Increasing(keep),
           \A n \in DOMAIN keep : keep[n] \in DOMAIN ds.cols
    PROVE  /\ Sturdy(RemoveFeatures(ds, keep))
           /\ Len(RemoveFeatures(ds, keep).cols) = Len(keep)
           /\ Len(keep) # Len(ds.cols) =>
                 \A n \in DOMAIN RemoveFeatures(ds, keep).cols :
                    /\ n \in DOMAIN keep
                    /\ RemoveFeatures(ds, keep).cols[n].label = ds.cols[keep[n]].label
<1> DEFINE kept == RemoveFeatures(ds, keep)
           m == Len(keep)
           named(n) == [ds.cols[Sorted(keep, n)] EXCEPT
                           !.null = @ \/ \E i \in 1..(n - 1) : Sorted(keep, i) = Sorted(keep, n)]
           cols == [n \in DOMAIN keep |-> named(n)]
<1>1. m \in Nat /\ DOMAIN keep = 1..m /\ DOMAIN ds.cols = 1..Len(ds.cols)
  BY DEF IsWhole, IsSeq
<1>2. CASE m = Len(ds.cols)
  <2>1. kept = ds
    BY <1>2, KeepAll
  <2> QED BY <1>2, <2>1
<1>3. CASE m # Len(ds.cols)
  <2>1. kept = WithCols(ds, cols)
    <3> HIDE DEF named
    <3> QED BY <1>3 DEF RemoveFeatures, NumCols, named
  <2>2. ASSUME NEW n \in 1..m
        PROVE  /\ "null" \in DOMAIN cols[n] /\ cols[n].null = FALSE
               /\ cols[n].label = ds.cols[keep[n]].label
    <3>1. Sorted(keep, n) = keep[n] /\ keep[n] \in DOMAIN ds.cols
      BY <1>1, SortedIs
    <3>2. ASSUME NEW i \in 1..(n - 1) PROVE Sorted(keep, i) # Sorted(keep, n)
      <4>1. i \in 1..m /\ i < n
        BY <1>1
      <4>2. keep[i] < keep[n] /\ keep[i] \in Int /\ keep[n] \in Int
        BY <1>1, <4>1 DEF Increasing
      <4> QED BY <3>1, <4>1, <4>2, SortedIs
    <3> DEFINE col == ds.cols[keep[n]]
    <3>3. "null" \in DOMAIN col /\ col.null = FALSE
      BY <3>1 DEF Sturdy
    <3>4. cols[n] = [col EXCEPT !.null = @ \/ FALSE]
      BY <1>1, <3>1, <3>2
    <3> HIDE DEF col, cols
    <3>5. (col.null \/ FALSE) = FALSE
      BY <3>3
    <3>6. cols[n] = [col EXCEPT !.null = FALSE]
      BY <3>4, <3>5
    <3>7. "null" \in DOMAIN cols[n] /\ cols[n].null = FALSE /\ cols[n].label = col.label
      BY <3>3, <3>6
    <3> QED BY <3>7 DEF col
  <2> HIDE DEF cols
  <2>3. kept.cols = cols
    BY <2>1 DEF WithCols, IsWhole, IsDataSet
  <2>4. DOMAIN cols = 1..m /\ Len(cols) = m
    BY <1>1 DEF cols
  <2> HIDE DEF kept
  <2>5. Sturdy(kept)
    BY <2>2, <2>3, <2>4 DEF Sturdy
  <2>6. \A n \in DOMAIN kept.cols :
           n \in DOMAIN keep /\ kept.cols[n].label = ds.cols[keep[n]].label
    BY <1>1, <2>2, <2>3, <2>4
  <2>7. Len(kept.cols) = Len(keep)
    BY <2>3, <2>4
  <2> QED BY <2>5, <2>6, <2>7 DEF kept
<1> QED BY <1>2, <1>3

Varied(ds, value) == ~ \E c \in DOMAIN ds.cols : IsConstant(ds, c, value)

LEMMA HarmlessAreVaried ==
    ASSUME NEW ds, IsWhole(ds), Sturdy(ds), NEW value
    PROVE  /\ Sturdy(RemoveHarmfulFeatures(ds, value))
           /\ Varied(RemoveHarmfulFeatures(ds, value), value)
<1> DEFINE all == [c \in DOMAIN ds.cols |-> c]
           good == {c \in DOMAIN ds.cols : ~IsConstant(ds, c, value)}
           keep == Chosen(all, good)
           kept == RemoveFeatures(ds, keep)
           m == Len(ds.cols)
<1>1. m \in Nat /\ DOMAIN ds.cols = 1..m
  BY DEF IsWhole, IsSeq
<1>2. all \in Seq(Int) /\ Increasing(all) /\ ToSet(all) = 1..m
  <2>1. all = [c \in 1..m |-> c]
    BY <1>1
  <2> HIDE DEF all, m
  <2>2. all \in Seq(Int) /\ Len(all) = m /\ DOMAIN all = 1..m /\ \A c \in 1..m : all[c] = c
    BY <1>1, <2>1
  <2>3. Increasing(all)
    BY <2>2 DEF Increasing
  <2> QED BY <2>2, <2>3 DEF ToSet
<1>3. RemoveHarmfulFeatures(ds, value) = kept
  BY DEF RemoveHarmfulFeatures
<1>4. good \subseteq 1..m
  BY <1>1
<1> HIDE DEF all, good, m
<1>5. keep \in Seq(Int) /\ Increasing(keep) /\ ToSet(keep) = good
  <2>1. keep \in Seq(Int) /\ Increasing(keep)
    BY <1>2, ChosenIs, ChosenSorted
  <2>2. ToSet(keep) = ToSet(all) \cap good
    BY <1>2, ChosenIs
  <2> QED BY <1>2, <1>4, <2>1, <2>2
<1> HIDE DEF keep
<1>6. Len(keep) \in Nat /\ DOMAIN keep = 1..Len(keep)
      /\ \A n \in DOMAIN keep : keep[n] \in good
  BY <1>5 DEF ToSet
<1>7. \A n \in DOMAIN keep : keep[n] \in DOMAIN ds.cols
  BY <1>1, <1>4, <1>6
<1>8. Sturdy(kept)
  BY <1>5, <1>7, KeepInOrder
<1>9. kept.rows = ds.rows
  BY <1>7 DEF RemoveFeatures, WithCols, IsWhole, IsDataSet
<1>10. CASE Len(keep) = m
  <2>1. kept = ds
    BY <1>10, KeepAll DEF m
  <2>2. good = 1..m
    <3>1. IsFiniteSet(1..m) /\ Cardinality(1..m) = m
      BY <1>1, FS_Interval
    <3>2. Cardinality(good) = m
      BY <1>5, <1>10, IncreasingCounts
    <3> QED BY <1>4, <3>1, <3>2, FS_Subset
  <2>3. Varied(ds, value)
    BY <1>1, <2>2 DEF Varied, good
  <2> QED BY <1>3, <1>8, <2>1, <2>3
<1>11. CASE Len(keep) # m
  <2>1. \A n \in DOMAIN kept.cols :
           n \in DOMAIN keep /\ kept.cols[n].label = ds.cols[keep[n]].label
    BY <1>5, <1>7, <1>11, KeepInOrder DEF m
  <2> HIDE DEF kept
  <2>2. ASSUME NEW n \in DOMAIN kept.cols PROVE ~IsConstant(kept, n, value)
    <3>1. ~IsConstant(ds, keep[n], value)
      BY <1>6, <2>1 DEF good
    <3> QED BY <1>9, <2>1, <3>1 DEF IsConstant
  <2>3. Varied(kept, value)
    BY <2>2 DEF Varied
  <2> QED BY <1>3, <1>8, <2>3
<1> QED BY <1>10, <1>11

LEMMA NewSturdy ==
    ASSUME NEW rows
    PROVE  Sturdy(NewDataSet(rows, Features))
BY DEF Sturdy, NewDataSet, RawColumn

LEMMA StandardizeSturdy ==
    ASSUME NEW ds, IsWhole(ds), Sturdy(ds), NEW value, Varied(ds, value), NEW factors
    PROVE  /\ Sturdy(Standardize(ds, factors)) /\ Varied(Standardize(ds, factors), value)
           /\ Len(Standardize(ds, factors).cols) = Len(ds.cols)
<1> DEFINE done == Standardize(ds, factors)
<1>1. CASE ds.stdDone
  BY <1>1 DEF Standardize
<1>2. CASE ~ds.stdDone
  <2>1. /\ done.rows = ds.rows
        /\ done.cols = [c \in DOMAIN ds.cols |-> Scaled(ds.cols[c], ScaleOf(ds.cols[c], factors))]
    BY <1>2 DEF Standardize, IsWhole, IsDataSet
  <2>2. /\ DOMAIN done.cols = DOMAIN ds.cols
        /\ Len(ds.cols) \in Nat /\ DOMAIN ds.cols = 1..Len(ds.cols)
    BY <2>1 DEF IsWhole, IsSeq
  <2>3. Len(done.cols) = Len(ds.cols)
    BY <2>1, <2>2
  <2>4. ASSUME NEW c \in DOMAIN ds.cols
        PROVE  /\ "null" \in DOMAIN done.cols[c] /\ done.cols[c].null = FALSE
               /\ done.cols[c].label = ds.cols[c].label
    <3> DEFINE col == ds.cols[c]
    <3>1. "null" \in DOMAIN col /\ col.null = FALSE
      BY DEF Sturdy
    <3>2. done.cols[c] = Scaled(col, ScaleOf(col, factors))
      BY <2>1
    <3> HIDE DEF col, done
    <3> QED BY <3>1, <3>2 DEF Scaled, col
  <2> HIDE DEF done
  <2>5. Sturdy(done)
    BY <2>2, <2>4 DEF Sturdy
  <2>6. Varied(done, value)
    <3> SUFFICES ASSUME NEW c \in DOMAIN ds.cols PROVE ~IsConstant(done, c, value)
      BY <2>2 DEF Varied
    <3>1. ~IsConstant(ds, c, value) /\ done.cols[c].label = ds.cols[c].label
      BY <2>4 DEF Varied
    <3> QED BY <2>1, <3>1 DEF IsConstant
  <2> QED BY <2>3, <2>5, <2>6 DEF done
<1> QED BY <1>1, <1>2

LEMMA OutputSturdy ==
    ASSUME NEW ds, IsWhole(ds), Sturdy(ds), NEW value, Varied(ds, value)
    PROVE  /\ Sturdy(StandardizeOutput(ds)) /\ Varied(StandardizeOutput(ds), value)
           /\ Len(StandardizeOutput(ds).cols) = Len(ds.cols)
BY DEF IsWhole, IsDataSet, Sturdy, Varied, IsConstant, StandardizeOutput

LEMMA CatEach ==
    ASSUME NEW s, NEW t, IsSeq(s), IsSeq(t), NEW c \in DOMAIN (s \o t)
    PROVE  \/ c \in DOMAIN s /\ (s \o t)[c] = s[c]
           \/ c - Len(s) \in DOMAIN t /\ (s \o t)[c] = t[c - Len(s)]
<1> DEFINE A == ToSet(s) \cup ToSet(t)
<1>1. s \in Seq(A) /\ t \in Seq(A)
  BY DEF IsSeq
<1> HIDE DEF A
<1> QED BY <1>1

LEMMA ExpandSturdy ==
    ASSUME NEW ds, IsWhole(ds), Sturdy(ds), NEW k \in Nat, k >= 2, k <= Len(ds.cols)
    PROVE  /\ Expand(ds, k, <<>>).fault = "none"
           /\ Sturdy(Expand(ds, k, <<>>))
           /\ Len(Expand(ds, k, <<>>).cols) >= Len(ds.cols)
<1> DEFINE part == [c \in DOMAIN ds.cols |-> c]
           combos == Combinations(Len(part), k)
           products == [c \in DOMAIN combos |-> Product(ds.cols, part, combos[c])]
           powers == [p \in DOMAIN part |-> Power(ds.cols[part[p]], k)]
           cols == ds.cols \o products \o powers
           m == Len(ds.cols)
<1>1. m \in Nat /\ DOMAIN ds.cols = 1..m /\ IsSeq(ds.cols) /\ ds.fault = "none"
  BY DEF IsWhole, IsDataSet, IsSeq
<1>2. part \in Seq(Nat) /\ Len(part) = m /\ DOMAIN part = 1..m
      /\ ToSet(part) = DOMAIN ds.cols
  <2>1. part = [c \in 1..m |-> c]
    BY <1>1
  <2> HIDE DEF part, m
  <2>2. part \in Seq(Nat) /\ Len(part) = m /\ DOMAIN part = 1..m /\ \A c \in 1..m : part[c] = c
    BY <1>1, <2>1
  <2> QED BY <1>1, <2>2 DEF ToSet
<1>3. NullCols(ds) = {}
  BY DEF NullCols, Sturdy
<1>4. Expand(ds, k, <<>>) = ExpandOnPartition(ds, k, part)
  BY DEF Expand
<1> HIDE DEF part, m
<1>5. ExpandOnPartition(ds, k, part) = WithCols(ds, cols)
  <2>1. ~(k < 2 \/ k > Len(part))
    BY <1>1, <1>2 DEF m
  <2> HIDE DEF cols
  <2> QED BY <1>1, <1>2, <1>3, <2>1 DEF ExpandOnPartition, cols
<1>6. IsSeq(products)
  <2>1. combos \in Seq(Seq(1..Len(part)))
    BY <1>1, <1>2, CombinationsType
  <2> HIDE DEF combos
  <2>2. Len(combos) \in Nat /\ DOMAIN combos = 1..Len(combos)
    BY <2>1
  <2>3. products = [c \in 1..Len(combos) |-> products[c]]
    BY <2>2
  <2> HIDE DEF products
  <2> QED BY <2>2, <2>3, MadeSeq
<1>7. IsSeq(powers)
  <2>1. powers = [c \in 1..m |-> powers[c]]
    BY <1>2
  <2> HIDE DEF powers
  <2> QED BY <1>1, <2>1, MadeSeq
<1>8. /\ \A c \in DOMAIN products : "null" \in DOMAIN products[c] /\ products[c].null = FALSE
      /\ \A c \in DOMAIN powers : "null" \in DOMAIN powers[c] /\ powers[c].null = FALSE
  <2> HIDE DEF combos
  <2> QED BY DEF Product, Power
<1> HIDE DEF products, powers
<1>9. IsSeq(ds.cols \o products) /\ IsSeq(cols)
      /\ Len(cols) = m + Len(products) + Len(powers)
  BY <1>1, <1>6, <1>7, CatSeq DEF m
<1>10. ASSUME NEW c \in DOMAIN cols
       PROVE  "null" \in DOMAIN cols[c] /\ cols[c].null = FALSE
  <2> DEFINE front == ds.cols \o products
  <2>1. \/ c \in DOMAIN front /\ cols[c] = front[c]
        \/ c - Len(front) \in DOMAIN powers /\ cols[c] = powers[c - Len(front)]
    BY <1>7, <1>9, CatEach
  <2>2. CASE c \in DOMAIN front /\ cols[c] = front[c]
    <3>1. \/ c \in DOMAIN ds.cols /\ front[c] = ds.cols[c]
          \/ c - m \in DOMAIN products /\ front[c] = products[c - m]
      BY <1>1, <1>6, <2>2, CatEach DEF m
    <3> HIDE DEF front, cols
    <3> QED BY <1>8, <2>2, <3>1 DEF Sturdy
  <2> HIDE DEF front, cols
  <2> QED BY <1>8, <2>1, <2>2
<1>11. Len(cols) >= m
  <2> DEFINE x == Len(products)
             y == Len(powers)
  <2>1. x \in Nat /\ y \in Nat
    BY <1>6, <1>7 DEF IsSeq
  <2>2. Len(cols) = m + x + y
    BY <1>9
  <2> HIDE DEF x, y, cols
  <2> QED BY <1>1, <2>1, <2>2
<1> HIDE DEF cols
<1>12. WithCols(ds, cols).cols = cols /\ WithCols(ds, cols).fault = "none"
  BY <1>1 DEF WithCols, IsWhole, IsDataSet
<1>13. Sturdy(WithCols(ds, cols))
  BY <1>10, <1>12 DEF Sturdy
<1> QED BY <1>4, <1>5, <1>11, <1>12, <1>13 DEF m

-----------------------------------------------------------------------------
(* A sound input.  Until its features are selected the training set of a   *)
(* solver has the columns that were not harmful, and from then on at least *)
(* as many as an expansion needs.                                          *)
AllSound == \A s \in Solvers : Sound(s)

Waiting(s) ==
    \/ pc \in {"names", "outputs", "features", "flags"}
    \/ pc = "harmful" /\ s < solver
    \/ pc = "select" /\ s >= solver
    \/ pc \in {"expand", "reselect", "learn", "test"} /\ s > solver

Ready(s) ==
    /\ Len(train[s].cols) = Columns(s)
    /\ Sturdy(train[s])
    /\ Varied(train[s], input.value)

Least(s) == CASE input.fsopt = "NONE"  -> Columns(s)
              [] input.fsopt = "DELTA" -> 1
              [] OTHER                 -> input.fsInsts

Selected ==
    pc \in {"expand", "reselect", "learn", "test"} =>
        Sturdy(train[solver]) /\ Len(train[solver].cols) >= Least(solver)

Progress ==
    /\ pc \notin Terminal \ {"done"}
    /\ \A s \in Solvers : Waiting(s) => Ready(s)
    /\ Selected
    /\ pc = "reselect" => Expanding

SoundInv == AllSound => Progress

LEMMA SoundSame ==
    ASSUME input' = input, timedOut' = timedOut
    PROVE  /\ AllSound' <=> AllSound
           /\ \A s : Columns(s)' = Columns(s) /\ Least(s)' = Least(s)
           /\ Expanding' <=> Expanding
<1>1. \A s : /\ Columns(s)' = Columns(s) /\ RowsFor(s)' = RowsFor(s)
             /\ (SameKept(s)' <=> SameKept(s))
  BY DEF Columns, RowsFor, SameKept, Harmless
<1>2. Expanding' <=> Expanding
  BY DEF Expanding
<1>3. \A s : Sound(s)' <=> Sound(s)
  BY <1>1, <1>2 DEF Sound
<1> QED BY <1>1, <1>2, <1>3 DEF AllSound, Least

LEMMA SoundWork ==
    ASSUME Progress, pc \in Stages \ {"create"}, pc' \in (Stages \ {"create"}) \cup {"done"},
           input' = input, timedOut' = timedOut,
           \A s \in Solvers : s # solver => train'[s] = train[s],
           \A s \in Solvers : Waiting(s)' => Waiting(s) \/ s = solver,
           \A s \in Solvers : s = solver /\ Waiting(s)' =>
               /\ Len(train'[s].cols) = Columns(s)
               /\ Sturdy(train'[s]) /\ Varied(train'[s], input.value),
           pc' \in {"expand", "reselect", "learn", "test"} =>
               /\ solver' = solver /\ Sturdy(train'[solver])
               /\ Len(train'[solver].cols) >= Least(solver),
           pc' = "reselect" => Expanding
    PROVE  Progress'
<1>1. pc' \notin Terminal \ {"done"}
  BY DEF Stages, Later, Terminal
<1>2. ASSUME NEW s \in Solvers, Waiting(s)' PROVE Ready(s)'
  <2>1. CASE s = solver
    BY <1>2, <2>1, SoundSame DEF Ready
  <2>2. CASE s # solver
    <3>1. Ready(s) /\ train'[s] = train[s]
      BY <1>2, <2>2 DEF Progress
    <3> QED BY <3>1, SoundSame DEF Ready
  <2> QED BY <2>1, <2>2
<1>3. Selected'
  BY SoundSame DEF Selected
<1>4. pc' = "reselect" => Expanding'
  BY SoundSame
<1> QED BY <1>1, <1>2, <1>3, <1>4 DEF Progress

(* What the other invariants say of a sound input. *)
LEMMA SoundFacts ==
    ASSUME IInv, RInv, AllSound, pc \in Stages \ {"create"}
    PROVE  /\ HasTest /\ solver \in Solvers /\ input \in Inputs /\ Sound(solver)
           /\ IsWhole(train[solver]) /\ IsWhole(test[solver])
           /\ test[solver].cols = train[solver].cols
           /\ Len(train[solver].rows) = RowsFor(solver) /\ train[solver].rows # <<>>
           /\ DOMAIN train = Solvers /\ DOMAIN test = Solvers
<1>1. /\ solver \in Solvers /\ DOMAIN train = Solvers /\ DOMAIN test = Solvers
      /\ IsWhole(train[solver]) /\ input \in Inputs
  BY StageFacts DEF RInv, Places
<1>2. Sound(solver) /\ input.percentTest \in 1..100
  BY <1>1 DEF AllSound, Sound
<1>3. HasTest
  BY <1>2 DEF HasTest
<1>4. IsWhole(test[solver])
  BY <1>3, StageFacts
<1>5. Made(solver) /\ SameKept(solver)
  BY <1>1, <1>2, WholeMade DEF Made, Sound
<1>6. test[solver].cols = train[solver].cols
  BY <1>1, <1>3, <1>5 DEF IInv, Mirror, Alike
<1>7. SplitOf(solver)
  BY <1>1, <1>3, <1>5 DEF RInv, Splits
<1>8. Len(train[solver].rows) = RowsFor(solver) /\ RowsFor(solver) > 0
  BY <1>2, <1>7 DEF SplitOf, RowsFor, Sound
<1>9. train[solver].rows # <<>>
  BY <1>8
<1> QED BY <1>1, <1>2, <1>3, <1>4, <1>6, <1>8, <1>9

LEMMA SturdyReadable ==
    ASSUME NEW ds, Sturdy(ds)
    PROVE  NullCols(ds) = {} /\ ~Unreadable(ds)
BY DEF NullCols, Sturdy, Unreadable

-----------------------------------------------------------------------------
LEMMA HarmfulSound ==
    ASSUME IInv, RInv, AllSound, Progress, RemoveHarmful
    PROVE  Progress'
<1>1. /\ pc = "harmful" /\ input' = input /\ timedOut' = timedOut /\ NextSolver("harmful", "names")
      /\ pc \in Stages \ {"create"}
  BY DEF RemoveHarmful, data, Stages
<1>2. /\ solver' \in Solvers
      /\ \/ pc' = "harmful" /\ solver' = solver + 1
         \/ pc' = "names" /\ solver' = 1 /\ solver = NumSolvers
      /\ pc' \in (Stages \ {"create"}) \cup {"done"}
  BY <1>1, SoundFacts, Turn DEF Stages, Later
<1>3. /\ \A s \in Solvers : s # solver => train'[s] = train[s]
      /\ train'[solver] = RemoveHarmfulFeatures(train[solver], input.value)
  BY <1>1, SoundFacts DEF RemoveHarmful
<1>4. train[solver] = NewTraining(solver)
  <2>1. solver \in Solvers /\ HasTest /\ solver >= solver
    BY <1>1, SoundFacts DEF Solvers
  <2> QED BY <1>1, <2>1 DEF IInv, Fresh
<1>5. IsWhole(train[solver]) /\ Sturdy(train[solver])
  BY <1>1, <1>4, SoundFacts, NewSturdy DEF NewTraining
<1>6. /\ Len(train'[solver].cols) = Columns(solver)
      /\ Sturdy(train'[solver]) /\ Varied(train'[solver], input.value)
  BY <1>3, <1>4, <1>5, HarmlessAreVaried DEF Columns, Harmless, NewTraining
<1>7. ASSUME NEW s \in Solvers, Waiting(s)' PROVE Waiting(s) \/ s = solver
  <2>1. s < solver \/ s = solver
    <3>1. solver \in Solvers /\ NumSolvers \in Nat
      BY <1>1, SoundFacts, NumSolversAssumption
    <3> QED BY <1>2, <1>7, <3>1 DEF Waiting, Solvers
  <2> QED BY <1>1, <2>1 DEF Waiting
<1> QED BY <1>1, <1>2, <1>3, <1>6, <1>7, SoundWork

LEMMA OutputsSound ==
    ASSUME IInv, RInv, AllSound, Progress, PrepareOutputs
    PROVE  Progress'
<1>1. /\ pc = "outputs" /\ pc' = "features" /\ input' = input /\ timedOut' = timedOut
      /\ solver' = solver /\ pc \in Stages \ {"create"} /\ pc' \in Stages \ {"create"}
  BY DEF PrepareOutputs, data, Goto, Stages, Later
<1>2. /\ \A s \in Solvers : s # solver => train'[s] = train[s]
      /\ train'[solver] = IF input.outputStd THEN StandardizeOutput(train[solver])
                                             ELSE train[solver]
  BY <1>1, SoundFacts DEF PrepareOutputs, Unlimited
<1>3. Ready(solver) /\ IsWhole(train[solver])
  BY <1>1, SoundFacts DEF Progress, Waiting
<1>4. /\ Len(train'[solver].cols) = Columns(solver)
      /\ Sturdy(train'[solver]) /\ Varied(train'[solver], input.value)
  BY <1>2, <1>3, OutputSturdy DEF Ready
<1>5. \A s \in Solvers : Waiting(s)
  BY <1>1 DEF Waiting
<1> QED BY <1>1, <1>2, <1>4, <1>5, SoundWork

LEMMA StandardizeSound ==
    ASSUME IInv, RInv, AllSound, Progress, StandardizeFeatures
    PROVE  Progress'
<1>1. /\ pc = "features" /\ input' = input /\ timedOut' = timedOut
      /\ NextSolver("outputs", "flags") /\ pc \in Stages \ {"create"}
  BY DEF StandardizeFeatures, data, Stages, Later
<1>2. pc' \in {"outputs", "flags"} /\ pc' \in (Stages \ {"create"}) \cup {"done"}
  BY <1>1 DEF NextSolver, Stages, Later
<1>3. /\ \A s \in Solvers : s # solver => train'[s] = train[s]
      /\ \/ train'[solver] = train[solver]
         \/ \E factors : train'[solver] = Standardize(train[solver], factors)
  BY <1>1, SoundFacts DEF StandardizeFeatures
<1>4. Ready(solver) /\ IsWhole(train[solver])
  BY <1>1, SoundFacts DEF Progress, Waiting
<1>5. /\ Len(train'[solver].cols) = Columns(solver)
      /\ Sturdy(train'[solver]) /\ Varied(train'[solver], input.value)
  BY <1>3, <1>4, StandardizeSturdy DEF Ready
<1>6. \A s \in Solvers : Waiting(s)
  BY <1>1 DEF Waiting
<1> QED BY <1>1, <1>2, <1>3, <1>5, <1>6, SoundWork

LEMMA StandardizeNeverStops ==
    ASSUME IInv, RInv, AllSound, Progress, StandardizeFeaturesStops
    PROVE  FALSE
<1>1. pc = "features" /\ pc \in Stages \ {"create"}
  BY DEF StandardizeFeaturesStops, Stages, Later
<1>2. HasTest /\ test[solver].cols = train[solver].cols /\ Ready(solver)
  BY <1>1, SoundFacts DEF Progress, Waiting
<1>3. ~HasConstant(train[solver])
  BY <1>2 DEF Ready, Varied, HasConstant
<1>4. ~FactorMissing(test[solver], Factors(train[solver]))
  <2> DEFINE factors == Factors(train[solver])
  <2>1. ASSUME NEW c \in DOMAIN test[solver].cols
        PROVE  c \in Found(test[solver].cols[c], factors)
    BY <1>2 DEF Found, Factors
  <2> QED BY <2>1 DEF FactorMissing
<1> QED BY <1>2, <1>3, <1>4 DEF StandardizeFeaturesStops

(* What is selected from a data set with the columns asked for stands in   *)
(* its order, and is no less than that.                                    *)
LEMMA SelectedInOrder ==
    ASSUME input \in Inputs, solver \in Solvers, Sound(solver), input.fsopt # "NONE",
           NEW ds, IsWhole(ds), Len(ds.cols) >= Least(solver),
           NEW res \in Selections(ds)
    PROVE  /\ res \in Seq(Int) /\ Increasing(res) /\ Len(res) >= Least(solver)
           /\ \A n \in DOMAIN res : res[n] \in DOMAIN ds.cols
<1> DEFINE m == Len(ds.cols)
           k == input.fsInsts
           l == Least(solver)
<1>1. m \in Nat /\ DOMAIN ds.cols = 1..m /\ NumCols(ds) = m /\ k \in Nat
  BY InputTypes DEF IsWhole, IsSeq, NumCols
<1>2. \A n \in DOMAIN res : res[n] \in DOMAIN ds.cols
  BY SelectionsAreColumns
<1>3. \/ input.fsopt = "DELTA" /\ l = 1
      \/ input.fsopt = "INSTS" /\ l = k /\ k > 0
  BY <1>1, InputTypes DEF Sound, Least
<1>4. m >= l
  OBVIOUS
<1> HIDE DEF m, k, l
<1>5. m > 0
  BY <1>1, <1>3, <1>4
<1>6. \/ l = 1 /\ res \in Alone(ds)
      \/ l <= m /\ res = AllOf(ds)
      \/ l = k /\ res \in Sets(ds, k)
  <2>1. CASE input.fsopt = "DELTA"
    <3>1. l = 1 /\ l <= m
      BY <1>1, <1>3, <1>5, <2>1
    <3>2. res \in Alone(ds) \/ res = AllOf(ds)
      BY <2>1 DEF Selections
    <3> QED BY <3>1, <3>2
  <2>2. CASE input.fsopt = "INSTS"
    <3>1. l = k /\ k > 0 /\ ~(k > m) /\ k # 0
      BY <1>1, <1>3, <1>4, <2>2
    <3>2. (k = 1 /\ res \in Alone(ds)) \/ res \in Sets(ds, k)
      BY <1>1, <2>2, <3>1 DEF Selections, k
    <3> QED BY <3>1, <3>2
  <2> QED BY <1>3, <2>1, <2>2
<1>7. CASE l = 1 /\ res \in Alone(ds)
  <2>1. PICK c \in DOMAIN ds.cols : res = <<c>>
    BY <1>7 DEF Alone
  <2>2. c \in Int
    BY <1>1
  <2>3. res \in Seq(Int) /\ Len(res) = 1 /\ Increasing(res)
    BY <2>1, <2>2 DEF Increasing
  <2> QED BY <1>2, <1>7, <2>3 DEF l
<1>8. CASE l <= m /\ res = AllOf(ds)
  <2>1. res = [c \in 1..m |-> c]
    BY <1>1, <1>8 DEF AllOf
  <2>2. res \in Seq(Int) /\ Len(res) = m /\ Increasing(res)
    BY <1>1, <2>1 DEF Increasing
  <2> QED BY <1>2, <1>4, <2>2 DEF l
<1>9. CASE l = k /\ res \in Sets(ds, k)
  <2>1. res \in [1..k -> 1..m]
    BY <1>1, <1>9 DEF Sets
  <2>2. res \in Seq(Int) /\ Len(res) = k
    BY <1>1, <2>1
  <2>3. Increasing(res)
    BY <1>9 DEF Increasing, IsSorted, Sets
  <2>4. Len(res) >= l
    BY <1>1, <1>9, <2>2
  <2> QED BY <1>2, <2>2, <2>3, <2>4 DEF l
<1> QED BY <1>6, <1>7, <1>8, <1>9

(* and there is always something to select. *)
LEMMA SelectionGoesOn ==
    ASSUME input \in Inputs, solver \in Solvers, Sound(solver), input.fsopt # "NONE",
           NEW ds, IsWhole(ds), Sturdy(ds), Len(ds.cols) >= Least(solver),
           Len(ds.rows) = RowsFor(solver),
           Expanding \/ Len(ds.cols) = Columns(solver) \/ input.fsopt = "INSTS"
    PROVE  SelectionStops(ds) = {}
<1> DEFINE m == Len(ds.cols)
           r == Len(ds.rows)
           k == input.fsInsts
<1>1. m \in Nat /\ NumCols(ds) = m /\ k \in Nat /\ r \in Nat /\ NullCols(ds) = {}
  BY InputTypes, SturdyReadable DEF IsWhole, IsSeq, NumCols
<1>2. r > 0
  BY DEF Sound
<1>3. \/ input.fsopt = "DELTA" /\ m > 0 /\ r > m
      \/ input.fsopt = "INSTS" /\ m > 0 /\ r > k /\ k > 0
  <2>1. CASE input.fsopt = "DELTA"
    <3>1. m >= 1 /\ ~Expanding /\ RowsFor(solver) > Columns(solver)
      BY <2>1 DEF Sound, Least
    <3>2. m = Columns(solver)
      BY <2>1, <3>1
    <3>3. r > m
      BY <3>1, <3>2
    <3> HIDE DEF m, r
    <3> QED BY <1>1, <2>1, <3>1, <3>3
  <2>2. CASE input.fsopt = "INSTS"
    <3>1. k \in 1..Columns(solver) /\ RowsFor(solver) > k /\ m >= k
      BY <2>2 DEF Sound, Least
    <3>2. r > k /\ k > 0
      BY <1>1, <3>1
    <3> HIDE DEF m, r, k
    <3> QED BY <1>1, <2>2, <3>1, <3>2
  <2> QED BY <2>1, <2>2, InputTypes
<1>4. ds.rows # <<>>
  BY <1>2
<1>5. ~Unusable(ds)
  <2> HIDE DEF m
  <2> QED BY <1>1, <1>3 DEF Unusable
<1> HIDE DEF m, r, k
<1>6. ~(m = 0) /\ ~(r = 0)
  BY <1>1, <1>2, <1>3
<1>7. ~(input.fsopt = "DELTA" /\ m > 1 /\ r <= m)
  BY <1>1, <1>3
<1>8. ~(input.fsopt = "INSTS" /\ k \in 2..m /\ r <= k) /\ ~(input.fsopt = "INSTS" /\ k = 0)
  BY <1>1, <1>3
<1> QED BY <1>1, <1>5, <1>6, <1>7, <1>8 DEF SelectionStops, m, r, k

LEMMA SelectSound ==
    ASSUME IInv, RInv, AllSound, Progress,
           NEW here, NEW after, Select(here, after),
           <<here, after>> \in {<<"select", "expand">>, <<"reselect", "learn">>}
    PROVE  Progress'
<1> DEFINE ds == train[solver]
<1>1. /\ pc = here /\ pc \in Stages \ {"create"}
      /\ after \in {"expand", "learn"} /\ after \in Stages \ {"create"}
  BY DEF Select, Stages, Later
<1>2. /\ HasTest /\ solver \in Solvers /\ input \in Inputs /\ Sound(solver)
      /\ IsWhole(ds) /\ IsWhole(test[solver]) /\ test[solver].cols = ds.cols
      /\ Len(ds.rows) = RowsFor(solver)
  BY <1>1, SoundFacts
<1>3. /\ Sturdy(ds) /\ Len(ds.cols) >= Least(solver)
      /\ Expanding \/ Len(ds.cols) = Columns(solver)
  <2>1. CASE here = "select"
    <3>1. solver >= solver
      BY <1>2 DEF Solvers
    <3>2. Ready(solver)
      BY <1>1, <1>2, <2>1, <3>1 DEF Progress, Waiting
    <3>3. Len(ds.cols) >= Least(solver)
      <4> DEFINE m == Len(ds.cols)
      <4>1. m = Columns(solver) /\ m \in Nat /\ Columns(solver) > 0
        BY <1>2, <3>2 DEF Ready, Sound, IsWhole, IsSeq
      <4>2. input.fsopt = "INSTS" => input.fsInsts \in 1..Columns(solver)
        BY <1>2 DEF Sound
      <4>3. \/ Least(solver) = Columns(solver)
            \/ Least(solver) = 1
            \/ input.fsopt = "INSTS" /\ Least(solver) = input.fsInsts
        BY <1>2, InputTypes DEF Least
      <4> HIDE DEF m
      <4>4. m >= Least(solver)
        BY <4>1, <4>2, <4>3
      <4> QED BY <4>4 DEF m
    <3> QED BY <3>2, <3>3 DEF Ready
  <2>2. CASE here = "reselect"
    BY <1>1, <2>2 DEF Progress, Selected
  <2> QED BY <2>1, <2>2
<1>4. \A s \in Solvers : Waiting(s)' => Waiting(s) /\ s # solver
  <2>1. CASE here = "select"
    <3>1. pc' \in {"expand"} \cup Terminal
      <4>1. \A fault : Outcomes(fault) \subseteq Terminal
        BY DEF Outcomes, Terminal
      <4>2. SelectionStops(ds) \subseteq Terminal /\ {"crashed"} \subseteq Terminal
        BY DEF SelectionStops, Terminal
      <4> QED BY <1>1, <2>1, <4>1, <4>2 DEF Select, Goto, Stop
    <3>2. solver' = solver
      BY DEF Select, Goto, Stop
    <3> QED BY <1>1, <1>2, <2>1, <3>1, <3>2 DEF Waiting, Terminal, Solvers
  <2>2. CASE here = "reselect"
    <3>1. pc' \in {"learn"} \cup Terminal
      <4>1. \A fault : Outcomes(fault) \subseteq Terminal
        BY DEF Outcomes, Terminal
      <4>2. SelectionStops(ds) \subseteq Terminal /\ {"crashed"} \subseteq Terminal
        BY DEF SelectionStops, Terminal
      <4> QED BY <1>1, <2>2, <4>1, <4>2 DEF Select, Goto, Stop
    <3>2. solver' = solver
      BY DEF Select, Goto, Stop
    <3> QED BY <1>1, <1>2, <2>2, <3>1, <3>2 DEF Waiting, Terminal, Solvers
  <2> QED BY <2>1, <2>2
<1>5. CASE input.fsopt = "NONE"
  <2>1. /\ pc' = after /\ solver' = solver /\ input' = input /\ timedOut' = timedOut
        /\ train' = train
    BY <1>5 DEF Select, Goto, data
  <2> QED BY <1>1, <1>2, <1>3, <1>4, <2>1, SoundWork
<1>6. CASE input.fsopt # "NONE"
  <2>1. SelectionStops(ds) = {}
    BY <1>2, <1>3, <1>6, SelectionGoesOn
  <2>2. PICK res \in Selections(ds) :
            LET kept == RemoveFeatures(test[solver], res) IN
            IF kept.fault # "none" THEN Stop(Outcomes(kept.fault))
            ELSE /\ train' = [train EXCEPT ![solver] = RemoveFeatures(@, res)]
                 /\ test'  = [test  EXCEPT ![solver] = kept]
                 /\ Goto(after)
                 /\ UNCHANGED <<data, file>>
    BY <1>2, <1>6, <2>1 DEF Select, Stop
  <2>3. /\ res \in Seq(Int) /\ Increasing(res) /\ Len(res) >= Least(solver)
        /\ \A n \in DOMAIN res : res[n] \in DOMAIN ds.cols
    BY <1>2, <1>3, <1>6, SelectedInOrder
  <2>4. RemoveFeatures(test[solver], res).fault = "none"
    BY <1>2, <2>3 DEF RemoveFeatures, WithCols, IsWhole, IsDataSet
  <2>5. /\ pc' = after /\ solver' = solver /\ input' = input /\ timedOut' = timedOut
        /\ train' = [train EXCEPT ![solver] = RemoveFeatures(@, res)]
    BY <2>2, <2>4 DEF Goto, data
  <2>6. /\ train'[solver] = RemoveFeatures(ds, res)
        /\ \A s \in Solvers : s # solver => train'[s] = train[s]
    BY <1>1, <2>5, SoundFacts
  <2>7. Sturdy(train'[solver]) /\ Len(train'[solver].cols) >= Least(solver)
    BY <1>2, <1>3, <2>3, <2>6, KeepInOrder
  <2> QED BY <1>1, <1>4, <2>5, <2>6, <2>7, SoundWork
<1> QED BY <1>5, <1>6

LEMMA ExpandSound ==
    ASSUME IInv, RInv, AllSound, Progress, ExpandBoth
    PROVE  Progress'
<1> DEFINE ds == train[solver]
           first == Expanded(ds)
<1>1. pc = "expand" /\ pc \in Stages \ {"create"} /\ Expanding
  BY DEF ExpandBoth, Stages, Later
<1>2. /\ HasTest /\ solver \in Solvers /\ input \in Inputs /\ Sound(solver)
      /\ IsWhole(ds) /\ IsWhole(test[solver]) /\ test[solver].cols = ds.cols
  BY <1>1, SoundFacts
<1>3. Sturdy(ds) /\ Len(ds.cols) >= Least(solver)
  BY <1>1 DEF Progress, Selected
<1>4. /\ input.fePartitions = <<>> /\ input.fePartOrder \in Nat
      /\ input.fePartOrder >= 2 /\ input.fePartOrder <= Least(solver)
      /\ Least(solver) \in Nat
  <2>1. Columns(solver) \in Nat /\ input.fsInsts \in Nat /\ input.fePartOrder \in Nat
    <3>1. IsWhole(NewTraining(solver))
      BY RowsOf, NewWhole DEF NewTraining, RInv, Places
    <3>2. IsWhole(RemoveHarmfulFeatures(NewTraining(solver), input.value))
      BY <3>1, HarmlessRows
    <3>3. Columns(solver) \in Nat
      BY <3>2 DEF Columns, Harmless, NewTraining, IsWhole, IsSeq
    <3> QED BY <1>2, <3>3, InputsAssumption
  <2> QED BY <1>1, <1>2, <2>1, InputTypes DEF Sound, Least
<1>5. input.fePartOrder <= Len(ds.cols)
  <2> DEFINE m == Len(ds.cols)
  <2>1. m \in Nat
    BY <1>2 DEF IsWhole, IsSeq
  <2> HIDE DEF m
  <2>2. input.fePartOrder <= m
    BY <1>3, <1>4, <2>1 DEF m
  <2> QED BY <2>2 DEF m
<1>6. Sturdy(test[solver])
  BY <1>2, <1>3 DEF Sturdy
<1>7. /\ first.fault = "none" /\ Sturdy(first) /\ Len(first.cols) >= Len(ds.cols)
      /\ Expanded(test[solver]).fault = "none"
  BY <1>2, <1>3, <1>4, <1>5, <1>6, ExpandSturdy DEF Expanded
<1>8. /\ pc' = "reselect" /\ solver' = solver /\ input' = input /\ timedOut' = timedOut
      /\ train' = [train EXCEPT ![solver] = first]
  <2> HIDE DEF first
  <2> QED BY <1>1, <1>2, <1>7 DEF ExpandBoth, Goto, data, first
<1>9. /\ train'[solver] = first
      /\ \A s \in Solvers : s # solver => train'[s] = train[s]
  BY <1>1, <1>8, SoundFacts
<1>10. Len(first.cols) >= Least(solver)
  <2> DEFINE m == Len(ds.cols)
             n == Len(first.cols)
  <2>1. m \in Nat /\ n \in Nat
    <3>1. IsWhole(first)
      BY <1>2, <1>7, ExpandStays
    <3> HIDE DEF first
    <3> QED BY <1>2, <3>1 DEF IsWhole, IsSeq
  <2>2. n >= m /\ m >= Least(solver)
    BY <1>3, <1>7
  <2> HIDE DEF m, n
  <2>3. n >= Least(solver)
    BY <1>4, <2>1, <2>2
  <2> QED BY <2>3 DEF n
<1>11. \A s \in Solvers : Waiting(s)' => Waiting(s) /\ s # solver
  BY <1>1, <1>2, <1>8 DEF Waiting, Solvers
<1>12. pc' \in Stages \ {"create"}
  BY <1>8 DEF Stages, Later
<1> HIDE DEF first
<1> QED BY <1>1, <1>7, <1>8, <1>9, <1>10, <1>11, <1>12, SoundWork

(* The stages that leave the training sets alone. *)
LEMMA OthersSound ==
    ASSUME IInv, RInv, AllSound, Progress,
           WriteSolverNames \/ WriteFlags \/ DoNotExpand \/ Learn \/ Test
    PROVE  Progress'
<1>1. /\ pc \in Stages \ {"create"} /\ input' = input /\ timedOut' = timedOut
      /\ train' = train
  BY DEF WriteSolverNames, WriteFlags, DoNotExpand, Learn, Test, data, Stages, Later
<1>2. solver \in Solvers
  BY <1>1, SoundFacts
<1>3. CASE WriteSolverNames \/ WriteFlags
  <2>1. /\ pc \in {"names", "flags"} /\ pc' \in {"outputs", "select"}
        /\ pc' \in Stages \ {"create"}
    BY <1>3 DEF WriteSolverNames, WriteFlags, Goto, Stages, Later
  <2>2. \A s \in Solvers : Waiting(s) /\ Ready(s)
    BY <2>1 DEF Progress, Waiting
  <2> QED BY <1>1, <1>2, <2>1, <2>2, SoundWork DEF Ready
<1>4. CASE DoNotExpand \/ Learn
  <2>1. /\ pc \in {"expand", "learn"} /\ pc' \in {"learn", "test"} /\ solver' = solver
        /\ pc' \in Stages \ {"create"}
    BY <1>4 DEF DoNotExpand, Learn, Goto, Stages, Later
  <2>2. Sturdy(train[solver]) /\ Len(train[solver].cols) >= Least(solver)
    BY <2>1 DEF Progress, Selected
  <2>3. \A s \in Solvers : Waiting(s)' => Waiting(s) /\ s # solver
    BY <1>2, <2>1 DEF Waiting, Solvers
  <2> QED BY <1>1, <2>1, <2>2, <2>3, SoundWork
<1>5. CASE Test
  <2>1. pc = "test" /\ NextSolver("select", "done")
    BY <1>5 DEF Test
  <2>2. /\ \/ pc' = "select" /\ solver' = solver + 1
           \/ pc' = "done"
        /\ pc' \in (Stages \ {"create"}) \cup {"done"}
    BY <1>2, <2>1, Turn DEF Stages, Later
  <2>3. \A s \in Solvers : Waiting(s)' => Waiting(s) /\ s # solver
    BY <1>2, <2>1, <2>2 DEF Waiting, Solvers
  <2> QED BY <1>1, <2>2, <2>3, SoundWork
<1> QED BY <1>3, <1>4, <1>5

(* What would end the program at a fault does not happen. *)
LEMMA NeverStops ==
    ASSUME IInv, RInv, AllSound, Progress,
           CreateTraps \/ PrepareOutputsNoTest \/ StandardizeFeaturesStops
           \/ LearnStops \/ TestStops
    PROVE  FALSE
<1>1. solver \in Solvers /\ input.percentTest \in 1..100
  BY DEF RInv, Places, AllSound, Sound
<1>2. HasTest /\ ~CreateTraps
  BY <1>1 DEF HasTest, CreateTraps
<1>3. ~PrepareOutputsNoTest
  BY <1>2 DEF PrepareOutputsNoTest
<1>4. ~StandardizeFeaturesStops
  BY StandardizeNeverStops
<1>5. ASSUME pc \in {"learn", "test"}
      PROVE  /\ ~Unreadable(train[solver]) /\ ~Unreadable(test[solver])
             /\ train[solver].rows # <<>>
  <2>1. Sturdy(train[solver])
    BY <1>5 DEF Progress, Selected
  <2>2. test[solver].cols = train[solver].cols /\ train[solver].rows # <<>>
    BY <1>5, SoundFacts DEF Stages, Later
  <2>3. Sturdy(test[solver])
    BY <2>1, <2>2 DEF Sturdy
  <2> QED BY <2>1, <2>2, <2>3, SturdyReadable
<1> QED BY <1>2, <1>3, <1>4, <1>5 DEF LearnStops, TestStops

LEMMA CreateSound ==
    ASSUME RInv, Create
    PROVE  Progress'
<1>1. /\ pc = "create" /\ solver \in Solvers /\ NextSolver("create", "harmful")
  BY DEF Create, RInv, Places
<1>2. \/ pc' = "create"
      \/ pc' = "harmful" /\ solver' = 1
  BY <1>1, Turn
<1>3. \A s \in Solvers : ~(s < 1)
  BY NumSolversAssumption DEF Solvers
<1>4. \A s \in Solvers : ~Waiting(s)'
  BY <1>2, <1>3 DEF Waiting
<1> QED BY <1>2, <1>4 DEF Progress, Selected, Terminal

LEMMA InitSound == Init => SoundInv
<1> SUFFICES ASSUME Init PROVE Progress
  BY DEF SoundInv
<1>1. pc = "create"
  BY DEF Init
<1> QED BY <1>1 DEF Progress, Selected, Waiting, Terminal

LEMMA NextSound == IInv /\ RInv /\ SoundInv /\ [Next]_vars => SoundInv'
<1> SUFFICES ASSUME IInv, RInv, SoundInv, [Next]_vars, AllSound' PROVE Progress'
  BY DEF SoundInv
<1>1. CASE Create
  BY <1>1, CreateSound
<1>2. CASE ~Create
  <2>1. input' = input /\ timedOut' = timedOut
    BY <1>2 DEF Next, vars, Ended, data, Stop, CreateTraps, RemoveHarmful, WriteSolverNames,
       PrepareOutputs, PrepareOutputsNoTest, StandardizeFeatures, StandardizeFeaturesStops,
       WriteFlags, FirstSelection, DoNotExpand, ExpandBoth, SecondSelection, Select, Learn,
       LearnStops, Test, TestStops
  <2>2. AllSound /\ Progress
    BY <2>1, SoundSame DEF SoundInv
  <2>3. CASE UNCHANGED vars
    <3>1. UNCHANGED <<pc, solver, train>>
      BY <2>3 DEF vars
    <3>2. \A s \in Solvers : Waiting(s)' => Ready(s)'
      BY <2>1, <2>2, <3>1, SoundSame DEF Progress, Waiting, Ready
    <3>3. Selected'
      BY <2>1, <2>2, <3>1, SoundSame DEF Progress, Selected
    <3> QED BY <2>1, <2>2, <3>1, <3>2, <3>3, SoundSame DEF Progress
  <2>4. CASE Ended
    BY <2>3, <2>4 DEF Ended
  <2>5. CASE FirstSelection \/ SecondSelection
    BY <2>2, <2>5, SelectSound DEF FirstSelection, SecondSelection
  <2> QED BY <1>2, <2>2, <2>3, <2>4, <2>5, HarmfulSound, OutputsSound, StandardizeSound,
             ExpandSound, OthersSound, NeverStops DEF Next
<1> QED BY <1>1, <1>2

(* With a sound configuration and measurements the coach does not come to  *)
(* a failed assertion, a null pointer, an index past the end, a value 0/0  *)
(* or an error of its own: the only end is the regular one.                *)
THEOREM SoundSucceeds == Spec => []SoundInputSucceeds
<1>1. Init => IInv /\ RInv /\ SoundInv
  BY InitIInv, InitRInv, InitSound
<1>2. IInv /\ RInv /\ SoundInv /\ [Next]_vars => IInv' /\ RInv' /\ SoundInv'
  BY NextIInv, NextRInv, NextSound
<1>3. SoundInv => SoundInputSucceeds
  BY DEF SoundInv, AllSound, Progress, SoundInputSucceeds
<1> QED BY <1>1, <1>2, <1>3, PTL DEF Spec

-----------------------------------------------------------------------------
(* Sorting takes every entry from those there are, one that is there twice *)
(* as well.                                                                *)
LEMMA SortedIsThere ==
    ASSUME NEW keep \in Seq(Nat), NEW n \in 1..Len(keep)
    PROVE  Sorted(keep, n) \in ToSet(keep)
<1> DEFINE m == Len(keep)
           Below(c) == {i \in DOMAIN keep : keep[i] < c}
           Upto(c) == {i \in DOMAIN keep : keep[i] <= c}
           Right(c) == Cardinality(Below(c)) < n /\ Cardinality(Upto(c)) >= n
           All == ToSet(keep)
           Enough == {c \in All : Cardinality(Upto(c)) >= n}
<1>1. /\ m \in Nat /\ DOMAIN keep = 1..m /\ n \in Nat /\ n > 0 /\ n <= m
      /\ IsFiniteSet(1..m) /\ Cardinality(1..m) = m
  BY FS_Interval
<1>2. \A i \in 1..m : keep[i] \in Nat /\ keep[i] \in All
  BY <1>1 DEF ToSet
<1>3. All \subseteq Nat /\ IsFiniteSet(All) /\ All # {}
  <2>1. All = {keep[i] : i \in 1..m}
    BY <1>1 DEF ToSet
  <2>2. keep \in Surjection(1..m, All)
    BY <1>1, <1>2, <2>1 DEF Surjection
  <2>3. 1 \in 1..m
    BY <1>1
  <2>4. All \subseteq Nat /\ All # {}
    BY <1>2, <2>1, <2>3
  <2> HIDE DEF All, m
  <2>5. IsFiniteSet(All)
    BY <1>1, <2>2, FS_Surjection
  <2> QED BY <2>4, <2>5
<1>4. \A c : /\ IsFiniteSet(Below(c)) /\ IsFiniteSet(Upto(c))
             /\ Cardinality(Below(c)) \in Nat /\ Cardinality(Upto(c)) \in Nat
  <2>1. \A c : Below(c) \subseteq 1..m /\ Upto(c) \subseteq 1..m
    BY <1>1
  <2> HIDE DEF Below, Upto
  <2> QED BY <1>1, <2>1, FS_Subset, FS_CardinalityType
<1>5. Enough # {} /\ Enough \subseteq Nat
  <2> DEFINE top == Max(All)
  <2>1. top \in All /\ \A x \in All : x <= top
    BY <1>3, MaxUpTo
  <2> HIDE DEF top
  <2>2. Upto(top) = 1..m
    BY <1>1, <1>2, <2>1
  <2>3. Cardinality(Upto(top)) = m
    BY <1>1, <2>2
  <2>4. top \in Enough
    <3> HIDE DEF Upto, All
    <3> QED BY <1>1, <2>1, <2>3
  <2> QED BY <1>3, <2>4
<1>6. PICK c \in Enough : \A d \in Enough : c <= d
  <2> HIDE DEF Enough
  <2> QED BY <1>5, LeastNatural
<1>7. Cardinality(Below(c)) < n
  <2> SUFFICES ASSUME ~(Cardinality(Below(c)) < n) PROVE FALSE
    OBVIOUS
  <2> DEFINE Less == {x \in All : x < c}
             d == Max(Less)
  <2>1. Cardinality(Below(c)) >= n
    <3> DEFINE a == Cardinality(Below(c))
    <3>1. a \in Nat /\ ~(a < n)
      BY <1>4
    <3> HIDE DEF a
    <3> QED BY <1>1, <3>1 DEF a
  <2>2. Below(c) # {}
    <3> HIDE DEF Below
    <3> QED BY <1>1, <2>1, FS_EmptySet
  <2>3. Less # {} /\ Less \subseteq Nat /\ IsFiniteSet(Less)
    <3>1. PICK i \in 1..m : keep[i] < c
      BY <1>1, <2>2
    <3>2. keep[i] \in Less
      BY <1>2, <3>1
    <3>3. Less \subseteq All
      OBVIOUS
    <3> HIDE DEF Less
    <3> QED BY <1>3, <3>2, <3>3, FS_Subset
  <2>4. d \in Less /\ \A x \in Less : x <= d
    <3> HIDE DEF Less
    <3> QED BY <2>3, MaxUpTo
  <2> HIDE DEF d
  <2>5. d \in All /\ d < c /\ d \in Nat /\ c \in Nat
    BY <1>3, <2>4
  <2>6. Below(c) = Upto(d)
    <3>1. ASSUME NEW i \in 1..m PROVE keep[i] < c <=> keep[i] <= d
      <4>1. keep[i] < c => keep[i] <= d
        BY <1>2, <2>4
      <4> HIDE DEF All
      <4>2. keep[i] <= d => keep[i] < c
        BY <1>2, <2>5
      <4> QED BY <4>1, <4>2
    <3> QED BY <1>1, <3>1
  <2>7. d \in Enough
    BY <2>1, <2>5, <2>6
  <2>8. c <= d
    BY <1>6, <2>7
  <2> QED BY <2>5, <2>8
<1>8. c \in All /\ Right(c)
  BY <1>6, <1>7
<1>9. Sorted(keep, n) = CHOOSE e \in All : Right(e)
  BY DEF Sorted
<1> HIDE DEF Right, All
<1>10. Sorted(keep, n) \in All
  BY <1>8, <1>9
<1> QED BY <1>10 DEF All

(* The columns of a data set are columns of another, but for pointers that *)
(* have been cleared.                                                      *)
Among(new, old) ==
    \A c \in DOMAIN new.cols : \E d \in DOMAIN old.cols :
        new.cols[c].label = old.cols[d].label /\ new.cols[c].cells = old.cols[d].cells

(* A column has a label and cells. *)
HasParts(ds) ==
    \A c \in DOMAIN ds.cols : DOMAIN ds.cols[c] = {"label", "cells", "null"}

LEMMA RemoveAmong ==
    ASSUME NEW ds, IsWhole(ds), HasParts(ds), NEW keep \in Seq(Nat),
           \A n \in DOMAIN keep : keep[n] \in DOMAIN ds.cols
    PROVE  /\ Among(RemoveFeatures(ds, keep), ds) /\ HasParts(RemoveFeatures(ds, keep))
           /\ RemoveFeatures(ds, keep).stdDone = ds.stdDone
<1> DEFINE kept == RemoveFeatures(ds, keep)
           m == Len(keep)
           again(n) == \E i \in 1..(n - 1) : Sorted(keep, i) = Sorted(keep, n)
           named(n) == [ds.cols[Sorted(keep, n)] EXCEPT !.null = @ \/ again(n)]
           cols == [n \in DOMAIN keep |-> named(n)]
<1>1. m \in Nat /\ DOMAIN keep = 1..m
  OBVIOUS
<1>2. kept.stdDone = ds.stdDone
  BY RemoveKeepsRecord DEF IsWhole, IsDataSet, IsRecord, Faults
<1>3. CASE m = Len(ds.cols)
  <2>1. kept = ds
    BY <1>3, KeepAll
  <2> QED BY <1>2, <2>1 DEF Among
<1>4. CASE m # Len(ds.cols)
  <2>1. kept = WithCols(ds, cols)
    <3> HIDE DEF named
    <3> QED BY <1>4 DEF RemoveFeatures, NumCols, named
  <2>2. kept.cols = cols
    <3> HIDE DEF cols
    <3> QED BY <2>1 DEF WithCols, IsWhole, IsDataSet
  <2>3. ASSUME NEW n \in 1..m
        PROVE  /\ Sorted(keep, n) \in DOMAIN ds.cols
               /\ cols[n].label = ds.cols[Sorted(keep, n)].label
               /\ cols[n].cells = ds.cols[Sorted(keep, n)].cells
               /\ DOMAIN cols[n] = {"label", "cells", "null"}
    <3>1. Sorted(keep, n) \in ToSet(keep)
      BY SortedIsThere
    <3>2. Sorted(keep, n) \in DOMAIN ds.cols
      BY <1>1, <3>1 DEF ToSet
    <3> DEFINE col == ds.cols[Sorted(keep, n)]
    <3>3. DOMAIN col = {"label", "cells", "null"}
      BY <3>2 DEF HasParts
    <3>4. cols[n] = [col EXCEPT !.null = @ \/ again(n)]
      BY <1>1
    <3> HIDE DEF col, again, cols
    <3>5. /\ cols[n].label = col.label /\ cols[n].cells = col.cells
          /\ DOMAIN cols[n] = {"label", "cells", "null"}
      BY <3>3, <3>4
    <3> QED BY <3>2, <3>5 DEF col
  <2>4. DOMAIN cols = 1..m
    BY <1>1
  <2> HIDE DEF cols, kept
  <2>5. Among(kept, ds) /\ HasParts(kept)
    BY <2>2, <2>3, <2>4 DEF Among, HasParts
  <2> QED BY <1>2, <2>5 DEF kept
<1> QED BY <1>3, <1>4

-----------------------------------------------------------------------------
(* Bags over a set, and what adding up a sequence of them yields. *)
BagsOf(X) == UNION {[S -> Int] : S \in SUBSET X}

LEMMA InBags ==
    ASSUME NEW X, NEW b
    PROVE  b \in BagsOf(X) <=> DOMAIN b \subseteq X /\ b \in [DOMAIN b -> Int]
BY DEF BagsOf

LEMMA AddBags ==
    ASSUME NEW X, NEW a \in BagsOf(X), NEW b \in BagsOf(X)
    PROVE  a (+) b \in BagsOf(X) /\ DOMAIN (a (+) b) = DOMAIN a \cup DOMAIN b
<1>1. /\ DOMAIN a \subseteq X /\ a \in [DOMAIN a -> Int]
      /\ DOMAIN b \subseteq X /\ b \in [DOMAIN b -> Int]
  BY InBags
<1>2. a (+) b \in [DOMAIN a \cup DOMAIN b -> Int]
  BY <1>1 DEF (+)
<1> QED BY <1>1, <1>2, InBags

LEMMA EmptyIn ==
    ASSUME NEW X
    PROVE  EmptyBag \in BagsOf(X) /\ DOMAIN EmptyBag = {}
<1>1. DOMAIN EmptyBag = {} /\ EmptyBag \in [{} -> Int]
  BY DEF EmptyBag, SetToBag
<1> QED BY <1>1, InBags

(* The values the loop of JoinBags goes through. *)
JoinTurns(s, X, G) ==
    /\ G \in [0..Len(s) -> BagsOf(X)]
    /\ G[0] = EmptyBag
    /\ \A k \in 1..Len(s) : G[k] = G[k - 1] (+) s[k]
    /\ JoinBags(s) = G[Len(s)]

LEMMA JoinLoop ==
    ASSUME NEW X, NEW s \in Seq(BagsOf(X))
    PROVE  \E G : JoinTurns(s, X, G)
<1> DEFINE n == Len(s)
           B == BagsOf(X)
           Turn1(t, e) == t (+) e
           turn == [k \in 1..n |-> [t \in B |-> Turn1(t, s[k])]]
           it == CHOOSE g : g = [t \in SUBSET (1..n) |-> IF t = {} THEN EmptyBag
                                        ELSE Turn1(g[t \ {Max(t)}], s[Max(t)])]
<1>1. n \in Nat /\ EmptyBag \in B /\ DOMAIN s = 1..n
  BY EmptyIn
<1>2. turn \in Turns(n, B)
  <2> SUFFICES ASSUME NEW k \in 1..n, NEW t \in B PROVE Turn1(t, s[k]) \in B
    BY DEF Turns
  <2>1. s[k] \in B
    BY <1>1
  <2> QED BY <2>1, AddBags
<1>3. JoinBags(s) = it[1..n]
  BY <1>1, Zenon DEF JoinBags, FoldLeft, MapThenFoldSet
<1> HIDE DEF n, B, Turn1
<1>4. 1..n \subseteq Nat /\ IsFiniteSet(1..n)
  BY <1>1, FS_Interval
<1>5. \A t \in SUBSET (1..n) : t # {} => Max(t) \in 1..n
  BY <1>4, FS_Subset, MaxUpTo
<1>6. it = [t \in SUBSET (1..n) |-> IF t = {} THEN EmptyBag
                                  ELSE Turn1(it[t \ {Max(t)}], s[Max(t)])]
  <2>1. PICK g : IsLoop(g, n, B, EmptyBag, turn)
    <3> HIDE DEF turn
    <3> QED BY <1>1, <1>2, LoopExists
  <2>2. g = [t \in SUBSET (1..n) |-> IF t = {} THEN EmptyBag
                                    ELSE Turn1(g[t \ {Max(t)}], s[Max(t)])]
    BY <1>5, <2>1 DEF IsLoop
  <2> QED BY <2>2
<1> HIDE DEF it
<1>7. Iterates(it, n, B, EmptyBag, turn)
  BY <1>5, <1>6 DEF Iterates
<1>8. PICK G : Values(G, n, B, EmptyBag, turn) /\ G[n] = it[1..n]
  <2> HIDE DEF turn
  <2> QED BY <1>1, <1>2, <1>7, LoopValues
<1>9. G \in [0..n -> B] /\ G[0] = EmptyBag
  BY <1>8 DEF Values
<1>10. \A k \in 1..n : G[k] = Turn1(G[k - 1], s[k])
  <2> TAKE k \in 1..n
  <2>1. k - 1 \in 0..n
    BY <1>1
  <2>2. G[k - 1] \in B
    BY <1>9, <2>1
  <2>3. G[k] = turn[k][G[k - 1]]
    BY <1>8 DEF Values
  <2> QED BY <1>1, <2>2, <2>3
<1> HIDE DEF turn
<1>11. JoinTurns(s, X, G)
  BY <1>3, <1>8, <1>9, <1>10 DEF n, B, Turn1, JoinTurns
<1> QED BY <1>11

LEMMA JoinIn ==
    ASSUME NEW X, NEW s \in Seq(BagsOf(X))
    PROVE  JoinBags(s) \in BagsOf(X)
<1>1. PICK G : JoinTurns(s, X, G)
  BY JoinLoop
<1>2. Len(s) \in 0..Len(s)
  OBVIOUS
<1> QED BY <1>1, <1>2 DEF JoinTurns

-----------------------------------------------------------------------------
(* What a cell is made of: a feature, raw or scaled with its own factors. *)
AtomOf(f, scaled, rows) == <<f, IF scaled THEN <<SetToBag({f}), rows>> ELSE Raw>>

(* The record of the cells that the label of a column tells of. *)
Lift(b, scaled, rows) ==
    [a \in {AtomOf(f, scaled, rows) : f \in DOMAIN b} |-> b[a[1]]]

LEMMA LiftIn ==
    ASSUME NEW X, NEW b \in BagsOf(X), NEW scaled, NEW rows,
           NEW Y, Y = {AtomOf(f, scaled, rows) : f \in X}
    PROVE  Lift(b, scaled, rows) \in BagsOf(Y)
<1> DEFINE atom(f) == AtomOf(f, scaled, rows)
           l == Lift(b, scaled, rows)
<1>1. \A f : atom(f)[1] = f
  BY DEF AtomOf
<1>2. DOMAIN b \subseteq X /\ b \in [DOMAIN b -> Int]
  BY InBags
<1>3. l = [a \in {atom(f) : f \in DOMAIN b} |-> b[a[1]]]
  BY DEF Lift
<1>4. Y = {atom(f) : f \in X}
  OBVIOUS
<1> HIDE DEF atom, l
<1>5. DOMAIN l = {atom(f) : f \in DOMAIN b}
  BY <1>3
<1>6. l \in [DOMAIN l -> Int]
  BY <1>1, <1>2, <1>3
<1>7. DOMAIN l \subseteq Y
  BY <1>2, <1>4, <1>5
<1>8. l \in BagsOf(Y)
  BY <1>6, <1>7, InBags
<1> QED BY <1>8 DEF l

LEMMA LiftAdds ==
    ASSUME NEW X, NEW b \in BagsOf(X), NEW c \in BagsOf(X), NEW scaled, NEW rows
    PROVE  Lift(b (+) c, scaled, rows) = Lift(b, scaled, rows) (+) Lift(c, scaled, rows)
<1> DEFINE atom(f) == AtomOf(f, scaled, rows)
           l(x) == Lift(x, scaled, rows)
<1>1. \A f : atom(f)[1] = f
  BY DEF AtomOf
<1>2. b (+) c \in BagsOf(X) /\ DOMAIN (b (+) c) = DOMAIN b \cup DOMAIN c
  BY AddBags
<1>3. \A x : l(x) = [a \in {atom(f) : f \in DOMAIN x} |-> x[a[1]]]
  BY DEF Lift
<1> HIDE DEF atom, l
<1>4. \A x : DOMAIN l(x) = {atom(f) : f \in DOMAIN x}
  BY <1>3
<1>5. \A x : \A f : (atom(f) \in DOMAIN l(x) <=> f \in DOMAIN x)
                    /\ (f \in DOMAIN x => l(x)[atom(f)] = x[f])
  <2> SUFFICES ASSUME NEW x, NEW f
               PROVE  /\ atom(f) \in DOMAIN l(x) <=> f \in DOMAIN x
                      /\ f \in DOMAIN x => l(x)[atom(f)] = x[f]
    OBVIOUS
  <2>1. atom(f) \in DOMAIN l(x) => f \in DOMAIN x
    <3> SUFFICES ASSUME atom(f) \in DOMAIN l(x) PROVE f \in DOMAIN x
      OBVIOUS
    <3> DEFINE D == DOMAIN l(x)
    <3>0. D = {atom(h) : h \in DOMAIN x} /\ atom(f) \in D
      BY <1>4
    <3> HIDE DEF D
    <3>1. PICK h \in DOMAIN x : atom(f) = atom(h)
      BY <3>0
    <3> QED BY <1>1, <3>1
  <2>2. f \in DOMAIN x => atom(f) \in {atom(h) : h \in DOMAIN x}
    OBVIOUS
  <2>3. l(x) = [a \in {atom(h) : h \in DOMAIN x} |-> x[a[1]]]
    BY <1>3
  <2>4. f \in DOMAIN x => l(x)[atom(f)] = x[f]
    BY <1>1, <2>2, <2>3
  <2>5. DOMAIN l(x) = {atom(h) : h \in DOMAIN x}
    BY <1>4
  <2> QED BY <2>1, <2>2, <2>4, <2>5
<1> DEFINE p == l(b) (+) l(c)
           q == l(b (+) c)
<1>6. p = [a \in DOMAIN l(b) \cup DOMAIN l(c) |->
              (IF a \in DOMAIN l(b) THEN l(b)[a] ELSE 0)
            + (IF a \in DOMAIN l(c) THEN l(c)[a] ELSE 0)]
  BY DEF (+)
<1>7. \A f \in DOMAIN b \cup DOMAIN c :
         (b (+) c)[f] = (IF f \in DOMAIN b THEN b[f] ELSE 0)
                      + (IF f \in DOMAIN c THEN c[f] ELSE 0)
  BY DEF (+)
<1>8. DOMAIN p = DOMAIN q
  <2>1. DOMAIN p = DOMAIN l(b) \cup DOMAIN l(c)
    BY <1>6
  <2>2. DOMAIN q = {atom(f) : f \in DOMAIN b \cup DOMAIN c}
    BY <1>2, <1>4
  <2>3. DOMAIN l(b) = {atom(f) : f \in DOMAIN b} /\ DOMAIN l(c) = {atom(f) : f \in DOMAIN c}
    BY <1>4
  <2> HIDE DEF p, q
  <2> QED BY <2>1, <2>2, <2>3
<1>9. ASSUME NEW a \in DOMAIN q PROVE p[a] = q[a]
  <2>1. PICK f \in DOMAIN b \cup DOMAIN c : a = atom(f)
    <3>1. DOMAIN q = {atom(f) : f \in DOMAIN b \cup DOMAIN c}
      BY <1>2, <1>4
    <3> HIDE DEF q
    <3> QED BY <3>1
  <2>2. q[a] = (b (+) c)[f]
    BY <1>2, <1>5, <2>1
  <2>3. p[a] = (IF a \in DOMAIN l(b) THEN l(b)[a] ELSE 0)
             + (IF a \in DOMAIN l(c) THEN l(c)[a] ELSE 0)
    BY <1>6, <1>8
  <2>4. /\ (a \in DOMAIN l(b) <=> f \in DOMAIN b)
        /\ (a \in DOMAIN l(c) <=> f \in DOMAIN c)
        /\ f \in DOMAIN b => l(b)[a] = b[f]
        /\ f \in DOMAIN c => l(c)[a] = c[f]
    BY <1>5, <2>1
  <2> QED BY <1>7, <2>2, <2>3, <2>4
<1>10. q = [a \in DOMAIN q |-> q[a]]
  BY <1>3
<1>11. p = [a \in DOMAIN p |-> p[a]]
  BY <1>6
<1> HIDE DEF p, q
<1>12. p = q
  BY <1>8, <1>9, <1>10, <1>11
<1> QED BY <1>12 DEF p, q, l

LEMMA LiftEmpty ==
    ASSUME NEW scaled, NEW rows
    PROVE  Lift(EmptyBag, scaled, rows) = EmptyBag
<1>1. DOMAIN EmptyBag = {}
  BY DEF EmptyBag, SetToBag
<1> QED BY <1>1 DEF Lift, EmptyBag, SetToBag

LEMMA LiftJoins ==
    ASSUME NEW X, NEW s \in Seq(BagsOf(X)), NEW scaled, NEW rows,
           NEW t, t = [i \in DOMAIN s |-> Lift(s[i], scaled, rows)]
    PROVE  JoinBags(t) = Lift(JoinBags(s), scaled, rows)
<1> DEFINE n == Len(s)
           Y == {AtomOf(f, scaled, rows) : f \in X}
<1>1. n \in Nat /\ DOMAIN s = 1..n /\ \A i \in 1..n : s[i] \in BagsOf(X)
  OBVIOUS
<1>2. \A i \in 1..n : Lift(s[i], scaled, rows) \in BagsOf(Y)
  <2> TAKE i \in 1..n
  <2> DEFINE b == s[i]
  <2>1. b \in BagsOf(X)
    BY <1>1
  <2> HIDE DEF b
  <2>2. Y = {AtomOf(f, scaled, rows) : f \in X}
    OBVIOUS
  <2> HIDE DEF Y
  <2>3. Lift(b, scaled, rows) \in BagsOf(Y)
    BY <2>1, <2>2, LiftIn
  <2> QED BY <2>3 DEF b
<1> HIDE DEF Y, n
<1>3. t \in Seq(BagsOf(Y)) /\ Len(t) = n /\ \A i \in 1..n : t[i] = Lift(s[i], scaled, rows)
  BY <1>1, <1>2
<1>4. PICK G : JoinTurns(s, X, G)
  BY JoinLoop
<1>5. PICK H : JoinTurns(t, Y, H)
  BY <1>3, JoinLoop
<1> DEFINE T == {k \in 0..n : H[k] = Lift(G[k], scaled, rows)}
<1>6. 0 \in T
  BY <1>1, <1>4, <1>5, LiftEmpty DEF JoinTurns
<1>7. ASSUME NEW k \in 1..n, k - 1 \in T PROVE k \in T
  <2>1. k - 1 \in 0..n /\ k \in 0..n /\ H[k - 1] = Lift(G[k - 1], scaled, rows)
    BY <1>1, <1>7
  <2>2. G[k - 1] \in BagsOf(X)
    BY <1>4, <2>1 DEF JoinTurns, n
  <2>3. G[k] = G[k - 1] (+) s[k] /\ H[k] = H[k - 1] (+) t[k]
    BY <1>3, <1>4, <1>5 DEF JoinTurns, n
  <2>4. H[k] = Lift(G[k - 1], scaled, rows) (+) Lift(s[k], scaled, rows)
    BY <1>3, <2>1, <2>3
  <2>5. s[k] \in BagsOf(X)
    BY <1>1
  <2>6. H[k] = Lift(G[k], scaled, rows)
    BY <2>2, <2>3, <2>4, <2>5, LiftAdds
  <2> QED BY <2>1, <2>6
<1> HIDE DEF T
<1>8. \A k \in 0..n : k \in T
  BY <1>1, <1>6, <1>7, UpTo
<1>9. n \in 0..n
  BY <1>1
<1>10. H[n] = Lift(G[n], scaled, rows)
  BY <1>8, <1>9 DEF T
<1> QED BY <1>3, <1>4, <1>5, <1>10 DEF JoinTurns, n

(* A sum over one element, and over none. *)
LEMMA SumOne ==
    ASSUME NEW b, NEW x
    PROVE  /\ MapThenSumSet(LAMBDA a : Copies(a, b), {}) = 0
           /\ Copies(x, b) \in Int => MapThenSumSet(LAMBDA a : Copies(a, b), {x}) = Copies(x, b)
<1> DEFINE next(S, g, t) == IF t = {} THEN 0
                            ELSE Copies(CHOOSE e \in t : TRUE, b)
                                 + g[t \ {CHOOSE e \in t : TRUE}]
           it(S) == CHOOSE g : g = [t \in SUBSET S |-> next(S, g, t)]
<1>1. ASSUME NEW S PROVE MapThenSumSet(LAMBDA a : Copies(a, b), S) = it(S)[S]
  BY Zenon DEF MapThenSumSet, MapThenFoldSet
<1>2. it({})[{}] = 0
  <2> DEFINE g == [t \in SUBSET {} |-> 0]
  <2>1. g = [t \in SUBSET {} |-> next({}, g, t)]
    OBVIOUS
  <2>2. it({}) = [t \in SUBSET {} |-> next({}, it({}), t)]
    <3> HIDE DEF g, next
    <3> QED BY <2>1
  <2> HIDE DEF it
  <2> QED BY <2>2
<1>3. ASSUME Copies(x, b) \in Int PROVE it({x})[{x}] = Copies(x, b)
  <2> DEFINE g == [t \in SUBSET {x} |-> IF t = {} THEN 0 ELSE Copies(x, b)]
  <2>1. \A t \in SUBSET {x} : t # {} => t = {x} /\ (CHOOSE e \in t : TRUE) = x
    OBVIOUS
  <2>2. {x} \ {x} = {} /\ {} \in SUBSET {x} /\ {x} \in SUBSET {x}
    OBVIOUS
  <2>3. g[{}] = 0
    BY <2>2
  <2>4. ASSUME NEW t \in SUBSET {x} PROVE g[t] = next({x}, g, t)
    <3>1. CASE t = {}
      BY <3>1
    <3>2. CASE t # {}
      <4>1. t = {x} /\ (CHOOSE e \in t : TRUE) = x
        BY <2>1, <3>2
      <4>2. next({x}, g, t) = Copies(x, b) + g[{}]
        BY <2>2, <3>2, <4>1
      <4>3. g[t] = Copies(x, b)
        BY <3>2
      <4> HIDE DEF g, next
      <4> QED BY <1>3, <2>3, <4>2, <4>3
    <3> QED BY <3>1, <3>2
  <2>5. g = [t \in SUBSET {x} |-> next({x}, g, t)]
    <3> HIDE DEF next
    <3> QED BY <2>4
  <2>6. it({x}) = [t \in SUBSET {x} |-> next({x}, it({x}), t)]
    <3> HIDE DEF g, next
    <3> QED BY <2>5
  <2> HIDE DEF it
  <2>7. it({x})[{}] = 0
    BY <2>2, <2>6
  <2>8. it({x})[{x}] = Copies(x, b) + it({x})[{}]
    <3>1. it({x})[{x}] = next({x}, it({x}), {x})
      <4> HIDE DEF next
      <4> QED BY <2>2, <2>6
    <3>2. {x} # {} /\ (CHOOSE e \in {x} : TRUE) = x
      OBVIOUS
    <3> QED BY <2>2, <3>1, <3>2
  <2> QED BY <1>3, <2>7, <2>8
<1> QED BY <1>1, <1>2, <1>3

-----------------------------------------------------------------------------
(* The cells of every column are made of these atoms. *)
Told(ds, A) == \A c \in DOMAIN ds.cols : ds.cols[c].cells \in BagsOf(A)

(* The label of every column tells of its cells. *)
Telling(label, cells, scaled, rows) ==
    label \in BagsOf(ToSet(Features)) /\ cells = Lift(label, scaled, rows)

Matched(ds) ==
    \A c \in DOMAIN ds.cols :
        Telling(ds.cols[c].label, ds.cols[c].cells, ds.stdDone, ds.rows)

LEMMA ProductTold ==
    ASSUME NEW cols, NEW A, \A c \in DOMAIN cols : cols[c].cells \in BagsOf(A),
           NEW part \in Seq(Nat), \A p \in DOMAIN part : part[p] \in DOMAIN cols,
           NEW ind \in Seq(1..Len(part))
    PROVE  /\ Product(cols, part, ind).cells \in BagsOf(A)
           /\ DOMAIN Product(cols, part, ind) = {"label", "cells", "null"}
<1> DEFINE t == [i \in DOMAIN ind |-> cols[part[ind[i]]].cells]
           B == BagsOf(A)
           l == Len(ind)
<1>1. l \in Nat /\ DOMAIN ind = 1..l /\ DOMAIN part = 1..Len(part)
  OBVIOUS
<1>2. \A i \in 1..l : ind[i] \in DOMAIN part
  BY <1>1
<1>3. \A i \in 1..l : t[i] \in B /\ DOMAIN t = 1..l
  BY <1>1, <1>2
<1>4. t = [i \in 1..l |-> t[i]]
  BY <1>1
<1>5. Product(cols, part, ind).cells = JoinBags(t)
      /\ DOMAIN Product(cols, part, ind) = {"label", "cells", "null"}
  BY DEF Product
<1> HIDE DEF t, B, l
<1>6. t \in Seq(B)
  <2>1. t \in [1..l -> B]
    BY <1>3, <1>4
  <2> QED BY <1>1, <2>1
<1>7. JoinBags(t) \in BagsOf(A)
  BY <1>6, JoinIn DEF B
<1> QED BY <1>5, <1>7

LEMMA ProductTelling ==
    ASSUME NEW cols, NEW scaled, NEW rows,
           \A c \in DOMAIN cols : Telling(cols[c].label, cols[c].cells, scaled, rows),
           NEW part, part = [c \in DOMAIN cols |-> c],
           NEW ind \in Seq(DOMAIN cols)
    PROVE  Telling(Product(cols, part, ind).label, Product(cols, part, ind).cells, scaled, rows)
<1> DEFINE s == [i \in DOMAIN ind |-> cols[ind[i]].label]
           t == [i \in DOMAIN ind |-> cols[part[ind[i]]].cells]
           B == BagsOf(ToSet(Features))
           l == Len(ind)
<1>1. l \in Nat /\ DOMAIN ind = 1..l /\ \A i \in 1..l : ind[i] \in DOMAIN cols
  OBVIOUS
<1>2. ASSUME NEW i \in 1..l
      PROVE  s[i] \in B /\ t[i] = Lift(s[i], scaled, rows)
  <2>1. ind[i] \in DOMAIN cols /\ part[ind[i]] = ind[i]
    BY <1>1
  <2>2. s[i] = cols[ind[i]].label /\ t[i] = cols[ind[i]].cells
    BY <1>1, <2>1
  <2> HIDE DEF s, t
  <2> QED BY <2>1, <2>2 DEF Telling
<1>3. DOMAIN s = 1..l /\ DOMAIN t = 1..l /\ s = [i \in 1..l |-> s[i]] /\ t = [i \in 1..l |-> t[i]]
  BY <1>1
<1>4. /\ Product(cols, part, ind).label = JoinBags(s)
      /\ Product(cols, part, ind).cells = JoinBags(t)
  BY DEF Product
<1> HIDE DEF s, t, B, l
<1>5. s \in Seq(B)
  <2>1. \A i \in 1..l : s[i] \in B
    BY <1>2
  <2>2. s = [i \in 1..l |-> s[i]]
    BY <1>3
  <2>3. s \in [1..l -> B]
    BY <2>1, <2>2
  <2> QED BY <1>1, <2>3
<1>6. t = [i \in DOMAIN s |-> Lift(s[i], scaled, rows)]
  <2>1. \A i \in 1..l : t[i] = Lift(s[i], scaled, rows)
    BY <1>2
  <2> QED BY <1>3, <2>1
<1>7. JoinBags(s) \in B /\ JoinBags(t) = Lift(JoinBags(s), scaled, rows)
  BY <1>5, <1>6, JoinIn, LiftJoins DEF B
<1> QED BY <1>4, <1>7 DEF Telling, B

LEMMA PowerTold ==
    ASSUME NEW col, NEW A, col.cells \in BagsOf(A), NEW k \in Nat
    PROVE  /\ Power(col, k).cells \in BagsOf(A)
           /\ DOMAIN Power(col, k) = {"label", "cells", "null"}
<1> DEFINE t == [i \in 1..k |-> col.cells]
           B == BagsOf(A)
<1>1. Power(col, k).cells = JoinBags(t) /\ DOMAIN Power(col, k) = {"label", "cells", "null"}
  BY DEF Power
<1>2. t \in [1..k -> B]
  OBVIOUS
<1> HIDE DEF t, B
<1>3. t \in Seq(B)
  BY <1>2
<1> QED BY <1>1, <1>3, JoinIn DEF B

LEMMA PowerTelling ==
    ASSUME NEW col, NEW scaled, NEW rows, Telling(col.label, col.cells, scaled, rows),
           NEW k \in Nat
    PROVE  Telling(Power(col, k).label, Power(col, k).cells, scaled, rows)
<1> DEFINE s == [i \in 1..k |-> col.label]
           t == [i \in 1..k |-> col.cells]
           B == BagsOf(ToSet(Features))
<1>1. Power(col, k).label = JoinBags(s) /\ Power(col, k).cells = JoinBags(t)
  BY DEF Power
<1>2. s \in [1..k -> B]
  BY DEF Telling
<1>3. t = [i \in DOMAIN s |-> Lift(s[i], scaled, rows)]
  BY DEF Telling
<1> HIDE DEF s, t, B
<1>4. s \in Seq(B)
  BY <1>2
<1>5. JoinBags(s) \in B /\ JoinBags(t) = Lift(JoinBags(s), scaled, rows)
  BY <1>3, <1>4, JoinIn, LiftJoins DEF B
<1> QED BY <1>1, <1>5 DEF Telling, B

(* What a column of an expanded data set is. *)
LEMMA ExpandCols ==
    ASSUME NEW ds, HasFields(ds), IsSeq(ds.cols), NEW k \in Nat, NEW part \in Seq(Nat),
           ExpandOnPartition(ds, k, part).fault = "none"
    PROVE  /\ ExpandOnPartition(ds, k, part).stdDone = ds.stdDone
           /\ ExpandOnPartition(ds, k, part).rows = ds.rows
           /\ ds.fault = "none"
           /\ IsSeq(ExpandOnPartition(ds, k, part).cols)
           /\ \A p \in DOMAIN part : part[p] \in DOMAIN ds.cols
           /\ \A c \in DOMAIN ExpandOnPartition(ds, k, part).cols :
                 LET col == ExpandOnPartition(ds, k, part).cols[c] IN
                 \/ \E d \in DOMAIN ds.cols : col = ds.cols[d]
                 \/ \E ind \in Seq(1..Len(part)) : col = Product(ds.cols, part, ind)
                 \/ \E p \in DOMAIN part : col = Power(ds.cols[part[p]], k)
<1> DEFINE combos == Combinations(Len(part), k)
           products == [c \in DOMAIN combos |-> Product(ds.cols, part, combos[c])]
           powers == [p \in DOMAIN part |-> Power(ds.cols[part[p]], k)]
           cols == ds.cols \o products \o powers
           e == ExpandOnPartition(ds, k, part)
           n == Len(part)
<1>1. e = WithCols(ds, cols) /\ ds.fault = "none" /\ \A p \in ToSet(part) : p \in DOMAIN ds.cols
  BY DEF ExpandOnPartition, Faulty, HasFields
<1>2. n \in Nat /\ DOMAIN part = 1..n /\ combos \in Seq(Seq(1..n))
  <2>1. n \in Nat /\ DOMAIN part = 1..n
    OBVIOUS
  <2> HIDE DEF n
  <2>2. Combinations(n, k) \in Seq(Seq(1..n))
    BY <2>1, CombinationsType
  <2> QED BY <2>1, <2>2 DEF n
<1> HIDE DEF combos, n
<1>3. IsSeq(products) /\ \A c \in DOMAIN products :
             \E ind \in Seq(1..n) : products[c] = Product(ds.cols, part, ind)
  <2>1. Len(combos) \in Nat /\ DOMAIN combos = 1..Len(combos)
        /\ \A c \in DOMAIN combos : combos[c] \in Seq(1..n)
    BY <1>2
  <2>2. products = [c \in 1..Len(combos) |-> products[c]]
    BY <2>1
  <2>3. \A c \in DOMAIN products :
            c \in DOMAIN combos /\ products[c] = Product(ds.cols, part, combos[c])
    OBVIOUS
  <2> HIDE DEF products
  <2> QED BY <2>1, <2>2, <2>3, MadeSeq
<1>4. IsSeq(powers) /\ \A c \in DOMAIN powers : c \in DOMAIN part
                         /\ powers[c] = Power(ds.cols[part[c]], k)
  <2>1. powers = [c \in 1..n |-> powers[c]]
    BY <1>2
  <2>2. \A c \in DOMAIN powers : c \in DOMAIN part /\ powers[c] = Power(ds.cols[part[c]], k)
    OBVIOUS
  <2> HIDE DEF powers
  <2> QED BY <1>2, <2>1, <2>2, MadeSeq
<1> HIDE DEF products, powers
<1> DEFINE front == ds.cols \o products
<1>5. IsSeq(front) /\ IsSeq(cols)
  BY <1>3, <1>4, CatSeq
<1>6. ASSUME NEW c \in DOMAIN cols
      PROVE  \/ \E d \in DOMAIN ds.cols : cols[c] = ds.cols[d]
             \/ \E ind \in Seq(1..n) : cols[c] = Product(ds.cols, part, ind)
             \/ \E p \in DOMAIN part : cols[c] = Power(ds.cols[part[p]], k)
  <2>1. \/ c \in DOMAIN front /\ cols[c] = front[c]
        \/ c - Len(front) \in DOMAIN powers /\ cols[c] = powers[c - Len(front)]
    BY <1>4, <1>5, CatEach
  <2>2. CASE c \in DOMAIN front /\ cols[c] = front[c]
    <3>1. \/ c \in DOMAIN ds.cols /\ front[c] = ds.cols[c]
          \/ c - Len(ds.cols) \in DOMAIN products /\ front[c] = products[c - Len(ds.cols)]
      BY <1>3, <2>2, CatEach
    <3> HIDE DEF front, cols
    <3> QED BY <1>3, <2>2, <3>1
  <2> HIDE DEF front, cols
  <2> QED BY <1>4, <2>1, <2>2
<1> HIDE DEF front, cols, e
<1>7. e.cols = cols /\ e.stdDone = ds.stdDone /\ e.rows = ds.rows
  BY <1>1 DEF WithCols, HasFields
<1>8. \A p \in DOMAIN part : part[p] \in DOMAIN ds.cols
  BY <1>1 DEF ToSet
<1> QED BY <1>1, <1>5, <1>6, <1>7, <1>8 DEF e, n

LEMMA ExpandOneTold ==
    ASSUME NEW ds, HasFields(ds), IsSeq(ds.cols), HasParts(ds), NEW A, Told(ds, A),
           NEW k \in Nat, NEW part \in Seq(Nat),
           ExpandOnPartition(ds, k, part).fault = "none"
    PROVE  /\ HasParts(ExpandOnPartition(ds, k, part)) /\ Told(ExpandOnPartition(ds, k, part), A)
           /\ ExpandOnPartition(ds, k, part).stdDone = ds.stdDone
           /\ ExpandOnPartition(ds, k, part).rows = ds.rows
           /\ Matched(ds) /\ part = [c \in DOMAIN ds.cols |-> c] =>
                 Matched(ExpandOnPartition(ds, k, part))
<1> DEFINE e == ExpandOnPartition(ds, k, part)
<1>1. /\ e.stdDone = ds.stdDone /\ e.rows = ds.rows
      /\ \A p \in DOMAIN part : part[p] \in DOMAIN ds.cols
  BY ExpandCols
<1>2. \A c \in DOMAIN e.cols :
         \/ \E d \in DOMAIN ds.cols : e.cols[c] = ds.cols[d]
         \/ \E ind \in Seq(1..Len(part)) : e.cols[c] = Product(ds.cols, part, ind)
         \/ \E p \in DOMAIN part : e.cols[c] = Power(ds.cols[part[p]], k)
  BY ExpandCols
<1> HIDE DEF e
<1>3. ASSUME NEW c \in DOMAIN e.cols
      PROVE  /\ DOMAIN e.cols[c] = {"label", "cells", "null"}
             /\ e.cols[c].cells \in BagsOf(A)
  <2>1. CASE \E d \in DOMAIN ds.cols : e.cols[c] = ds.cols[d]
    BY <2>1 DEF HasParts, Told
  <2>2. ASSUME NEW ind \in Seq(1..Len(part)), e.cols[c] = Product(ds.cols, part, ind)
        PROVE  /\ DOMAIN e.cols[c] = {"label", "cells", "null"}
               /\ e.cols[c].cells \in BagsOf(A)
    <3>1. \A d \in DOMAIN ds.cols : ds.cols[d].cells \in BagsOf(A)
      BY DEF Told
    <3>2. /\ Product(ds.cols, part, ind).cells \in BagsOf(A)
          /\ DOMAIN Product(ds.cols, part, ind) = {"label", "cells", "null"}
      <4> DEFINE cols == ds.cols
      <4>1. /\ \A d \in DOMAIN cols : cols[d].cells \in BagsOf(A)
            /\ \A p \in DOMAIN part : part[p] \in DOMAIN cols
        BY <1>1, <3>1
      <4> HIDE DEF cols
      <4>2. /\ Product(cols, part, ind).cells \in BagsOf(A)
            /\ DOMAIN Product(cols, part, ind) = {"label", "cells", "null"}
        BY <4>1, ProductTold
      <4> QED BY <4>2 DEF cols
    <3> QED BY <2>2, <3>2
  <2>3. ASSUME NEW p \in DOMAIN part, e.cols[c] = Power(ds.cols[part[p]], k)
        PROVE  /\ DOMAIN e.cols[c] = {"label", "cells", "null"}
               /\ e.cols[c].cells \in BagsOf(A)
    <3>1. ds.cols[part[p]].cells \in BagsOf(A)
      BY <1>1 DEF Told
    <3>2. /\ Power(ds.cols[part[p]], k).cells \in BagsOf(A)
          /\ DOMAIN Power(ds.cols[part[p]], k) = {"label", "cells", "null"}
      <4> DEFINE col == ds.cols[part[p]]
      <4> HIDE DEF col
      <4>1. col.cells \in BagsOf(A)
        BY <3>1 DEF col
      <4>2. /\ Power(col, k).cells \in BagsOf(A)
            /\ DOMAIN Power(col, k) = {"label", "cells", "null"}
        BY <4>1, PowerTold
      <4> QED BY <4>2 DEF col
    <3> QED BY <2>3, <3>2
  <2> QED BY <1>2, <2>1, <2>2, <2>3
<1>4. ASSUME Matched(ds), part = [c \in DOMAIN ds.cols |-> c]
      PROVE  Matched(e)
  <2> SUFFICES ASSUME NEW c \in DOMAIN e.cols
               PROVE  Telling(e.cols[c].label, e.cols[c].cells, ds.stdDone, ds.rows)
    BY <1>1 DEF Matched
  <2>0. 1..Len(part) = DOMAIN ds.cols
    BY <1>4
  <2>1. CASE \E d \in DOMAIN ds.cols : e.cols[c] = ds.cols[d]
    BY <1>4, <2>1 DEF Matched
  <2>2. ASSUME NEW ind \in Seq(1..Len(part)), e.cols[c] = Product(ds.cols, part, ind)
        PROVE  Telling(e.cols[c].label, e.cols[c].cells, ds.stdDone, ds.rows)
    BY <1>4, <2>0, <2>2, ProductTelling DEF Matched
  <2>3. ASSUME NEW p \in DOMAIN part, e.cols[c] = Power(ds.cols[part[p]], k)
        PROVE  Telling(e.cols[c].label, e.cols[c].cells, ds.stdDone, ds.rows)
    BY <1>1, <1>4, <2>3, PowerTelling DEF Matched
  <2> QED BY <1>2, <2>1, <2>2, <2>3
<1>5. HasParts(e) /\ Told(e, A)
  BY <1>3 DEF HasParts, Told
<1> QED BY <1>1, <1>4, <1>5 DEF e

LEMMA ExpandTold ==
    ASSUME NEW ds, HasFields(ds), IsSeq(ds.cols), HasParts(ds), NEW A, Told(ds, A),
           NEW k \in Nat, NEW parts, parts \in Seq(Seq(Nat)),
           Expand(ds, k, parts).fault = "none"
    PROVE  /\ HasParts(Expand(ds, k, parts)) /\ Told(Expand(ds, k, parts), A)
           /\ Expand(ds, k, parts).stdDone = ds.stdDone
           /\ Expand(ds, k, parts).rows = ds.rows
           /\ Matched(ds) /\ parts = <<>> => Matched(Expand(ds, k, parts))
<1>1. CASE parts = <<>>
  <2> DEFINE all == [c \in DOMAIN ds.cols |-> c]
  <2>1. all \in Seq(Nat)
    BY DEF IsSeq
  <2>2. Expand(ds, k, parts) = ExpandOnPartition(ds, k, all)
    BY <1>1 DEF Expand
  <2>3. all = [c \in DOMAIN ds.cols |-> c]
    OBVIOUS
  <2> HIDE DEF all
  <2> QED BY <2>1, <2>2, <2>3, ExpandOneTold
<1>2. CASE parts # <<>>
  <2>1. PICK G : ExpandTurns(ds, k, parts, G)
    BY <1>2, ExpandLoop
  <2> DEFINE n == Len(parts)
             Fine(d) == /\ IsSeq(d.cols) /\ HasParts(d) /\ Told(d, A)
                        /\ d.stdDone = ds.stdDone /\ d.rows = ds.rows
             Upto(d) == HasFields(d) /\ (d.fault = "none" => Fine(d))
             T == {i \in 0..n : Upto(G[i])}
  <2>2. n \in Nat /\ n \in 0..n
    OBVIOUS
  <2>3. Fine(ds) /\ Upto(ds)
    OBVIOUS
  <2> HIDE DEF Upto
  <2>4. 0 \in T
    BY <2>1, <2>2, <2>3 DEF ExpandTurns
  <2>5. ASSUME NEW i \in 1..n, i - 1 \in T PROVE i \in T
    <3> DEFINE d == G[i - 1]
               e == G[i]
    <3>1. Upto(d) /\ i \in 0..n
      BY <2>2, <2>5
    <3>2. e = ExpandOnPartition(d, k, parts[i])
      BY <2>1 DEF ExpandTurns
    <3>3. parts[i] \in Seq(Nat)
      BY <2>2
    <3> HIDE DEF d, e, n
    <3>4. HasFields(d) /\ HasFields(e) /\ (e.fault = "none" => d.fault = "none")
      BY <3>1, <3>2, ExpandFaulty DEF Upto
    <3>5. ASSUME e.fault = "none" PROVE Fine(e)
      <4>1. Fine(d)
        BY <3>1, <3>4, <3>5 DEF Upto
      <4>2. /\ HasParts(e) /\ Told(e, A) /\ e.stdDone = d.stdDone /\ e.rows = d.rows
        BY <3>2, <3>3, <3>4, <3>5, <4>1, ExpandOneTold
      <4>3. IsSeq(e.cols)
        BY <3>2, <3>3, <3>4, <3>5, <4>1, ExpandCols
      <4> QED BY <4>1, <4>2, <4>3
    <3> HIDE DEF Fine
    <3>6. Upto(e)
      BY <3>4, <3>5 DEF Upto
    <3> QED BY <3>1, <3>6 DEF e
  <2> HIDE DEF T, Fine
  <2>6. \A i \in 0..n : i \in T
    BY <2>2, <2>4, <2>5, UpTo
  <2>7. Expand(ds, k, parts) = G[n]
    BY <2>1 DEF ExpandTurns
  <2>8. Upto(G[n])
    BY <2>2, <2>6 DEF T
  <2>9. Fine(G[n])
    BY <2>7, <2>8 DEF Upto
  <2> QED BY <1>2, <2>7, <2>9 DEF Fine
<1> QED BY <1>1, <1>2

-----------------------------------------------------------------------------
(* Before an expansion a column is a single feature. *)
Single(ds) ==
    \A c \in DOMAIN ds.cols : \E f \in ToSet(Features) :
        /\ ds.cols[c].label = SetToBag({f})
        /\ ds.cols[c].cells = SetToBag({AtomOf(f, ds.stdDone, ds.rows)})

Atoms(ds) == {AtomOf(f, ds.stdDone, ds.rows) : f \in ToSet(Features)}

LEMMA OneIn ==
    ASSUME NEW X, NEW x \in X
    PROVE  SetToBag({x}) \in BagsOf(X) /\ DOMAIN SetToBag({x}) = {x}
<1>1. DOMAIN SetToBag({x}) = {x} /\ SetToBag({x}) \in [{x} -> Int]
  BY DEF SetToBag
<1> QED BY <1>1, InBags

LEMMA LiftOne ==
    ASSUME NEW f, NEW scaled, NEW rows
    PROVE  Lift(SetToBag({f}), scaled, rows) = SetToBag({AtomOf(f, scaled, rows)})
<1> DEFINE a == AtomOf(f, scaled, rows)
<1>1. DOMAIN SetToBag({f}) = {f} /\ SetToBag({f})[f] = 1
  BY DEF SetToBag
<1>2. a[1] = f
  BY DEF AtomOf
<1>3. {AtomOf(g, scaled, rows) : g \in DOMAIN SetToBag({f})} = {a}
  BY <1>1
<1>4. Lift(SetToBag({f}), scaled, rows) = [b \in {a} |-> SetToBag({f})[b[1]]]
  BY <1>3 DEF Lift
<1> HIDE DEF a
<1>5. [b \in {a} |-> SetToBag({f})[b[1]]] = [b \in {a} |-> 1]
  BY <1>1, <1>2
<1> QED BY <1>4, <1>5 DEF SetToBag, a

LEMMA SingleTells ==
    ASSUME NEW ds, Single(ds)
    PROVE  Told(ds, Atoms(ds)) /\ Matched(ds)
<1>1. ASSUME NEW c \in DOMAIN ds.cols
      PROVE  /\ ds.cols[c].cells \in BagsOf(Atoms(ds))
             /\ Telling(ds.cols[c].label, ds.cols[c].cells, ds.stdDone, ds.rows)
  <2>1. PICK f \in ToSet(Features) :
           /\ ds.cols[c].label = SetToBag({f})
           /\ ds.cols[c].cells = SetToBag({AtomOf(f, ds.stdDone, ds.rows)})
    BY DEF Single
  <2>2. AtomOf(f, ds.stdDone, ds.rows) \in Atoms(ds)
    BY DEF Atoms
  <2>3. ds.cols[c].cells \in BagsOf(Atoms(ds))
    BY <2>1, <2>2, OneIn
  <2>4. Telling(ds.cols[c].label, ds.cols[c].cells, ds.stdDone, ds.rows)
    BY <2>1, OneIn, LiftOne DEF Telling
  <2> QED BY <2>3, <2>4
<1> QED BY <1>1 DEF Told, Matched

LEMMA NewSingle ==
    ASSUME NEW rows
    PROVE  /\ Single(NewDataSet(rows, Features)) /\ HasParts(NewDataSet(rows, Features))
           /\ NewDataSet(rows, Features).stdDone = FALSE
<1> DEFINE ds == NewDataSet(rows, Features)
<1>1. /\ ds.stdDone = FALSE /\ DOMAIN ds.cols = DOMAIN Features
      /\ \A c \in DOMAIN Features : ds.cols[c] = RawColumn(Features[c])
  BY DEF NewDataSet
<1>2. \A c \in DOMAIN Features : Features[c] \in ToSet(Features)
  BY DEF ToSet
<1>0. \A f : /\ DOMAIN RawColumn(f) = {"label", "cells", "null"}
            /\ RawColumn(f).label = SetToBag({f})
            /\ RawColumn(f).cells = SetToBag({AtomOf(f, FALSE, ds.rows)})
  BY DEF RawColumn, AtomOf
<1> HIDE DEF ds
<1>3. HasParts(ds)
  BY <1>0, <1>1 DEF HasParts
<1>4. Single(ds)
  <2>1. ASSUME NEW c \in DOMAIN Features
        PROVE  /\ ds.cols[c].label = SetToBag({Features[c]})
               /\ ds.cols[c].cells = SetToBag({AtomOf(Features[c], ds.stdDone, ds.rows)})
    BY <1>0, <1>1
  <2> QED BY <1>1, <1>2, <2>1 DEF Single
<1> QED BY <1>1, <1>3, <1>4 DEF ds

LEMMA AmongTells ==
    ASSUME NEW new, NEW old, Among(new, old), new.stdDone = old.stdDone, new.rows = old.rows
    PROVE  /\ Single(old) => Single(new)
           /\ \A A : Told(old, A) => Told(new, A)
           /\ Matched(old) => Matched(new)
<1>1. Single(old) => Single(new)
  BY DEF Among, Single
<1>2. \A A : Told(old, A) => Told(new, A)
  BY DEF Among, Told
<1>3. Matched(old) => Matched(new)
  BY DEF Among, Matched
<1> QED BY <1>1, <1>2, <1>3

LEMMA HarmlessTells ==
    ASSUME NEW ds, IsWhole(ds), HasParts(ds), Single(ds), NEW value
    PROVE  /\ Single(RemoveHarmfulFeatures(ds, value)) /\ HasParts(RemoveHarmfulFeatures(ds, value))
           /\ RemoveHarmfulFeatures(ds, value).stdDone = ds.stdDone
<1> DEFINE all == [c \in DOMAIN ds.cols |-> c]
           good == {c \in DOMAIN ds.cols : ~IsConstant(ds, c, value)}
           keep == Chosen(all, good)
<1>1. all \in Seq(Nat) /\ ToSet(all) = DOMAIN ds.cols
  BY DEF IsWhole, IsSeq, ToSet
<1>2. RemoveHarmfulFeatures(ds, value) = RemoveFeatures(ds, keep)
  BY DEF RemoveHarmfulFeatures
<1>0. RemoveFeatures(ds, keep).rows = ds.rows
  BY <1>2, HarmlessRows DEF SameRows
<1> HIDE DEF all, good
<1>3. keep \in Seq(Nat) /\ ToSet(keep) = ToSet(all) \cap good
  BY <1>1, ChosenIs
<1> HIDE DEF keep
<1>4. \A n \in DOMAIN keep : keep[n] \in DOMAIN ds.cols
  <2>1. \A n \in DOMAIN keep : keep[n] \in ToSet(keep)
    BY DEF ToSet
  <2> QED BY <1>1, <1>3, <2>1
<1>5. /\ Among(RemoveFeatures(ds, keep), ds) /\ HasParts(RemoveFeatures(ds, keep))
      /\ RemoveFeatures(ds, keep).stdDone = ds.stdDone
  BY <1>3, <1>4, RemoveAmong
<1> QED BY <1>0, <1>2, <1>5, AmongTells

(* A data set is standardized with the factors found under the labels of   *)
(* its columns, which are its own.                                         *)
LEMMA OwnScale ==
    ASSUME NEW ds, IsWhole(ds), NEW c \in DOMAIN ds.cols
    PROVE  ScaleOf(ds.cols[c], Factors(ds)) = <<ds.cols[c].label, ds.rows>>
<1> DEFINE m == Len(ds.cols)
           factors == Factors(ds)
           found == Found(ds.cols[c], factors)
<1>1. m \in Nat /\ DOMAIN ds.cols = 1..m
  BY DEF IsWhole, IsSeq
<1>2. DOMAIN factors = 1..m /\ \A i \in 1..m : factors[i] = <<ds.cols[i].label, ds.rows>>
  BY <1>1 DEF Factors
<1>3. found = {i \in 1..m : ds.cols[i].label = ds.cols[c].label}
  BY <1>2 DEF Found
<1>4. found # {} /\ found \subseteq Nat
  BY <1>1, <1>3
<1>5. ScaleOf(ds.cols[c], factors) = IF found = {} THEN Junk ELSE factors[Min(found)]
  BY DEF ScaleOf
<1> HIDE DEF m, factors, found
<1>6. Min(found) \in found
  <2>1. PICK x \in found : \A y \in found : x <= y
    BY <1>4, LeastNatural
  <2> QED BY <2>1 DEF Min
<1> QED BY <1>2, <1>3, <1>4, <1>5, <1>6 DEF factors

LEMMA StandardTells ==
    ASSUME NEW ds, IsWhole(ds), HasParts(ds), Single(ds), ds.stdDone = FALSE
    PROVE  LET e == Standardize(ds, Factors(ds)) IN
           /\ Single(e) /\ HasParts(e) /\ e.stdDone = TRUE /\ e.rows = ds.rows
           /\ DOMAIN e.cols = DOMAIN ds.cols
           /\ \A c \in DOMAIN ds.cols : e.cols[c].label = ds.cols[c].label
<1> DEFINE e == Standardize(ds, Factors(ds))
<1>1. /\ e.stdDone = TRUE /\ e.rows = ds.rows /\ DOMAIN e.cols = DOMAIN ds.cols
      /\ \A c \in DOMAIN ds.cols : e.cols[c] = Scaled(ds.cols[c], ScaleOf(ds.cols[c], Factors(ds)))
  BY DEF Standardize, IsWhole, IsDataSet
<1> HIDE DEF e
<1>2. ASSUME NEW c \in DOMAIN ds.cols
      PROVE  /\ DOMAIN e.cols[c] = {"label", "cells", "null"}
             /\ e.cols[c].label = ds.cols[c].label
             /\ \E f \in ToSet(Features) :
                   /\ e.cols[c].label = SetToBag({f})
                   /\ e.cols[c].cells = SetToBag({AtomOf(f, TRUE, e.rows)})
  <2> DEFINE col == ds.cols[c]
             scale == <<col.label, ds.rows>>
             new == Scaled(col, scale)
  <2>1. e.cols[c] = new
    BY <1>1, OwnScale
  <2>2. DOMAIN col = {"label", "cells", "null"}
    BY DEF HasParts
  <2>3. PICK f \in ToSet(Features) :
           col.label = SetToBag({f}) /\ col.cells = SetToBag({AtomOf(f, FALSE, ds.rows)})
    BY DEF Single
  <2>4. scale = <<SetToBag({f}), ds.rows>>
    BY <2>3
  <2> HIDE DEF col, scale
  <2>5. /\ DOMAIN new = {"label", "cells", "null"} /\ new.label = col.label
        /\ new.cells = SetToBag({<<a[1], scale>> : a \in BagToSet(col.cells)})
    BY <2>2 DEF Scaled
  <2>6. BagToSet(col.cells) = {AtomOf(f, FALSE, ds.rows)}
    BY <2>3 DEF BagToSet, SetToBag
  <2>7. {<<a[1], scale>> : a \in BagToSet(col.cells)} = {<<f, scale>>}
    BY <2>6 DEF AtomOf
  <2>8. <<f, scale>> = AtomOf(f, TRUE, e.rows)
    BY <1>1, <2>4 DEF AtomOf
  <2> HIDE DEF new
  <2>9. new.cells = SetToBag({AtomOf(f, TRUE, e.rows)})
    BY <2>5, <2>7, <2>8
  <2> QED BY <2>1, <2>3, <2>5, <2>9 DEF col
<1>3. HasParts(e)
  BY <1>1, <1>2 DEF HasParts
<1>4. Single(e)
  BY <1>1, <1>2 DEF Single
<1> QED BY <1>1, <1>2, <1>3, <1>4 DEF e

-----------------------------------------------------------------------------
(* Every label once. *)
DistinctTurns(s, A, G) ==
    /\ G \in [0..Len(s) -> Seq(A)]
    /\ G[0] = <<>>
    /\ \A k \in 1..Len(s) :
          G[k] = IF s[k] \in ToSet(G[k - 1]) THEN G[k - 1] ELSE Append(G[k - 1], s[k])
    /\ Distinct(s) = G[Len(s)]

LEMMA DistinctLoop ==
    ASSUME NEW A, NEW s \in Seq(A)
    PROVE  \E G : DistinctTurns(s, A, G)
<1> DEFINE n == Len(s)
           B == Seq(A)
           Turn1(t, e) == IF e \in ToSet(t) THEN t ELSE Append(t, e)
           turn == [k \in 1..n |-> [t \in B |-> Turn1(t, s[k])]]
           it == CHOOSE g : g = [t \in SUBSET (1..n) |-> IF t = {} THEN <<>>
                                        ELSE Turn1(g[t \ {Max(t)}], s[Max(t)])]
<1>1. n \in Nat /\ <<>> \in B /\ DOMAIN s = 1..n
  OBVIOUS
<1>2. turn \in Turns(n, B)
  <2> SUFFICES ASSUME NEW k \in 1..n, NEW t \in B PROVE Turn1(t, s[k]) \in B
    BY DEF Turns
  <2> QED BY <1>1
<1>3. Distinct(s) = it[1..n]
  BY <1>1, Zenon DEF Distinct, FoldLeft, MapThenFoldSet
<1> HIDE DEF n, B, Turn1
<1>4. 1..n \subseteq Nat /\ IsFiniteSet(1..n)
  BY <1>1, FS_Interval
<1>5. \A t \in SUBSET (1..n) : t # {} => Max(t) \in 1..n
  BY <1>4, FS_Subset, MaxUpTo
<1>6. it = [t \in SUBSET (1..n) |-> IF t = {} THEN <<>>
                                  ELSE Turn1(it[t \ {Max(t)}], s[Max(t)])]
  <2>1. PICK g : IsLoop(g, n, B, <<>>, turn)
    <3> HIDE DEF turn
    <3> QED BY <1>1, <1>2, LoopExists
  <2>2. g = [t \in SUBSET (1..n) |-> IF t = {} THEN <<>>
                                    ELSE Turn1(g[t \ {Max(t)}], s[Max(t)])]
    BY <1>5, <2>1 DEF IsLoop
  <2> QED BY <2>2
<1> HIDE DEF it
<1>7. Iterates(it, n, B, <<>>, turn)
  BY <1>5, <1>6 DEF Iterates
<1>8. PICK G : Values(G, n, B, <<>>, turn) /\ G[n] = it[1..n]
  <2> HIDE DEF turn
  <2> QED BY <1>1, <1>2, <1>7, LoopValues
<1>9. G \in [0..n -> B] /\ G[0] = <<>>
  BY <1>8 DEF Values
<1>10. \A k \in 1..n : G[k] = Turn1(G[k - 1], s[k])
  <2> TAKE k \in 1..n
  <2>1. k - 1 \in 0..n
    BY <1>1
  <2>2. G[k - 1] \in B
    BY <1>9, <2>1
  <2>3. G[k] = turn[k][G[k - 1]]
    BY <1>8 DEF Values
  <2> QED BY <1>1, <2>2, <2>3
<1> HIDE DEF turn
<1>11. DistinctTurns(s, A, G)
  BY <1>3, <1>8, <1>9, <1>10 DEF n, B, Turn1, DistinctTurns
<1> QED BY <1>11

(* No entry is there twice. *)
Once(s) == \A i, j \in 1..Len(s) : s[i] = s[j] => i = j

LEMMA AppendOnce ==
    ASSUME NEW A, NEW g \in Seq(A), NEW x \in A
    PROVE  /\ ToSet(Append(g, x)) = ToSet(g) \cup {x}
           /\ Once(g) /\ x \notin ToSet(g) => Once(Append(g, x))
<1> DEFINE h == Append(g, x)
           m == Len(g)
<1>1. m \in Nat /\ DOMAIN g = 1..m /\ DOMAIN h = 1..(m + 1) /\ h[m + 1] = x
      /\ Len(h) = m + 1
      /\ \A i \in 1..m : h[i] = g[i]
  OBVIOUS
<1>2. \A i : i \in 1..(m + 1) <=> i \in 1..m \/ i = m + 1
  BY <1>1
<1> HIDE DEF h, m
<1>3. ToSet(h) = ToSet(g) \cup {x}
  <2>1. {h[i] : i \in DOMAIN h} = {g[i] : i \in DOMAIN g} \cup {x}
    BY <1>1, <1>2, Zenon
  <2> QED BY <2>1 DEF ToSet
<1>4. ASSUME Once(g), x \notin ToSet(g) PROVE Once(h)
  <2> SUFFICES ASSUME NEW i \in 1..(m + 1), NEW j \in 1..(m + 1), h[i] = h[j] PROVE i = j
    BY <1>1 DEF Once
  <2>1. \A n \in 1..m : g[n] # x
    BY <1>1, <1>4 DEF ToSet
  <2> QED BY <1>1, <1>2, <1>4, <2>1 DEF Once, m
<1> QED BY <1>3, <1>4 DEF h

LEMMA DistinctIs ==
    ASSUME NEW s, IsSeq(s)
    PROVE  /\ IsSeq(Distinct(s)) /\ Once(Distinct(s)) /\ ToSet(Distinct(s)) = ToSet(s)
<1> DEFINE A == ToSet(s)
<1>1. s \in Seq(A)
  BY DEF IsSeq
<1> HIDE DEF A
<1>2. PICK G : DistinctTurns(s, A, G)
  BY <1>1, DistinctLoop
<1> DEFINE n == Len(s)
           Right(k) == Once(G[k]) /\ ToSet(G[k]) = {s[i] : i \in 1..k}
           T == {k \in 0..n : Right(k)}
<1>3. n \in Nat /\ DOMAIN s = 1..n /\ G \in [0..n -> Seq(A)] /\ n \in 0..n
  BY <1>1, <1>2 DEF DistinctTurns
<1>4. 0 \in T
  BY <1>2, <1>3 DEF DistinctTurns, ToSet, Once
<1>5. ASSUME NEW k \in 1..n, k - 1 \in T PROVE k \in T
  <2> DEFINE g == G[k - 1]
  <2>1. k - 1 \in 0..n /\ k \in 0..n /\ Right(k - 1)
    BY <1>3, <1>5
  <2>2. g \in Seq(A) /\ s[k] \in A
    BY <1>1, <1>3, <2>1
  <2>3. G[k] = IF s[k] \in ToSet(g) THEN g ELSE Append(g, s[k])
    BY <1>2 DEF DistinctTurns
  <2>4. {s[i] : i \in 1..k} = {s[i] : i \in 1..(k - 1)} \cup {s[k]}
    <3>1. \A i : i \in 1..k <=> i \in 1..(k - 1) \/ i = k
      BY <1>3
    <3> QED BY <3>1, Zenon
  <2>5. Once(g) /\ ToSet(g) = {s[i] : i \in 1..(k - 1)}
    BY <2>1
  <2> HIDE DEF g
  <2>6. CASE s[k] \in ToSet(g)
    BY <2>1, <2>3, <2>4, <2>5, <2>6
  <2>7. CASE s[k] \notin ToSet(g)
    <3>1. G[k] = Append(g, s[k])
      BY <2>3, <2>7
    <3>2. ToSet(Append(g, s[k])) = ToSet(g) \cup {s[k]} /\ Once(Append(g, s[k]))
      BY <2>2, <2>5, <2>7, AppendOnce
    <3> QED BY <2>1, <2>4, <2>5, <3>1, <3>2
  <2> QED BY <2>6, <2>7
<1> HIDE DEF T
<1>6. \A k \in 0..n : k \in T
  BY <1>3, <1>4, <1>5, UpTo
<1>7. Right(n)
  BY <1>3, <1>6 DEF T
<1>8. Distinct(s) = G[n] /\ G[n] \in Seq(A)
  BY <1>2, <1>3 DEF DistinctTurns
<1>9. IsSeq(G[n])
  <2> DEFINE g == G[n]
  <2>1. g \in Seq(A)
    BY <1>8
  <2> HIDE DEF g
  <2>2. Len(g) \in Nat /\ g = [i \in 1..Len(g) |-> g[i]]
    BY <2>1
  <2>3. IsSeq(g)
    BY <2>2, MadeSeq
  <2> QED BY <2>3 DEF g
<1> QED BY <1>3, <1>7, <1>8, <1>9 DEF ToSet

LEMMA OnceCounts ==
    ASSUME NEW s, IsSeq(s), Once(s)
    PROVE  IsFiniteSet(ToSet(s)) /\ Cardinality(ToSet(s)) = Len(s)
<1> DEFINE n == Len(s)
<1>1. n \in Nat /\ DOMAIN s = 1..n
  BY DEF IsSeq
<1>2. s \in Bijection(1..n, ToSet(s))
  <2>1. \A i, j \in 1..n : s[i] = s[j] => i = j
    BY DEF Once
  <2>2. s \in [1..n -> ToSet(s)]
    BY <1>1 DEF IsSeq
  <2> QED BY <1>1, <2>1, <2>2 DEF Bijection, Injection, Surjection, IsInjective, ToSet
<1> HIDE DEF n
<1>3. IsFiniteSet(1..n) /\ Cardinality(1..n) = n
  BY <1>1, FS_Interval
<1> QED BY <1>2, <1>3, FS_Bijection DEF n, ExistsBijection

-----------------------------------------------------------------------------
(* The lines of a file. *)
AtIn(f, param, s) == {i \in DOMAIN f : f[i].param = param /\ f[i].solver = s}
SaidIn(f, param, s) == {f[i].value : i \in AtIn(f, param, s)}
Shifted(S, n) == {n + i : i \in S}

LEMMA AppendedAt ==
    ASSUME NEW f, NEW new, IsSeq(f), IsSeq(new), NEW param, NEW s
    PROVE  /\ AtIn(f \o new, param, s)
                  = AtIn(f, param, s) \cup Shifted(AtIn(new, param, s), Len(f))
           /\ SaidIn(f \o new, param, s) = SaidIn(f, param, s) \cup SaidIn(new, param, s)
           /\ IsSeq(f \o new)
<1> DEFINE g == f \o new
           n == Len(f)
           m == Len(new)
           A == ToSet(f) \cup ToSet(new)
<1>1. f \in Seq(A) /\ new \in Seq(A)
  BY DEF IsSeq
<1> HIDE DEF A
<1>2. /\ n \in Nat /\ m \in Nat /\ DOMAIN f = 1..n /\ DOMAIN new = 1..m
      /\ DOMAIN g = 1..(n + m)
  BY <1>1
<1>3. /\ \A i \in 1..n : g[i] = f[i]
      /\ \A i \in 1..m : g[n + i] = new[i]
  BY <1>1
<1>4. IsSeq(g)
  BY CatSeq
<1> HIDE DEF g, n, m
<1>5. \A i : i \in 1..(n + m) <=> i \in 1..n \/ \E j \in 1..m : i = n + j
  <2>1. ASSUME NEW i \in 1..(n + m), i \notin 1..n PROVE i - n \in 1..m /\ i = n + (i - n)
    BY <1>2, <2>1
  <2>2. \A i \in 1..n : i \in 1..(n + m)
    BY <1>2
  <2>3. \A j \in 1..m : n + j \in 1..(n + m)
    BY <1>2
  <2> QED BY <2>1, <2>2, <2>3
<1>6. AtIn(g, param, s) = AtIn(f, param, s) \cup {n + i : i \in AtIn(new, param, s)}
  <2>1. ASSUME NEW i \in AtIn(g, param, s)
        PROVE  i \in AtIn(f, param, s) \/ \E j \in AtIn(new, param, s) : i = n + j
    <3>1. i \in 1..(n + m) /\ g[i].param = param /\ g[i].solver = s
      BY <1>2 DEF AtIn
    <3>2. CASE i \in 1..n
      BY <1>2, <1>3, <3>1, <3>2 DEF AtIn
    <3>3. ASSUME NEW j \in 1..m, i = n + j PROVE j \in AtIn(new, param, s)
      BY <1>2, <1>3, <3>1, <3>3 DEF AtIn
    <3> QED BY <1>5, <3>1, <3>2, <3>3
  <2>2. ASSUME NEW i \in AtIn(f, param, s) PROVE i \in AtIn(g, param, s)
    BY <1>2, <1>3, <1>5 DEF AtIn
  <2>3. ASSUME NEW j \in AtIn(new, param, s) PROVE n + j \in AtIn(g, param, s)
    BY <1>2, <1>3, <1>5 DEF AtIn
  <2> QED BY <2>1, <2>2, <2>3
<1>7. SaidIn(g, param, s) = SaidIn(f, param, s) \cup SaidIn(new, param, s)
  <2>1. \A i \in AtIn(f, param, s) : g[i] = f[i]
    BY <1>2, <1>3 DEF AtIn
  <2>2. \A i \in AtIn(new, param, s) : g[n + i] = new[i]
    BY <1>2, <1>3 DEF AtIn
  <2> QED BY <1>6, <2>1, <2>2 DEF SaidIn
<1> QED BY <1>4, <1>6, <1>7 DEF g, n, Shifted

LEMMA LinesAt ==
    ASSUME NEW param, NEW s, NEW values, IsSeq(values), NEW p, NEW t
    PROVE  /\ IsSeq(Lines(param, s, values))
           /\ p # param \/ t # s => AtIn(Lines(param, s, values), p, t) = {}
                                    /\ SaidIn(Lines(param, s, values), p, t) = {}
           /\ AtIn(Lines(param, s, values), param, s) = DOMAIN values
           /\ SaidIn(Lines(param, s, values), param, s) = ToSet(values)
<1> DEFINE l == Lines(param, s, values)
           m == Len(values)
<1>1. m \in Nat /\ DOMAIN values = 1..m
  BY DEF IsSeq
<1>2. l = [i \in 1..m |-> Line(param, s, values[i])]
  BY <1>1 DEF Lines
<1>3. \A i : Line(param, s, values[i]).param = param /\ Line(param, s, values[i]).solver = s
             /\ Line(param, s, values[i]).value = values[i]
  BY DEF Line
<1> HIDE DEF l, m
<1>4. DOMAIN l = 1..m /\ \A i \in 1..m : l[i].param = param /\ l[i].solver = s
                                          /\ l[i].value = values[i]
  BY <1>2, <1>3
<1>5. IsSeq(l)
  <2>1. l = [i \in 1..m |-> l[i]]
    BY <1>2
  <2> QED BY <1>1, <2>1, MadeSeq
<1>6. p # param \/ t # s => AtIn(l, p, t) = {}
  BY <1>4 DEF AtIn
<1>7. AtIn(l, param, s) = DOMAIN values
  BY <1>1, <1>4 DEF AtIn
<1>8. SaidIn(l, param, s) = ToSet(values)
  BY <1>1, <1>4, <1>7 DEF SaidIn, ToSet
<1>9. AtIn(l, p, t) = {} => SaidIn(l, p, t) = {}
  BY DEF SaidIn
<1> QED BY <1>5, <1>6, <1>7, <1>8, <1>9 DEF l

LEMMA LineAt ==
    ASSUME NEW param, NEW s, NEW value, NEW p, NEW t
    PROVE  /\ IsSeq(<<Line(param, s, value)>>)
           /\ p # param \/ t # s => AtIn(<<Line(param, s, value)>>, p, t) = {}
           /\ AtIn(<<Line(param, s, value)>>, param, s) = {1}
<1> DEFINE values == <<value>>
<1>1. values = [i \in 1..1 |-> values[i]] /\ DOMAIN values = {1} /\ 1 \in Nat
  OBVIOUS
<1>2. Lines(param, s, values) = <<Line(param, s, value)>>
  BY DEF Lines
<1> HIDE DEF values
<1>3. IsSeq(values)
  BY <1>1, MadeSeq
<1> QED BY <1>1, <1>2, <1>3, LinesAt

(* What the file says of the weights of a solver whose labels these are. *)
WeightsOf(f, s, labels) ==
    /\ Cardinality(AtIn(f, "freeweight", s)) = 1
    /\ \A a \in AtIn(f, "freeweight", s), w \in AtIn(f, "weight", s) : a < w
    /\ SaidIn(f, "weight", s) = ToSet(labels)
    /\ Cardinality(AtIn(f, "weight", s)) = Cardinality(SaidIn(f, "weight", s))

LEMMA WeightsAreWritten ==
    ASSUME NEW f, IsSeq(f), NEW s, NEW labels, IsSeq(labels),
           AtIn(f, "freeweight", s) = {}, AtIn(f, "weight", s) = {},
           NEW g, g = f \o (<<Line("freeweight", s, <<>>)>> \o Lines("weight", s, Distinct(labels)))
    PROVE  WeightsOf(g, s, labels)
<1> DEFINE one == <<Line("freeweight", s, <<>>)>>
           all == Distinct(labels)
           more == Lines("weight", s, all)
           new == one \o more
           n == Len(f)
           m == Len(all)
<1>1. n \in Nat /\ IsSeq(all) /\ Once(all) /\ ToSet(all) = ToSet(labels)
  BY DistinctIs DEF IsSeq
<1>2. m \in Nat /\ DOMAIN all = 1..m
  BY <1>1 DEF IsSeq
<1>3. Len(one) = 1
  OBVIOUS
<1> HIDE DEF all, n, m
<1>4. /\ IsSeq(one) /\ AtIn(one, "freeweight", s) = {1} /\ AtIn(one, "weight", s) = {}
  BY LineAt
<1>5. /\ IsSeq(more) /\ AtIn(more, "freeweight", s) = {} /\ AtIn(more, "weight", s) = 1..m
      /\ SaidIn(more, "weight", s) = ToSet(all)
  BY <1>1, <1>2, LinesAt
<1>6. SaidIn(one, "weight", s) = {} /\ SaidIn(f, "weight", s) = {}
  BY <1>4 DEF SaidIn
<1> HIDE DEF one, more
<1>7. /\ IsSeq(new)
      /\ AtIn(new, "freeweight", s) = {1}
      /\ AtIn(new, "weight", s) = Shifted(1..m, 1)
      /\ SaidIn(new, "weight", s) = ToSet(labels)
  <2>1. /\ AtIn(new, "freeweight", s) = {1} \cup Shifted({}, 1)
        /\ AtIn(new, "weight", s) = {} \cup Shifted(1..m, 1)
        /\ SaidIn(new, "weight", s) = {} \cup ToSet(all)
        /\ IsSeq(new)
    <3>1. \A p : /\ AtIn(new, p, s) = AtIn(one, p, s) \cup Shifted(AtIn(more, p, s), Len(one))
                  /\ SaidIn(new, p, s) = SaidIn(one, p, s) \cup SaidIn(more, p, s)
                  /\ IsSeq(new)
      <4> TAKE p
      <4> QED BY <1>4, <1>5, AppendedAt
    <3> HIDE DEF new
    <3> QED BY <1>3, <1>4, <1>5, <1>6, <3>1
  <2> HIDE DEF new
  <2>2. Shifted({}, 1) = {}
    BY DEF Shifted
  <2> QED BY <1>1, <2>1, <2>2
<1>8. g = f \o new
  BY DEF one, more, all
<1> HIDE DEF new
<1>9. /\ AtIn(g, "freeweight", s) = Shifted({1}, n)
      /\ AtIn(g, "weight", s) = Shifted(Shifted(1..m, 1), n)
      /\ SaidIn(g, "weight", s) = ToSet(labels)
  <2>1. \A p : /\ AtIn(g, p, s) = AtIn(f, p, s) \cup Shifted(AtIn(new, p, s), Len(f))
                /\ SaidIn(g, p, s) = SaidIn(f, p, s) \cup SaidIn(new, p, s)
    <3> TAKE p
    <3> DEFINE h == f \o new
    <3>1. /\ AtIn(h, p, s) = AtIn(f, p, s) \cup Shifted(AtIn(new, p, s), Len(f))
          /\ SaidIn(h, p, s) = SaidIn(f, p, s) \cup SaidIn(new, p, s)
      BY <1>7, AppendedAt
    <3>2. g = h
      BY <1>8
    <3> HIDE DEF h
    <3> QED BY <3>1, <3>2
  <2> QED BY <1>6, <1>7, <2>1 DEF n
<1>10. AtIn(g, "freeweight", s) = {n + 1}
  BY <1>9 DEF Shifted
<1>11. AtIn(g, "weight", s) = (n + 2)..(n + 1 + m)
  <2>1. \A j \in 1..m : n + (1 + j) \in (n + 2)..(n + 1 + m)
    BY <1>1, <1>2
  <2>2. \A x \in (n + 2)..(n + 1 + m) : x - n - 1 \in 1..m /\ n + (1 + (x - n - 1)) = x
    BY <1>1, <1>2
  <2>3. Shifted(Shifted(1..m, 1), n) = {n + (1 + j) : j \in 1..m}
    BY DEF Shifted
  <2>4. {n + (1 + j) : j \in 1..m} = (n + 2)..(n + 1 + m)
    BY <2>1, <2>2
  <2> QED BY <1>9, <2>3, <2>4
<1>12. Cardinality(AtIn(g, "weight", s)) = m
  <2>1. Cardinality((n + 2)..(n + 1 + m)) = m
    <3> DEFINE a == n + 2
               b == n + 1 + m
    <3>1. a \in Int /\ b \in Int /\ (a > b => m = 0) /\ (a <= b => b - a + 1 = m)
      BY <1>1, <1>2
    <3> HIDE DEF a, b
    <3>2. Cardinality(a..b) = IF a > b THEN 0 ELSE b - a + 1
      BY <3>1, FS_Interval
    <3>3. Cardinality(a..b) = m
      <4>1. a > b \/ a <= b
        BY <3>1
      <4> QED BY <3>1, <3>2, <4>1
    <3> QED BY <3>3 DEF a, b
  <2> QED BY <1>11, <2>1
<1>13. Cardinality(SaidIn(g, "weight", s)) = m
  BY <1>1, <1>9, OnceCounts DEF m
<1>14. Cardinality(AtIn(g, "freeweight", s)) = 1
  BY <1>10, FS_Singleton
<1>15. \A w \in AtIn(g, "weight", s) : n + 1 < w
  <2>1. \A w \in (n + 2)..(n + 1 + m) : n + 1 < w
    BY <1>1, <1>2
  <2> QED BY <1>11, <2>1
<1> QED BY <1>9, <1>10, <1>12, <1>13, <1>14, <1>15 DEF WeightsOf

-----------------------------------------------------------------------------
(* The stage at which the features are standardized has been passed. *)
Past(s) ==
    \/ pc \in {"flags", "select", "expand", "reselect", "learn", "test", "done"}
    \/ pc \in {"outputs", "features"} /\ s < solver

(* What the cells of a training set may be made of: its features, and once *)
(* they are standardized those whose factors are written down.             *)
Known(s) ==
    {a \in Atoms(train[s]) :
        Past(s) /\ input.featureStd => a[2] \in SaidIn(file, "stdfactor", s)}

Columned(s) ==
    /\ HasParts(train[s])
    /\ Told(train[s], Known(s))
    /\ input.fePartitions = <<>> => Matched(train[s])
    /\ pc \in Stages /\ ~Past(s) => Single(train[s]) /\ train[s].stdDone = FALSE
    /\ Past(s) /\ input.featureStd => train[s].stdDone = TRUE
    /\ \A v \in SaidIn(file, "stdfactor", s) : v = <<v[1], train[s].rows>>

Noted(s) ==
    /\ pc \in Stages /\ ~Past(s) => SaidIn(file, "stdfactor", s) = {}
    /\ pc \in Stages /\ ~Written(s) =>
          AtIn(file, "freeweight", s) = {} /\ AtIn(file, "weight", s) = {}
    /\ Written(s) => Made(s)
    /\ Written(s) /\ input.la = "RR" => WeightsOf(file, s, Labels(train[s]))

Tale(s) == Noted(s) /\ (Made(s) => Columned(s))

MInv ==
    /\ IsSeq(file)
    /\ pc \in {"names", "flags"} => solver = 1
    /\ \A s \in Solvers : Tale(s)

SameLines(s) ==
    \A p \in {"stdfactor", "freeweight", "weight"} :
        AtIn(file', p, s) = AtIn(file, p, s) /\ SaidIn(file', p, s) = SaidIn(file, p, s)

LEMMA InitMInv == Init => MInv
<1> SUFFICES ASSUME Init PROVE MInv
  OBVIOUS
<1>1. file = <<Line("training", 0, <<>>)>> /\ pc = "create"
  BY DEF Init, Plain
<1>2. IsSeq(file)
  BY <1>1, LineAt
<1>3. ASSUME NEW s \in Solvers PROVE Tale(s)
  <2>1. \A p \in {"stdfactor", "freeweight", "weight"} : AtIn(file, p, s) = {}
    BY <1>1, LineAt
  <2>2. SaidIn(file, "stdfactor", s) = {}
    BY <2>1 DEF SaidIn
  <2>3. ~Made(s) /\ ~Written(s)
    BY <1>1 DEF Init, Made, Written
  <2> QED BY <2>1, <2>2, <2>3 DEF Tale, Noted
<1> QED BY <1>1, <1>2, <1>3 DEF MInv

(* Nothing is said of a solver, and its place among the stages stays. *)
LEMMA TaleStays ==
    ASSUME NEW s \in Solvers, Tale(s), SameLines(s),
           train'[s] = train[s], input' = input,
           pc \in Stages, pc' \in Stages \cup Terminal,
           pc' \in Stages \cup {"done"} => (Past(s)' <=> Past(s)) /\ (Written(s)' <=> Written(s))
    PROVE  Tale(s)'
<1>1. \A p \in {"stdfactor", "freeweight", "weight"} :
          AtIn(file', p, s) = AtIn(file, p, s) /\ SaidIn(file', p, s) = SaidIn(file, p, s)
  BY DEF SameLines
<1>2. Past(s)' => Past(s)
  BY DEF Past, Stages, Later
<1>3. Written(s)' => Written(s)
  BY DEF Written, Stages, Later
<1>4. pc' \in Stages => (Past(s)' <=> Past(s)) /\ (Written(s)' <=> Written(s))
  OBVIOUS
<1>5. WeightsOf(file', s, Labels(train'[s])) <=> WeightsOf(file, s, Labels(train[s]))
  BY <1>1 DEF WeightsOf
<1>6. Noted(s)'
  BY <1>1, <1>3, <1>4, <1>5 DEF Tale, Noted, Made
<1>7. ASSUME Made(s)' PROVE Columned(s)'
  <2>1. Columned(s)
    BY <1>7 DEF Tale, Made
  <2>2. Known(s) \subseteq Known(s)'
    BY <1>1, <1>2 DEF Known
  <2>3. Told(train[s], Known(s)')
    <3> DEFINE A == Known(s)
               B == Known(s)'
    <3>1. Told(train[s], A) /\ A \subseteq B
      BY <2>1, <2>2 DEF Columned
    <3> HIDE DEF A, B
    <3>2. BagsOf(A) \subseteq BagsOf(B)
      BY <3>1 DEF BagsOf
    <3>3. Told(train[s], B)
      BY <3>1, <3>2 DEF Told
    <3> QED BY <3>3 DEF B
  <2> QED BY <1>1, <1>2, <1>4, <2>1, <2>3 DEF Columned
<1> QED BY <1>6, <1>7 DEF Tale

LEMMA SameFile ==
    ASSUME file' = file
    PROVE  \A s : SameLines(s)
BY DEF SameLines

(* The program stops. *)
LEMMA StopTale ==
    ASSUME RInv, MInv, pc \in Stages, NEW outcomes, outcomes \subseteq Terminal \ {"done"},
           Stop(outcomes)
    PROVE  MInv'
<1>1. /\ pc' \in Terminal \ {"done"} /\ input' = input /\ train' = train /\ file' = file
      /\ solver' = solver
  BY DEF Stop, data
<1>2. pc' \notin Stages \cup {"done"} /\ pc' \notin {"names", "flags"}
  BY <1>1 DEF Stages, Later, Terminal
<1>3. \A s \in Solvers : Tale(s)'
  BY <1>1, <1>2, SameFile, TaleStays DEF MInv
<1> QED BY <1>1, <1>2, <1>3 DEF MInv

(* A step that touches one solver. *)
LEMMA TaleMoves ==
    ASSUME RInv, MInv, pc \in Stages, pc' \in Stages \cup {"done"}, input' = input,
           IsSeq(file'), pc' \in {"names", "flags"} => solver' = 1,
           NEW z \in Solvers, Tale(z)',
           \A s \in Solvers : s # z =>
               /\ train'[s] = train[s] /\ SameLines(s)
               /\ (Past(s)' <=> Past(s)) /\ (Written(s)' <=> Written(s))
    PROVE  MInv'
<1>1. pc' \in Stages \cup Terminal
  BY DEF Terminal
<1>2. ASSUME NEW s \in Solvers PROVE Tale(s)'
  <2>1. CASE s = z
    BY <2>1
  <2>2. CASE s # z
    BY <1>1, <2>2, TaleStays DEF MInv
  <2> QED BY <2>1, <2>2
<1> QED BY <1>2 DEF MInv

LEMMA TaleQuiet ==
    ASSUME RInv, MInv, pc \in Stages, pc' \in Stages \cup {"done"}, input' = input,
           train' = train, IsSeq(file'), pc' \in {"names", "flags"} => solver' = 1,
           \A s \in Solvers :
               SameLines(s) /\ (Past(s)' <=> Past(s)) /\ (Written(s)' <=> Written(s))
    PROVE  MInv'
<1>1. pc' \in Stages \cup Terminal
  BY DEF Terminal
<1>2. ASSUME NEW s \in Solvers PROVE Tale(s)'
  BY <1>1, TaleStays DEF MInv
<1> QED BY <1>2 DEF MInv

(* Before the features are standardized the columns are single features. *)
LEMMA EarlyTale ==
    ASSUME NEW z \in Solvers, Tale(z), SameLines(z), input' = input,
           pc \in Stages, ~Past(z), ~Past(z)', ~Written(z), ~Written(z)',
           HasParts(train'[z]), Single(train'[z]), train'[z].stdDone = FALSE
    PROVE  Tale(z)'
<1>1. /\ SaidIn(file', "stdfactor", z) = {}
      /\ AtIn(file', "freeweight", z) = {} /\ AtIn(file', "weight", z) = {}
  BY DEF SameLines, Tale, Noted
<1>2. Noted(z)'
  BY <1>1 DEF Noted
<1>3. Known(z)' = Atoms(train'[z])
  BY DEF Known
<1>4. Told(train'[z], Atoms(train'[z])) /\ Matched(train'[z])
  BY SingleTells
<1>5. Columned(z)'
  BY <1>1, <1>3, <1>4 DEF Columned
<1> QED BY <1>2, <1>5 DEF Tale

(* Later they change, and what they are made of does not. *)
LEMMA LateTale ==
    ASSUME NEW z \in Solvers, Tale(z), SameLines(z), input' = input, Made(z),
           pc \in Stages, Past(z), Past(z)', ~Written(z), ~Written(z)',
           HasParts(train'[z]),
           \A A : Told(train[z], A) => Told(train'[z], A),
           input.fePartitions = <<>> /\ Matched(train[z]) => Matched(train'[z]),
           train'[z].stdDone = train[z].stdDone, train'[z].rows = train[z].rows
    PROVE  Tale(z)'
<1>1. /\ SaidIn(file', "stdfactor", z) = SaidIn(file, "stdfactor", z)
      /\ AtIn(file', "freeweight", z) = {} /\ AtIn(file', "weight", z) = {}
  BY DEF SameLines, Tale, Noted
<1>2. Noted(z)'
  BY <1>1 DEF Noted
<1>3. Known(z)' = Known(z)
  <2>1. Atoms(train'[z]) = Atoms(train[z])
    BY DEF Atoms
  <2> QED BY <1>1, <2>1 DEF Known
<1>4. Columned(z)
  BY DEF Tale
<1>5. Told(train'[z], Known(z)')
  BY <1>3, <1>4 DEF Columned
<1>6. Columned(z)'
  BY <1>1, <1>4, <1>5 DEF Columned
<1> QED BY <1>2, <1>6 DEF Tale

-----------------------------------------------------------------------------
LEMMA SolverTurn ==
    ASSUME solver \in Solvers, NEW head, NEW exit, NextSolver(head, exit)
    PROVE  \/ pc' = head /\ solver' = solver + 1
              /\ \A s \in Solvers : s < solver' <=> s < solver \/ s = solver
           \/ pc' = exit /\ solver' = 1
              /\ \A s \in Solvers : s < solver \/ s = solver
BY NumSolversAssumption DEF NextSolver, Solvers

LEMMA NoneBefore == \A s \in Solvers : ~(s < 1)
BY NumSolversAssumption DEF Solvers

LEMMA CreateTale ==
    ASSUME RInv, MInv, Create
    PROVE  MInv'
<1>1. /\ pc = "create" /\ input' = input /\ file' = file /\ solver \in Solvers
      /\ NextSolver("create", "harmful") /\ DOMAIN train = Solvers
  BY DEF Create, RInv, Places
<1>2. pc' \in {"create", "harmful"} /\ pc \in Stages
  BY <1>1, SolverTurn DEF Stages
<1>3. \A s \in Solvers : ~Past(s) /\ ~Past(s)' /\ ~Written(s) /\ ~Written(s)'
  BY <1>1, <1>2 DEF Past, Written
<1>4. PICK rows : train' = [train EXCEPT ![solver] = NewDataSet(rows, Features)]
  BY DEF Create
<1>5. \A s \in Solvers : SameLines(s)
  BY <1>1, SameFile
<1>6. /\ train'[solver] = NewDataSet(rows, Features)
      /\ \A s \in Solvers : s # solver => train'[s] = train[s]
  BY <1>1, <1>4
<1>7. PICK z \in Solvers : z = solver
  BY <1>1
<1>8. HasParts(train'[z]) /\ Single(train'[z]) /\ train'[z].stdDone = FALSE
  BY <1>6, <1>7, NewSingle
<1>9. Tale(z)'
  BY <1>1, <1>2, <1>3, <1>5, <1>8, EarlyTale DEF MInv
<1>10. IsSeq(file')
  BY <1>1 DEF MInv
<1> QED BY <1>1, <1>2, <1>3, <1>5, <1>6, <1>7, <1>9, <1>10, TaleMoves DEF Stages

LEMMA HarmfulTale ==
    ASSUME RInv, MInv, RemoveHarmful
    PROVE  MInv'
<1>1. /\ pc = "harmful" /\ input' = input /\ file' = file
      /\ NextSolver("harmful", "names")
  BY DEF RemoveHarmful, data
<1>2. pc \in Stages \ {"create"}
  BY <1>1 DEF Stages
<1>3. /\ solver \in Solvers /\ DOMAIN train = Solvers /\ IsWhole(train[solver])
      /\ Made(solver)
  BY <1>2, StageFacts DEF RInv, MadeInTurn
<1>4. pc' \in {"harmful", "names"} /\ (pc' = "names" => solver' = 1)
  BY <1>1, <1>3, SolverTurn
<1>5. \A s \in Solvers : ~Past(s) /\ ~Past(s)' /\ ~Written(s) /\ ~Written(s)'
  BY <1>1, <1>4 DEF Past, Written
<1>6. \A s \in Solvers : SameLines(s)
  BY <1>1, SameFile
<1>7. /\ train'[solver] = RemoveHarmfulFeatures(train[solver], input.value)
      /\ \A s \in Solvers : s # solver => train'[s] = train[s]
  BY <1>3 DEF RemoveHarmful
<1>8. PICK z \in Solvers : z = solver
  BY <1>3
<1>9. HasParts(train[z]) /\ Single(train[z]) /\ train[z].stdDone = FALSE
  BY <1>2, <1>3, <1>5, <1>8 DEF MInv, Tale, Columned
<1>10. HasParts(train'[z]) /\ Single(train'[z]) /\ train'[z].stdDone = FALSE
  BY <1>3, <1>7, <1>8, <1>9, HarmlessTells
<1>11. Tale(z)'
  BY <1>1, <1>2, <1>5, <1>6, <1>10, EarlyTale DEF MInv
<1>12. IsSeq(file')
  BY <1>1 DEF MInv
<1>13. pc' \in Stages \cup {"done"} /\ (pc' \in {"names", "flags"} => solver' = 1)
  BY <1>4 DEF Stages, Later
<1> QED BY <1>1, <1>2, <1>5, <1>6, <1>7, <1>8, <1>11, <1>12, <1>13, TaleMoves

(* Lines that are not about a solver. *)
LEMMA PlainLines ==
    ASSUME IsSeq(file), NEW lines, IsSeq(lines), file' = file \o lines,
           \A s \in Solvers : \A p \in {"stdfactor", "freeweight", "weight"} :
               AtIn(lines, p, s) = {}
    PROVE  IsSeq(file') /\ \A s \in Solvers : SameLines(s)
<1>1. IsSeq(file')
  BY AppendedAt
<1>2. ASSUME NEW s \in Solvers, NEW p \in {"stdfactor", "freeweight", "weight"}
      PROVE  AtIn(file', p, s) = AtIn(file, p, s) /\ SaidIn(file', p, s) = SaidIn(file, p, s)
  <2>1. AtIn(lines, p, s) = {} /\ SaidIn(lines, p, s) = {}
    BY DEF SaidIn
  <2>2. Shifted({}, Len(file)) = {}
    BY DEF Shifted
  <2> DEFINE g == file \o lines
  <2>3. /\ AtIn(g, p, s) = AtIn(file, p, s) \cup Shifted(AtIn(lines, p, s), Len(file))
        /\ SaidIn(g, p, s) = SaidIn(file, p, s) \cup SaidIn(lines, p, s)
    BY AppendedAt
  <2>4. file' = g
    OBVIOUS
  <2> HIDE DEF g
  <2> QED BY <2>1, <2>2, <2>3, <2>4
<1> QED BY <1>1, <1>2 DEF SameLines

LEMMA NamesTale ==
    ASSUME RInv, MInv, WriteSolverNames
    PROVE  MInv'
<1>1. /\ pc = "names" /\ pc' = "outputs" /\ solver' = solver /\ input' = input
      /\ train' = train /\ file' = Append(file, Plain("solvers"))
  BY DEF WriteSolverNames, data, Goto
<1>2. solver = 1 /\ IsSeq(file)
  BY <1>1 DEF MInv
<1>3. \A s \in Solvers : ~Past(s) /\ ~Past(s)' /\ ~Written(s) /\ ~Written(s)'
  BY <1>1, <1>2, NoneBefore DEF Past, Written
<1> DEFINE lines == <<Line("solvers", 0, <<>>)>>
<1>4. IsSeq(lines) /\ \A s \in Solvers : \A p \in {"stdfactor", "freeweight", "weight"} :
                         AtIn(lines, p, s) = {}
  BY LineAt
<1>5. file' = file \o lines
  <2> DEFINE A == ToSet(file) \cup {Line("solvers", 0, <<>>)}
  <2>1. file \in Seq(A) /\ Line("solvers", 0, <<>>) \in A
    BY <1>2 DEF IsSeq
  <2> HIDE DEF A
  <2> QED BY <1>1, <2>1 DEF Plain
<1> HIDE DEF lines
<1>6. IsSeq(file') /\ \A s \in Solvers : SameLines(s)
  BY <1>2, <1>4, <1>5, PlainLines
<1> QED BY <1>1, <1>3, <1>6, TaleQuiet DEF Stages, Later

LEMMA FlagsTale ==
    ASSUME RInv, MInv, WriteFlags
    PROVE  MInv'
<1> DEFINE a == IF input.featureStd THEN <<Plain("feastd")>> ELSE <<>>
           b == IF input.outputStd THEN <<Plain("outstd")>> ELSE <<>>
           lines == a \o b
<1>1. /\ pc = "flags" /\ pc' = "select" /\ solver' = solver /\ input' = input
      /\ train' = train /\ file' = file \o a \o b
  BY DEF WriteFlags, data, Goto
<1>2. solver = 1 /\ IsSeq(file)
  BY <1>1 DEF MInv
<1>3. \A s \in Solvers : Past(s) /\ Past(s)' /\ ~Written(s) /\ ~Written(s)'
  BY <1>1, <1>2, NoneBefore DEF Past, Written
<1>4. /\ IsSeq(a) /\ \A s \in Solvers : \A p \in {"stdfactor", "freeweight", "weight"} :
                         AtIn(a, p, s) = {}
      /\ IsSeq(b) /\ \A s \in Solvers : \A p \in {"stdfactor", "freeweight", "weight"} :
                         AtIn(b, p, s) = {}
  <2>1. /\ IsSeq(<<>>)
        /\ \A s \in Solvers : \A p \in {"stdfactor", "freeweight", "weight"} :
                         AtIn(<<>>, p, s) = {}
    BY DEF IsSeq, AtIn
  <2>2. \A param \in {"feastd", "outstd"} :
           /\ IsSeq(<<Plain(param)>>)
           /\ \A s \in Solvers : \A p \in {"stdfactor", "freeweight", "weight"} :
                         AtIn(<<Plain(param)>>, p, s) = {}
    BY LineAt DEF Plain
  <2> QED BY <2>1, <2>2
<1> HIDE DEF a, b
<1>5. /\ IsSeq(lines)
      /\ \A s \in Solvers : \A p \in {"stdfactor", "freeweight", "weight"} : AtIn(lines, p, s) = {}
  <2>1. IsSeq(lines)
    BY <1>4, CatSeq
  <2>2. ASSUME NEW s \in Solvers, NEW p \in {"stdfactor", "freeweight", "weight"}
        PROVE  AtIn(lines, p, s) = {}
    <3>1. AtIn(lines, p, s) = AtIn(a, p, s) \cup Shifted(AtIn(b, p, s), Len(a))
      BY <1>4, AppendedAt
    <3>2. Shifted({}, Len(a)) = {}
      BY DEF Shifted
    <3> HIDE DEF lines
    <3> QED BY <1>4, <3>1, <3>2
  <2> QED BY <2>1, <2>2
<1>6. file' = file \o lines
  <2> DEFINE A == ToSet(file) \cup ToSet(a) \cup ToSet(b)
  <2>1. file \in Seq(A) /\ a \in Seq(A) /\ b \in Seq(A)
    BY <1>2, <1>4 DEF IsSeq
  <2> HIDE DEF A
  <2>2. file \o a \o b = file \o (a \o b)
    BY <2>1
  <2> QED BY <1>1, <2>2
<1> HIDE DEF lines
<1>7. IsSeq(file') /\ \A s \in Solvers : SameLines(s)
  BY <1>2, <1>5, <1>6, PlainLines
<1> QED BY <1>1, <1>3, <1>7, TaleQuiet DEF Stages, Later

-----------------------------------------------------------------------------
(* Every stage keeps what is told of the columns and of the lines. *)
LEMMA OutputsTale ==
    ASSUME RInv, MInv, PrepareOutputs
    PROVE  MInv'
<1>1. /\ pc = "outputs" /\ pc' = "features" /\ input' = input /\ solver' = solver
      /\ file' = file
  BY DEF PrepareOutputs, data, Goto
<1>2. pc \in Stages \ {"create"}
  BY <1>1 DEF Stages, Later
<1>3. /\ solver \in Solvers /\ DOMAIN train = Solvers /\ IsWhole(train[solver])
      /\ \A s \in Solvers : Made(s)
  BY <1>2, StageFacts DEF RInv, MadeInTurn
<1>4. \A s \in Solvers : (Past(s)' <=> Past(s)) /\ (Past(s) <=> s < solver)
                         /\ ~Written(s) /\ ~Written(s)'
  BY <1>1 DEF Past, Written
<1>5. \A s \in Solvers : SameLines(s)
  BY <1>1, SameFile
<1>6. /\ train'[solver] = IF input.outputStd THEN StandardizeOutput(Unlimited(train[solver]))
                          ELSE Unlimited(train[solver])
      /\ \A s \in Solvers : s # solver => train'[s] = train[s]
  BY <1>3 DEF PrepareOutputs
<1>7. PICK z \in Solvers : z = solver
  BY <1>3
<1>8. ~(z < z)
  BY NumSolversAssumption DEF Solvers
<1>9. ~Past(z)
  BY <1>4, <1>7, <1>8
<1>10. HasParts(train[z]) /\ Single(train[z]) /\ train[z].stdDone = FALSE
  BY <1>2, <1>3, <1>9 DEF MInv, Tale, Columned
<1>11. train'[z].cols = train[z].cols /\ train'[z].stdDone = FALSE
  BY <1>3, <1>6, <1>7, <1>10
     DEF StandardizeOutput, Unlimited, RemoveTimeouts, IsWhole, IsDataSet
<1>12. HasParts(train'[z]) /\ Single(train'[z])
  BY <1>10, <1>11 DEF HasParts, Single, AtomOf
<1>13. Tale(z)'
  BY <1>1, <1>2, <1>4, <1>5, <1>9, <1>11, <1>12, EarlyTale DEF MInv
<1>14. IsSeq(file') /\ pc' \in Stages \cup {"done"}
  BY <1>1 DEF MInv, Stages, Later
<1> QED BY <1>1, <1>2, <1>4, <1>5, <1>6, <1>7, <1>13, <1>14, TaleMoves

LEMMA StandardTale ==
    ASSUME RInv, MInv, StandardizeFeatures
    PROVE  MInv'
<1>1. /\ pc = "features" /\ input' = input /\ NextSolver("outputs", "flags")
  BY DEF StandardizeFeatures, data
<1>2. pc \in Stages \ {"create"}
  BY <1>1 DEF Stages, Later
<1>3. /\ solver \in Solvers /\ DOMAIN train = Solvers /\ IsWhole(train[solver])
      /\ \A s \in Solvers : Made(s)
  BY <1>2, StageFacts DEF RInv, MadeInTurn
<1>4. pc' \in {"outputs", "flags"} /\ (pc' = "flags" => solver' = 1)
  BY <1>1, <1>3, SolverTurn
<1>5. \A s \in Solvers : /\ Past(s) <=> s < solver
                         /\ Past(s)' <=> s < solver \/ s = solver
                         /\ ~Written(s) /\ ~Written(s)'
  <2>1. \A s \in Solvers : ~Written(s) /\ ~Written(s)'
    BY <1>1, <1>4 DEF Written
  <2>2. \A s \in Solvers : Past(s) <=> s < solver
    BY <1>1 DEF Past
  <2>3. CASE pc' = "outputs" /\ solver' = solver + 1
    <3>1. \A s \in Solvers : s < solver' <=> s < solver \/ s = solver
      BY <1>3, <2>3, NumSolversAssumption DEF Solvers
    <3> QED BY <2>1, <2>2, <2>3, <3>1 DEF Past
  <2>4. CASE pc' = "flags" /\ solver' = 1 /\ solver = NumSolvers
    <3>1. \A s \in Solvers : s < solver \/ s = solver
      BY <2>4, NumSolversAssumption DEF Solvers
    <3>2. \A s \in Solvers : Past(s)'
      BY <2>4 DEF Past
    <3> QED BY <2>1, <2>2, <3>1, <3>2
  <2> QED BY <1>1, <1>3, <2>3, <2>4, Turn
<1>6. pc' \in Stages \cup {"done"}
  BY <1>4 DEF Stages, Later
<1>7. PICK z \in Solvers : z = solver
  BY <1>3
<1>8. ~(z < z)
  BY NumSolversAssumption DEF Solvers
<1>9. /\ Tale(z) /\ Columned(z) /\ Noted(z) /\ ~Past(z) /\ Past(z)' /\ ~Written(z)
      /\ ~Written(z)' /\ IsWhole(train[z]) /\ IsSeq(file)
  BY <1>3, <1>5, <1>7, <1>8 DEF MInv, Tale
<1>10. HasParts(train[z]) /\ Single(train[z]) /\ train[z].stdDone = FALSE
  BY <1>2, <1>9 DEF Columned
<1>11. /\ SaidIn(file, "stdfactor", z) = {}
       /\ AtIn(file, "freeweight", z) = {} /\ AtIn(file, "weight", z) = {}
  BY <1>2, <1>9 DEF Noted
<1>12. CASE ~input.featureStd
  <2>1. train' = train /\ file' = file
    BY <1>12 DEF StandardizeFeatures
  <2>2. \A s \in Solvers : SameLines(s)
    BY <2>1, SameFile
  <2>3. /\ SaidIn(file', "stdfactor", z) = {}
        /\ AtIn(file', "freeweight", z) = {} /\ AtIn(file', "weight", z) = {}
    BY <1>11, <2>1
  <2>4. Noted(z)'
    BY <1>9, <2>3 DEF Noted
  <2>5. Known(z)' = Atoms(train'[z])
    BY <1>1, <1>12 DEF Known
  <2>6. Told(train'[z], Atoms(train'[z])) /\ Matched(train'[z]) /\ HasParts(train'[z])
    BY <1>10, <2>1, SingleTells
  <2>7. Columned(z)'
    BY <1>1, <1>9, <1>12, <2>3, <2>5, <2>6 DEF Columned
  <2>8. Tale(z)'
    BY <2>4, <2>7 DEF Tale
  <2> QED BY <1>1, <1>2, <1>4, <1>5, <1>6, <1>7, <1>9, <2>1, <2>2, <2>8, TaleMoves
<1>13. CASE input.featureStd
  <2> DEFINE factors == Factors(train[z])
             lines == Lines("stdfactor", z, factors)
             e == Standardize(train[z], factors)
  <2>1. file' = file \o lines /\ train'[z] = e
        /\ \A s \in Solvers : s # z => train'[s] = train[s]
    BY <1>3, <1>7, <1>13 DEF StandardizeFeatures
  <2>2. IsSeq(factors) /\ ToSet(factors) = {<<train[z].cols[c].label, train[z].rows>> :
                                                c \in DOMAIN train[z].cols}
    <3>1. Len(train[z].cols) \in Nat /\ DOMAIN train[z].cols = 1..Len(train[z].cols)
      BY <1>9 DEF IsWhole, IsSeq
    <3>2. factors = [c \in 1..Len(train[z].cols) |-> factors[c]]
      BY <3>1 DEF Factors
    <3>3. \A c \in DOMAIN factors : factors[c] = <<train[z].cols[c].label, train[z].rows>>
      BY DEF Factors
    <3>4. DOMAIN factors = DOMAIN train[z].cols
      BY DEF Factors
    <3> HIDE DEF factors
    <3>5. IsSeq(factors)
      BY <3>1, <3>2, MadeSeq
    <3> QED BY <3>3, <3>4, <3>5 DEF ToSet
  <2>3. /\ Single(e) /\ HasParts(e) /\ e.stdDone = TRUE /\ e.rows = train[z].rows
        /\ DOMAIN e.cols = DOMAIN train[z].cols
        /\ \A c \in DOMAIN train[z].cols : e.cols[c].label = train[z].cols[c].label
    BY <1>9, <1>10, StandardTells
  <2> HIDE DEF factors, e
  <2>4. /\ IsSeq(lines)
        /\ \A p, t : p # "stdfactor" \/ t # z => AtIn(lines, p, t) = {} /\ SaidIn(lines, p, t) = {}
        /\ SaidIn(lines, "stdfactor", z) = ToSet(factors)
    BY <2>2, LinesAt
  <2> HIDE DEF lines
  <2>5. /\ IsSeq(file')
        /\ \A p, t : /\ AtIn(file', p, t) = AtIn(file, p, t) \cup Shifted(AtIn(lines, p, t), Len(file))
                     /\ SaidIn(file', p, t) = SaidIn(file, p, t) \cup SaidIn(lines, p, t)
    BY <1>9, <2>1, <2>4, AppendedAt
  <2>6. Shifted({}, Len(file)) = {}
    BY DEF Shifted
  <2>7. ASSUME NEW s \in Solvers, s # z PROVE SameLines(s)
    <3>1. ASSUME NEW p \in {"stdfactor", "freeweight", "weight"}
          PROVE  AtIn(file', p, s) = AtIn(file, p, s) /\ SaidIn(file', p, s) = SaidIn(file, p, s)
      <4>1. AtIn(lines, p, s) = {} /\ SaidIn(lines, p, s) = {}
        BY <2>4, <2>7
      <4>2. /\ AtIn(file', p, s) = AtIn(file, p, s) \cup Shifted(AtIn(lines, p, s), Len(file))
            /\ SaidIn(file', p, s) = SaidIn(file, p, s) \cup SaidIn(lines, p, s)
        BY <2>5
      <4> QED BY <2>6, <4>1, <4>2
    <3> QED BY <3>1 DEF SameLines
  <2>8. /\ SaidIn(file', "stdfactor", z) = ToSet(factors)
        /\ AtIn(file', "freeweight", z) = {} /\ AtIn(file', "weight", z) = {}
    <3>1. \A p \in {"freeweight", "weight"} : AtIn(lines, p, z) = {}
      BY <2>4
    <3>2. \A p \in {"freeweight", "weight"} :
             AtIn(file', p, z) = AtIn(file, p, z) \cup Shifted(AtIn(lines, p, z), Len(file))
      BY <2>5
    <3>3. SaidIn(file', "stdfactor", z)
              = SaidIn(file, "stdfactor", z) \cup SaidIn(lines, "stdfactor", z)
      BY <2>5
    <3> QED BY <1>11, <2>4, <2>6, <3>1, <3>2, <3>3
  <2>9. Noted(z)'
    BY <1>9, <2>8 DEF Noted
  <2>10. Told(e, Known(z)')
    <3> DEFINE K == Known(z)'
    <3>1. \A a : a \in K <=> a \in Atoms(e) /\ a[2] \in ToSet(factors)
      BY <1>1, <1>9, <1>13, <2>1, <2>8 DEF Known
    <3> HIDE DEF K
    <3>2. ASSUME NEW c \in DOMAIN e.cols PROVE e.cols[c].cells \in BagsOf(K)
      <4>1. PICK f \in ToSet(Features) : /\ e.cols[c].label = SetToBag({f})
                                         /\ e.cols[c].cells = SetToBag({AtomOf(f, e.stdDone, e.rows)})
        BY <2>3 DEF Single
      <4>2. AtomOf(f, e.stdDone, e.rows) \in Atoms(e)
        BY DEF Atoms
      <4>3. AtomOf(f, e.stdDone, e.rows)[2] = <<SetToBag({f}), train[z].rows>>
        BY <2>3 DEF AtomOf
      <4>4. <<SetToBag({f}), train[z].rows>> \in ToSet(factors)
        BY <2>2, <2>3, <4>1
      <4>5. AtomOf(f, e.stdDone, e.rows) \in K
        BY <3>1, <4>2, <4>3, <4>4
      <4> QED BY <4>1, <4>5, OneIn
    <3>3. Told(e, K)
      BY <3>2 DEF Told
    <3> QED BY <3>3 DEF K
  <2>11. Matched(e)
    BY <2>3, SingleTells
  <2>12. \A v \in ToSet(factors) : v = <<v[1], e.rows>>
    BY <2>2, <2>3
  <2>13. Columned(z)'
    BY <1>9, <2>1, <2>3, <2>8, <2>10, <2>11, <2>12 DEF Columned
  <2>14. Tale(z)'
    BY <2>9, <2>13 DEF Tale
  <2> QED BY <1>1, <1>2, <1>4, <1>5, <1>6, <1>7, <2>1, <2>5, <2>7, <2>14, TaleMoves
<1> QED BY <1>12, <1>13

-----------------------------------------------------------------------------
LEMMA QuietPlaces ==
    ASSUME MInv, pc \in Stages, pc' \in Stages \cup {"done"},
           input' = input, train' = train, file' = file, RInv,
           pc' \notin {"names", "flags"},
           \A s \in Solvers : (Past(s)' <=> Past(s)) /\ (Written(s)' <=> Written(s))
    PROVE  MInv'
<1>1. IsSeq(file')
  BY DEF MInv
<1>2. \A s \in Solvers : SameLines(s)
  BY SameFile
<1> QED BY <1>1, <1>2, TaleQuiet

(* The stages between which a selection goes. *)
SelectPlaces == {"select", "expand", "reselect", "learn"}

LEMMA SelectTale ==
    ASSUME RInv, MInv, NEW here, NEW after, here \in SelectPlaces, after \in SelectPlaces,
           Select(here, after)
    PROVE  MInv'
<1>1. pc = here /\ pc \in Stages \ {"create"} /\ after \in Stages
  BY DEF Select, SelectPlaces, Stages, Later
<1>2. pc' = after /\ solver' = solver =>
          \A s \in Solvers : /\ Past(s) /\ Past(s)'
                             /\ Written(s)' <=> Written(s)
                             /\ Written(s) <=> s < solver
  BY <1>1 DEF Past, Written, SelectPlaces
<1>3. CASE input.fsopt = "NONE"
  <2>1. /\ pc' = after /\ solver' = solver /\ input' = input /\ train' = train /\ file' = file
    BY <1>3 DEF Select, Goto, data
  <2> QED BY <1>1, <1>2, <2>1, QuietPlaces DEF SelectPlaces
<1>4. CASE input.fsopt # "NONE"
  <2>0. \/ \E outcomes : outcomes \subseteq Terminal \ {"done"} /\ Stop(outcomes)
        \/ \E res \in Selections(train[solver]) :
               /\ HasTest
               /\ train' = [train EXCEPT ![solver] = RemoveFeatures(@, res)]
               /\ Goto(after) /\ UNCHANGED <<data, file>>
    <3>1. /\ {"crashed"} \subseteq Terminal \ {"done"}
          /\ SelectionStops(train[solver]) \subseteq Terminal \ {"done"}
      BY DEF Terminal, SelectionStops
    <3>2. ASSUME NEW ds, ds.fault # "none", ds.fault \in Faults
          PROVE  Outcomes(ds.fault) \subseteq Terminal \ {"done"}
      BY <3>2 DEF Outcomes, Terminal, Faults
    <3>3. HasTest => \A res : RemoveFeatures(test[solver], res).fault \in Faults
      BY <1>1, StageFacts, RemoveKeepsRecord DEF IsWhole, IsDataSet, IsRecord, Faults
    <3> QED BY <1>4, <3>1, <3>2, <3>3 DEF Select
  <2>1. CASE \E outcomes : outcomes \subseteq Terminal \ {"done"} /\ Stop(outcomes)
    BY <1>1, <2>1, StopTale
  <2>2. ASSUME NEW res \in Selections(train[solver]),
               /\ HasTest
               /\ train' = [train EXCEPT ![solver] = RemoveFeatures(@, res)]
               /\ Goto(after) /\ UNCHANGED <<data, file>>
        PROVE  MInv'
    <3>1. pc' = after /\ solver' = solver /\ input' = input /\ file' = file
      BY <2>2 DEF Goto, data
    <3>2. /\ solver \in Solvers /\ IsWhole(train[solver]) /\ DOMAIN train = Solvers
          /\ input \in Inputs /\ Made(solver)
      BY <1>1, StageFacts DEF RInv, Places, MadeInTurn
    <3>3. /\ \A s \in Solvers : s # solver => train'[s] = train[s]
          /\ train'[solver] = RemoveFeatures(train[solver], res)
      BY <2>2, <3>2
    <3>4. PICK z \in Solvers : z = solver
      BY <3>2
    <3>5. IsSeq(res) /\ \A n \in DOMAIN res : res[n] \in DOMAIN train[z].cols
      BY <3>2, <3>4, SelectionsAreColumns
    <3>6. res \in Seq(Nat)
      <4>1. DOMAIN train[z].cols \subseteq Nat
        BY <3>2, <3>4 DEF IsWhole, IsSeq
      <4> QED BY <3>5, <4>1 DEF IsSeq
    <3>7. ~(z < z)
      BY NumSolversAssumption DEF Solvers
    <3>8. Tale(z) /\ Columned(z) /\ Past(z) /\ Past(z)' /\ ~Written(z) /\ ~Written(z)'
      BY <1>2, <3>1, <3>2, <3>4, <3>7 DEF MInv, Tale
    <3>9. HasParts(train[z])
      BY <3>8 DEF Columned
    <3>10. /\ Among(train'[z], train[z]) /\ HasParts(train'[z])
           /\ train'[z].stdDone = train[z].stdDone
      BY <3>2, <3>3, <3>4, <3>5, <3>6, <3>9, RemoveAmong
    <3>11. train'[z].rows = train[z].rows
      BY <3>2, <3>3, <3>4, <3>5, RemoveRows DEF SameRows
    <3>12. /\ \A A : Told(train[z], A) => Told(train'[z], A)
           /\ Matched(train[z]) => Matched(train'[z])
      BY <3>10, <3>11, AmongTells
    <3>13. \A s \in Solvers : SameLines(s)
      BY <3>1, SameFile
    <3>14. Tale(z)'
      BY <1>1, <3>1, <3>2, <3>4, <3>8, <3>10, <3>11, <3>12, <3>13, LateTale
    <3>15. IsSeq(file') /\ pc' \in Stages \cup {"done"} /\ pc' \notin {"names", "flags"}
      BY <1>1, <3>1 DEF MInv, SelectPlaces
    <3> QED BY <1>1, <1>2, <3>1, <3>3, <3>4, <3>13, <3>14, <3>15, TaleMoves
  <2> QED BY <2>0, <2>1, <2>2
<1> QED BY <1>3, <1>4

LEMMA ExpandTale ==
    ASSUME RInv, MInv, ExpandBoth
    PROVE  MInv'
<1>1. pc = "expand" /\ pc \in Stages \ {"create"}
  BY DEF ExpandBoth, Stages, Later
<1>2. /\ solver \in Solvers /\ IsWhole(train[solver]) /\ DOMAIN train = Solvers
      /\ input \in Inputs /\ Made(solver)
  BY <1>1, StageFacts DEF RInv, Places, MadeInTurn
<1>3. \/ \E outcomes : outcomes \subseteq Terminal \ {"done"} /\ Stop(outcomes)
      \/ /\ Expanded(train[solver]).fault = "none"
         /\ train' = [train EXCEPT ![solver] = Expanded(train[solver])]
         /\ Goto("reselect") /\ UNCHANGED <<data, file>>
  <2>1. {"crashed"} \subseteq Terminal \ {"done"}
        /\ \A fault : Outcomes(fault) \subseteq Terminal \ {"done"}
    BY DEF Terminal, Outcomes
  <2> QED BY <2>1 DEF ExpandBoth
<1>4. CASE \E outcomes : outcomes \subseteq Terminal \ {"done"} /\ Stop(outcomes)
  BY <1>1, <1>4, StopTale
<1>5. CASE /\ Expanded(train[solver]).fault = "none"
           /\ train' = [train EXCEPT ![solver] = Expanded(train[solver])]
           /\ Goto("reselect") /\ UNCHANGED <<data, file>>
  <2>1. pc' = "reselect" /\ solver' = solver /\ input' = input /\ file' = file
    BY <1>5 DEF Goto, data
  <2>2. \A s \in Solvers : /\ Past(s) /\ Past(s)'
                           /\ Written(s)' <=> Written(s)
                           /\ Written(s) <=> s < solver
    BY <1>1, <2>1 DEF Past, Written
  <2>3. PICK z \in Solvers : z = solver
    BY <1>2
  <2>4. ~(z < z)
    BY NumSolversAssumption DEF Solvers
  <2>5. Tale(z) /\ Columned(z) /\ Past(z) /\ Past(z)' /\ ~Written(z) /\ ~Written(z)'
    BY <1>2, <2>2, <2>3, <2>4 DEF MInv, Tale
  <2>6. HasParts(train[z])
    BY <2>5 DEF Columned
  <2>7. input.fePartOrder \in Nat /\ input.fePartitions \in Seq(Seq(Nat))
    BY <1>2, InputsAssumption
  <2>8. HasFields(train[z]) /\ IsSeq(train[z].cols)
    BY <1>2, <2>3 DEF HasFields, IsWhole, IsDataSet
  <2>9. train'[z] = Expanded(train[z]) /\ Expanded(train[z]).fault = "none"
        /\ \A s \in Solvers : s # z => train'[s] = train[s]
    BY <1>2, <1>5, <2>3
  <2>10. ASSUME NEW A, Told(train[z], A)
         PROVE  /\ HasParts(train'[z]) /\ Told(train'[z], A)
                /\ train'[z].stdDone = train[z].stdDone /\ train'[z].rows = train[z].rows
                /\ Matched(train[z]) /\ input.fePartitions = <<>> => Matched(train'[z])
    BY <2>6, <2>7, <2>8, <2>9, <2>10, ExpandTold DEF Expanded
  <2>11. Told(train[z], Known(z))
    BY <2>5 DEF Columned
  <2>12. /\ HasParts(train'[z])
         /\ train'[z].stdDone = train[z].stdDone /\ train'[z].rows = train[z].rows
         /\ Matched(train[z]) /\ input.fePartitions = <<>> => Matched(train'[z])
    BY <2>10, <2>11
  <2>13. \A s \in Solvers : SameLines(s)
    BY <2>1, SameFile
  <2>14. Tale(z)'
    BY <1>1, <1>2, <2>1, <2>3, <2>5, <2>10, <2>12, <2>13, LateTale
  <2>15. IsSeq(file') /\ pc' \in Stages \cup {"done"} /\ pc' \notin {"names", "flags"}
    BY <2>1 DEF MInv, Stages, Later
  <2> QED BY <1>1, <2>1, <2>2, <2>9, <2>13, <2>14, <2>15, TaleMoves
<1> QED BY <1>3, <1>4, <1>5

(* Lines that say nothing of it change nothing of what is said. *)
LEMMA NothingNew ==
    ASSUME NEW f, NEW new, IsSeq(f), IsSeq(new), NEW p, NEW t
    PROVE  AtIn(new, p, t) = {} =>
               AtIn(f \o new, p, t) = AtIn(f, p, t) /\ SaidIn(f \o new, p, t) = SaidIn(f, p, t)
<1>1. /\ AtIn(f \o new, p, t) = AtIn(f, p, t) \cup Shifted(AtIn(new, p, t), Len(f))
      /\ SaidIn(f \o new, p, t) = SaidIn(f, p, t) \cup SaidIn(new, p, t)
  BY AppendedAt
<1>2. Shifted({}, Len(f)) = {} /\ (AtIn(new, p, t) = {} => SaidIn(new, p, t) = {})
  BY DEF Shifted, SaidIn
<1> QED BY <1>1, <1>2

(* The model of a solver is written down. *)
LEMMA LearnTale ==
    ASSUME RInv, MInv, Learn
    PROVE  MInv'
<1>1. /\ pc = "learn" /\ pc' = "test" /\ solver' = solver /\ input' = input
      /\ train' = train /\ file' = file \o ModelLines(train[solver])
  BY DEF Learn, Goto, data
<1>2. pc \in Stages \ {"create"} /\ pc' \in Stages \cup {"done"}
  BY <1>1 DEF Stages, Later
<1>3. /\ solver \in Solvers /\ IsWhole(train[solver]) /\ Made(solver)
  BY <1>2, StageFacts DEF RInv, MadeInTurn
<1>4. PICK z \in Solvers : z = solver
  BY <1>3
<1>5. ~(z < z) /\ z <= z
      /\ \A s \in Solvers : s # z => (s <= z <=> s < z)
  BY NumSolversAssumption DEF Solvers
<1>6. \A s \in Solvers : /\ Past(s) /\ Past(s)'
                         /\ Written(s) <=> s < z
                         /\ Written(s)' <=> s <= z
  BY <1>1, <1>4 DEF Past, Written
<1> DEFINE labels == Labels(train[z])
           weights == <<Line("freeweight", z, <<>>)>> \o Lines("weight", z, Distinct(labels))
           svm == <<Line("svm_model_file", z, <<>>), Line("nlabels", z, <<>>)>>
                  \o Lines("featurelabel", z, labels)
           lines == ModelLines(train[z])
<1>7. IsSeq(labels)
  <2>1. Len(train[z].cols) \in Nat /\ DOMAIN train[z].cols = 1..Len(train[z].cols)
    BY <1>3, <1>4 DEF IsWhole, IsSeq
  <2>2. labels = [c \in 1..Len(train[z].cols) |-> labels[c]]
    BY <2>1 DEF Labels
  <2> HIDE DEF labels
  <2> QED BY <2>1, <2>2, MadeSeq
<1>8. lines = IF input.la = "RR" THEN weights ELSE svm
  BY <1>4 DEF ModelLines
<1> HIDE DEF labels
<1>9. IsSeq(file) /\ Tale(z) /\ ~Written(z)
  BY <1>5, <1>6 DEF MInv
<1>10. /\ IsSeq(weights)
       /\ \A t : t # z => \A p : AtIn(weights, p, t) = {}
       /\ AtIn(weights, "stdfactor", z) = {}
  <2> DEFINE one == <<Line("freeweight", z, <<>>)>>
             more == Lines("weight", z, Distinct(labels))
  <2>1. IsSeq(one) /\ \A p, t : p # "freeweight" \/ t # z => AtIn(one, p, t) = {}
    BY LineAt
  <2>2. IsSeq(Distinct(labels))
    BY <1>7, DistinctIs
  <2>3. IsSeq(more) /\ \A p, t : p # "weight" \/ t # z => AtIn(more, p, t) = {}
    BY <2>2, LinesAt
  <2> HIDE DEF one, more
  <2>4. IsSeq(one \o more)
    BY <2>1, <2>3, AppendedAt
  <2>5. ASSUME NEW p, NEW t, p = "stdfactor" \/ t # z
        PROVE  AtIn(one \o more, p, t) = {}
    <3>1. AtIn(one, p, t) = {} /\ AtIn(more, p, t) = {}
      BY <2>5, <2>1, <2>3
    <3> QED BY <2>1, <2>3, <3>1, NothingNew
  <2>6. \A p, t : p = "stdfactor" \/ t # z => AtIn(one \o more, p, t) = {}
    BY <2>5
  <2> QED BY <2>4, <2>6 DEF one, more
<1>11. /\ IsSeq(svm)
       /\ \A t : t # z => \A p : AtIn(svm, p, t) = {}
       /\ AtIn(svm, "stdfactor", z) = {}
  <2> DEFINE two == <<Line("svm_model_file", z, <<>>), Line("nlabels", z, <<>>)>>
             more == Lines("featurelabel", z, labels)
  <2>1. IsSeq(two)
    BY DEF IsSeq, ToSet
  <2>2. \A p, t : p = "stdfactor" \/ t # z => AtIn(two, p, t) = {}
    BY DEF AtIn, Line
  <2>3. IsSeq(more) /\ \A p, t : p # "featurelabel" \/ t # z => AtIn(more, p, t) = {}
    BY <1>7, LinesAt
  <2> HIDE DEF two, more
  <2>4. IsSeq(two \o more)
    BY <2>1, <2>3, AppendedAt
  <2>5. ASSUME NEW p, NEW t, p = "stdfactor" \/ t # z
        PROVE  AtIn(two \o more, p, t) = {}
    <3>1. AtIn(two, p, t) = {} /\ AtIn(more, p, t) = {}
      BY <2>5, <2>2, <2>3
    <3> QED BY <2>1, <2>3, <3>1, NothingNew
  <2>6. \A p, t : p = "stdfactor" \/ t # z => AtIn(two \o more, p, t) = {}
    BY <2>5
  <2> QED BY <2>4, <2>6 DEF two, more
<1>12. file' = file \o lines
  BY <1>1, <1>4
<1>13. /\ IsSeq(lines)
       /\ \A t : t # z => \A p : AtIn(lines, p, t) = {}
       /\ AtIn(lines, "stdfactor", z) = {}
  BY <1>8, <1>10, <1>11
<1> DEFINE g == file \o lines
<1>14. /\ IsSeq(g)
       /\ \A p, t : AtIn(lines, p, t) = {} =>
              AtIn(g, p, t) = AtIn(file, p, t) /\ SaidIn(g, p, t) = SaidIn(file, p, t)
  <2> HIDE DEF lines
  <2> QED BY <1>9, <1>13, AppendedAt, NothingNew
<1>15. input.la = "RR" => g = file \o weights
  BY <1>8
<1>16. file' = g
  BY <1>12
<1> HIDE DEF lines, weights, svm, g
<1>18. ASSUME NEW s \in Solvers, s # z PROVE SameLines(s)
  <2>1. ASSUME NEW p PROVE AtIn(g, p, s) = AtIn(file, p, s) /\ SaidIn(g, p, s) = SaidIn(file, p, s)
    BY <1>13, <1>14, <1>18
  <2> QED BY <1>16, <2>1 DEF SameLines
<1>19. SaidIn(g, "stdfactor", z) = SaidIn(file, "stdfactor", z)
  BY <1>13, <1>14
<1>20. Noted(z) /\ Columned(z) /\ Past(z) /\ Past(z)' /\ Written(z)'
  BY <1>3, <1>4, <1>5, <1>6, <1>9 DEF Tale
<1>21. input.la = "RR" => WeightsOf(g, z, labels)
  <2>1. AtIn(file, "freeweight", z) = {} /\ AtIn(file, "weight", z) = {}
    BY <1>2, <1>9, <1>20 DEF Noted
  <2> QED BY <1>7, <1>9, <1>15, <2>1, WeightsAreWritten DEF weights
<1>22. Noted(z)'
  <2>1. Made(z)'
    BY <1>1, <1>3, <1>4 DEF Made
  <2>2. WeightsOf(file', z, Labels(train'[z])) <=> WeightsOf(g, z, labels)
    BY <1>1, <1>16 DEF labels
  <2> QED BY <1>1, <1>20, <1>21, <2>1, <2>2 DEF Noted
<1>23. Known(z)' = Known(z)
  BY <1>1, <1>16, <1>19, <1>20 DEF Known
<1>24. Columned(z)'
  BY <1>1, <1>16, <1>19, <1>20, <1>23 DEF Columned
<1>25. Tale(z)'
  BY <1>22, <1>24 DEF Tale
<1>26. IsSeq(file') /\ pc' \notin {"names", "flags"}
  BY <1>1, <1>14, <1>16
<1>27. \A s \in Solvers : s # z =>
               /\ train'[s] = train[s] /\ SameLines(s)
               /\ (Past(s)' <=> Past(s)) /\ (Written(s)' <=> Written(s))
  BY <1>1, <1>5, <1>6, <1>18
<1> QED BY <1>1, <1>2, <1>25, <1>26, <1>27, TaleMoves

LEMMA OthersTale ==
    ASSUME RInv, MInv, DoNotExpand \/ Test
    PROVE  MInv'
<1>1. /\ pc \in {"expand", "test"} /\ input' = input /\ train' = train /\ file' = file
  BY DEF DoNotExpand, Test, data
<1>2. pc \in Stages \ {"create"}
  BY <1>1 DEF Stages, Later
<1>3. CASE DoNotExpand
  <2>1. pc = "expand" /\ pc' = "learn" /\ solver' = solver
    BY <1>3 DEF DoNotExpand, Goto
  <2>2. \A s \in Solvers : (Past(s)' <=> Past(s)) /\ (Written(s)' <=> Written(s))
    BY <2>1 DEF Past, Written
  <2>3. pc' \in Stages \cup {"done"} /\ pc' \notin {"names", "flags"}
    BY <2>1 DEF Stages, Later
  <2> QED BY <1>1, <1>2, <2>2, <2>3, QuietPlaces
<1>4. CASE Test
  <2>1. pc = "test" /\ NextSolver("select", "done") /\ solver \in Solvers
    BY <1>2, <1>4, StageFacts DEF Test
  <2>2. \A s \in Solvers : Written(s) <=> s <= solver
    BY <2>1 DEF Written
  <2>3. \A s \in Solvers : Past(s)
    BY <2>1 DEF Past
  <2>4. pc' \in {"select", "done"}
    BY <2>1, SolverTurn
  <2>5. \A s \in Solvers : Past(s)'
    BY <2>4 DEF Past
  <2>6. \A s \in Solvers : Written(s)' <=> s <= solver
    <3>1. CASE pc' = "select" /\ solver' = solver + 1
      <4>1. \A s \in Solvers : s < solver' <=> s <= solver
        BY <2>1, <3>1, NumSolversAssumption DEF Solvers
      <4> QED BY <3>1, <4>1 DEF Written
    <3>2. CASE pc' = "done" /\ solver = NumSolvers
      <4>1. \A s \in Solvers : s <= solver
        BY <3>2, NumSolversAssumption DEF Solvers
      <4> QED BY <3>2, <4>1 DEF Written
    <3> QED BY <2>1, <3>1, <3>2, Turn
  <2>7. pc' \in Stages \cup {"done"} /\ pc' \notin {"names", "flags"}
    BY <2>4 DEF Stages, Later
  <2> QED BY <1>1, <1>2, <2>2, <2>3, <2>5, <2>6, <2>7, QuietPlaces
<1> QED BY <1>3, <1>4

LEMMA StopsTale ==
    ASSUME RInv, MInv, \/ CreateTraps \/ PrepareOutputsNoTest \/ StandardizeFeaturesStops
                       \/ LearnStops \/ TestStops
    PROVE  MInv'
<1>1. \E outcomes : outcomes \subseteq Terminal \ {"done"} /\ Stop(outcomes)
  BY DEF CreateTraps, PrepareOutputsNoTest, StandardizeFeaturesStops, LearnStops, TestStops,
         Terminal
<1>2. pc \in Stages
  BY DEF CreateTraps, PrepareOutputsNoTest, StandardizeFeaturesStops, LearnStops, TestStops,
         Stages, Later
<1> QED BY <1>1, <1>2, StopTale

LEMMA StutterTale ==
    ASSUME MInv, UNCHANGED vars
    PROVE  MInv'
<1>1. /\ pc' = pc /\ solver' = solver /\ input' = input /\ train' = train /\ file' = file
  BY DEF vars
<1>2. ASSUME NEW s \in Solvers PROVE Tale(s)'
  <2>1. Tale(s)
    BY DEF MInv
  <2>2. (Past(s)' <=> Past(s)) /\ (Written(s)' <=> Written(s)) /\ (Made(s)' <=> Made(s))
    BY <1>1 DEF Past, Written, Made
  <2>3. Known(s)' = Known(s)
    BY <1>1, <2>2 DEF Known
  <2>4. Noted(s)' <=> Noted(s)
    BY <1>1, <2>2 DEF Noted
  <2>5. Columned(s)' <=> Columned(s)
    BY <1>1, <2>2, <2>3 DEF Columned
  <2> QED BY <2>1, <2>2, <2>4, <2>5 DEF Tale
<1> QED BY <1>1, <1>2 DEF MInv

LEMMA NextMInv == RInv /\ MInv /\ [Next]_vars => MInv'
<1> SUFFICES ASSUME RInv, MInv, [Next]_vars PROVE MInv'
  OBVIOUS
<1>1. CASE UNCHANGED vars
  BY <1>1, StutterTale
<1>2. CASE FirstSelection \/ SecondSelection
  <2>1. {"select", "expand", "reselect", "learn"} \subseteq SelectPlaces
    BY DEF SelectPlaces
  <2> QED BY <1>2, <2>1, SelectTale DEF FirstSelection, SecondSelection
<1> QED BY <1>1, <1>2, CreateTale, HarmfulTale, NamesTale, OutputsTale, StandardTale, FlagsTale,
           ExpandTale, LearnTale, OthersTale, StopsTale DEF Next, Ended

-----------------------------------------------------------------------------
(* The copies of several elements together. *)
CopiesOf(b, S) == MapThenSumSet(LAMBDA a : Copies(a, b), S)

LEMMA CopiesOfOne ==
    ASSUME NEW b, NEW x
    PROVE  CopiesOf(b, {}) = 0 /\ (Copies(x, b) \in Int => CopiesOf(b, {x}) = Copies(x, b))
BY SumOne, Zenon DEF CopiesOf

(* The label of a column whose cells are those it tells of. *)
LEMMA TellingTells ==
    ASSUME NEW col, NEW scaled, NEW rows, Telling(col.label, col.cells, scaled, rows)
    PROVE  Tells(col, rows)
<1> DEFINE label == col.label
           cells == col.cells
           atom(f) == AtomOf(f, scaled, rows)
<1>1. /\ label \in [DOMAIN label -> Int]
      /\ cells = Lift(label, scaled, rows)
  BY InBags DEF Telling
<1>2. /\ DOMAIN cells = {atom(f) : f \in DOMAIN label}
      /\ \A f \in DOMAIN label : cells[atom(f)] = label[f]
      /\ \A f : atom(f)[1] = f
  <2>1. \A f : atom(f)[1] = f
    BY DEF AtomOf
  <2>2. cells = [a \in {atom(f) : f \in DOMAIN label} |-> label[a[1]]]
    BY <1>1 DEF Lift
  <2> HIDE DEF label, cells, atom
  <2> QED BY <2>1, <2>2
<1>3. \A f : atom(f)[2] \in {Raw, <<SetToBag({atom(f)[1]}), rows>>}
  BY <1>2 DEF AtomOf
<1> HIDE DEF atom, label, cells
<1>4. ASSUME NEW f
      PROVE  Copies(f, label) = CopiesOf(cells, {a \in BagToSet(cells) : a[1] = f})
  <2> DEFINE S == {a \in BagToSet(cells) : a[1] = f}
  <2>1. CASE f \in DOMAIN label
    <3>1. S = {atom(f)}
      BY <1>2, <2>1 DEF BagToSet
    <3>2. Copies(atom(f), cells) = label[f] /\ Copies(f, label) = label[f] /\ label[f] \in Int
      BY <1>1, <1>2, <2>1 DEF Copies, BagIn, BagToSet
    <3> HIDE DEF S
    <3>3. CopiesOf(cells, S) = label[f]
      BY <3>1, <3>2, CopiesOfOne
    <3> QED BY <3>2, <3>3 DEF S
  <2>2. CASE f \notin DOMAIN label
    <3>1. S = {}
      BY <1>2, <2>2 DEF BagToSet
    <3>2. Copies(f, label) = 0
      BY <2>2 DEF Copies, BagIn, BagToSet
    <3> HIDE DEF S
    <3>3. CopiesOf(cells, S) = 0
      BY <3>1, CopiesOfOne
    <3> QED BY <3>2, <3>3 DEF S
  <2> QED BY <2>1, <2>2
<1>5. \A a \in BagToSet(cells) : a[2] \in {Raw, <<SetToBag({a[1]}), rows>>}
  BY <1>2, <1>3 DEF BagToSet
<1>6. \A f \in ToSet(Features) : Copies(f, label)
          = MapThenSumSet(LAMBDA a : Copies(a, cells), {a \in BagToSet(cells) : a[1] = f})
  BY <1>4, Zenon DEF CopiesOf
<1> QED BY <1>5, <1>6, Zenon DEF Tells, label, cells

LEMMA LabelsAreRight == RInv /\ MInv => LabelsTellOfComplete
<1> SUFFICES ASSUME RInv, MInv, input.fePartitions = <<>>, NEW s \in Solvers, Made(s),
                    NEW c \in DOMAIN train[s].cols
             PROVE  Tells(train[s].cols[c], train[s].rows)
  BY DEF LabelsTellOfComplete, LabelsTell
<1>1. Matched(train[s])
  BY DEF MInv, Tale, Columned
<1> QED BY <1>1, TellingTells DEF Matched

LEMMA ModelIsRight == RInv /\ MInv => ModelMatches
<1> SUFFICES ASSUME RInv, MInv, NEW s \in Solvers, Written(s), input.la = "RR"
             PROVE  /\ Cardinality(At("freeweight", s)) = 1
                    /\ \A f \in At("freeweight", s), w \in At("weight", s) : f < w
                    /\ Said("weight", s) = ToSet(Labels(train[s]))
                    /\ Cardinality(At("weight", s)) = Cardinality(Said("weight", s))
                    /\ input.featureStd =>
                          \A c \in DOMAIN train[s].cols :
                          \A a \in BagToSet(train[s].cols[c].cells) :
                              {v \in Said("stdfactor", s) : v[1] = SetToBag({a[1]})} = {a[2]}
  BY DEF ModelMatches
<1>1. \A p : At(p, s) = AtIn(file, p, s) /\ Said(p, s) = SaidIn(file, p, s)
  BY DEF At, Said, AtIn, SaidIn
<1>2. WeightsOf(file, s, Labels(train[s])) /\ Made(s)
  BY DEF MInv, Tale, Noted
<1>3. Columned(s)
  BY <1>2 DEF MInv, Tale
<1>4. Past(s)
  BY DEF Written, Past
<1>5. ASSUME input.featureStd, NEW c \in DOMAIN train[s].cols,
             NEW a \in BagToSet(train[s].cols[c].cells)
      PROVE  {v \in Said("stdfactor", s) : v[1] = SetToBag({a[1]})} = {a[2]}
  <2> DEFINE V == SaidIn(file, "stdfactor", s)
  <2>1. train[s].cols[c].cells \in BagsOf(Known(s))
    BY <1>3 DEF Columned, Told
  <2>2. a \in Known(s)
    BY <2>1, InBags DEF BagToSet
  <2>3. PICK f \in ToSet(Features) : a = AtomOf(f, train[s].stdDone, train[s].rows)
    BY <2>2 DEF Known, Atoms
  <2>4. train[s].stdDone = TRUE
    BY <1>3, <1>4, <1>5 DEF Columned
  <2>5. a[1] = f /\ a[2] = <<SetToBag({f}), train[s].rows>>
    BY <2>3, <2>4 DEF AtomOf
  <2>6. a[2] \in V /\ \A v \in V : v = <<v[1], train[s].rows>>
    BY <1>3, <1>4, <1>5, <2>2 DEF Known, Columned
  <2> HIDE DEF V
  <2>7. {v \in V : v[1] = SetToBag({a[1]})} = {a[2]}
    BY <2>5, <2>6
  <2> QED BY <1>1, <2>7 DEF V
<1> QED BY <1>1, <1>2, <1>5 DEF WeightsOf

(* The label of each column of a training set tells, at every moment, what *)
(* its cells are: the features multiplied into them, with their            *)
(* multiplicities, all raw or each scaled with its own factors.  With      *)
(* partitions that is not so, since expandOnPartition finds a product's    *)
(* cells through the partition and its label without it.                   *)
THEOREM LabelsAreTold == Spec => []LabelsTellOfComplete
<1>1. Init => RInv /\ MInv
  BY InitRInv, InitMInv
<1>2. RInv /\ MInv /\ [Next]_vars => RInv' /\ MInv'
  BY NextRInv, NextMInv
<1>3. RInv /\ MInv => LabelsTellOfComplete
  BY LabelsAreRight
<1> QED BY <1>1, <1>2, <1>3, PTL DEF Spec

(* For each solver whose model was written the file holds one free weight, *)
(* before the weights, one weight for each label of the training set, and  *)
(* for each feature in its columns the factors it was standardized with    *)
(* and no others.  This is for partitions too.                             *)
THEOREM ModelIsWritten == Spec => []ModelMatches
<1>1. Init => RInv /\ MInv
  BY InitRInv, InitMInv
<1>2. RInv /\ MInv /\ [Next]_vars => RInv' /\ MInv'
  BY NextRInv, NextMInv
<1>3. RInv /\ MInv => ModelMatches
  BY ModelIsRight
<1> QED BY <1>1, <1>2, <1>3, PTL DEF Spec

-----------------------------------------------------------------------------
(***************************************************************************)
(* Forward selection, for every number of features and of rows, every      *)
(* threshold and all sums of squares that grow with the model.             *)
(***************************************************************************)
(* The scan for the best finds one, and nothing is better.                 *)
LEMMA BestIsGreatest ==
    ASSUME NEW D, D \subseteq Regressors, D # {}, NEW val \in [D -> 0..SSt]
    PROVE  /\ FirstBest(val) \in D
           /\ \A q \in D : val[q] <= val[FirstBest(val)]
<1> DEFINE Lacks(q) == SSt - val[q]
<1>1. \A q \in D : val[q] \in Int /\ Lacks(q) \in Nat
  BY SStAssumption
<1>2. PICK g \in {Lacks(q) : q \in D} : \A h \in {Lacks(q) : q \in D} : g <= h
  <2>1. {Lacks(q) : q \in D} \subseteq Nat /\ {Lacks(q) : q \in D} # {}
    BY <1>1
  <2> HIDE DEF Lacks
  <2> QED BY <2>1, LeastNatural
<1>3. PICK r \in {q \in D : Lacks(q) = g} : \A q \in {p \in D : Lacks(p) = g} : r <= q
  <2> HIDE DEF Lacks
  <2>1. Regressors \subseteq Nat
    BY NumFeaturesAssumption DEF Regressors
  <2>2. {q \in D : Lacks(q) = g} \subseteq Nat
    BY <2>1
  <2>3. {q \in D : Lacks(q) = g} # {}
    BY <1>2
  <2> QED BY <2>2, <2>3, LeastNatural
<1>4. \A q \in D : val[q] < val[r] \/ (val[q] = val[r] /\ r <= q)
  <2> SUFFICES ASSUME NEW q \in D
               PROVE  val[q] < val[r] \/ (val[q] = val[r] /\ r <= q)
    OBVIOUS
  <2>1. g = SSt - val[r] /\ g <= SSt - val[q]
    BY <1>2, <1>3
  <2>2. val[q] <= val[r]
    BY <2>1, <1>1, <1>3, SStAssumption
  <2>3. val[q] = val[r] => r <= q
    BY <2>1, <1>3
  <2> QED BY <2>2, <2>3, <1>1, <1>3
<1>5. r \in DOMAIN val /\ D = DOMAIN val
  BY <1>3
<1>6. /\ FirstBest(val) \in D
      /\ \A q \in D : \/ val[q] < val[FirstBest(val)]
                      \/ val[q] = val[FirstBest(val)] /\ FirstBest(val) <= q
  BY <1>4, <1>5 DEF FirstBest
<1> QED BY <1>1, <1>6

(* A greater sum of squares passes the test if a smaller one does. *)
LEMMA GreaterPasses ==
    ASSUME NEW old \in Int, NEW a \in Int, NEW b \in Int, a <= b,
           observations \in Nat, fin \in Nat, FtestPasses(old, a)
    PROVE  FtestPasses(old, b)
<1>1. PICK x \in Nat : b = a + x
  BY b - a \in Nat
<1>2. (a - old) * observations \in Int /\ x * observations \in Nat /\ fin * x \in Nat
      /\ fin * (SSt - a) \in Int
  BY SStAssumption
<1>3. (b - old) * observations = (a - old) * observations + x * observations
  BY <1>1
<1>4. fin * (SSt - b) = fin * (SSt - a) - fin * x
  BY <1>1, SStAssumption
<1>5. (a - old) * observations > fin * (SSt - a)
  BY DEF FtestPasses
<1>6. (b - old) * observations > fin * (SSt - b)
  BY <1>2, <1>3, <1>4, <1>5
<1> QED BY <1>6 DEF FtestPasses

LEMMA RegressorsAreFinite ==
    IsFiniteSet(Regressors) /\ Cardinality(Regressors) = NumFeatures
<1>1. IsFiniteSet(0..(NumFeatures - 1))
      /\ Cardinality(0..(NumFeatures - 1)) =
            IF 0 > NumFeatures - 1 THEN 0 ELSE (NumFeatures - 1) - 0 + 1
  BY NumFeaturesAssumption, FS_Interval
<1> QED BY <1>1, NumFeaturesAssumption DEF Regressors
-----------------------------------------------------------------------------
(* The inductive invariant, in parts. *)

Looping == place \in {"while", "scan"}

(* Nothing is chosen before a call. *)
NothingYet == place \in {"construct", "call"} => isInModel = {}

(* What the F test compares with is never brought up to date. *)
FixedSSr == Looping => modelSSr = initSSr /\ initRegressor \in isInModel

(* The candidates are the regressors scanned so far that may enter. *)
Candidates ==
    place = "scan" =>
        /\ ssrvalues \subseteq {r \in Regressors : r < rindex} \ isInModel
        /\ \A r \in Regressors \ isInModel : r < rindex =>
              (r \in ssrvalues <=> (mode = "run" => FtestPasses(modelSSr, With(r))))

(* So once a second regressor has entered, every other one passes the test. *)
ThenAllPass ==
    Looping /\ mode = "run" /\ isInModel # {initRegressor} =>
        \A r \in Regressors \ isInModel : FtestPasses(modelSSr, With(r))

(* runForBest has fewer regressors than asked for while it scans. *)
Room ==
    Looping /\ mode = "runForBest" =>
        /\ nvars \in 2..NumFeatures
        /\ Cardinality(isInModel) <= nvars
        /\ place = "scan" => Cardinality(isInModel) < nvars

(* What run returns is the model, and nothing else would enter it. *)
Returned ==
    place = "done" /\ mode = "run" =>
        /\ regs = [f \in Regressors |-> IF f \in isInModel THEN 1 ELSE 0]
        /\ isInModel \in {{initRegressor}, Regressors}
        /\ \A r \in Regressors \ isInModel : ~FtestPasses(modelSSr, With(r))

SelectionIInv ==
    /\ SelectionTypeOK
    /\ Monotone(ssr)
    /\ NothingYet
    /\ FixedSSr
    /\ Candidates
    /\ ThenAllPass
    /\ Room
    /\ Returned
    /\ ExactlyN

LEMMA SumsAreInts ==
    ASSUME SelectionTypeOK, NEW S, S \subseteq Regressors
    PROVE  ssr[S] \in 0..SSt /\ ssr[S] \in Int
BY SStAssumption DEF SelectionTypeOK

LEMMA Numbers ==
    ASSUME SelectionTypeOK
    PROVE  /\ observations \in Nat \ {0} /\ fin \in Nat /\ nvars \in Nat
           /\ modelSSr \in Int /\ SSt \in Nat /\ NumFeatures \in Nat \ {0}
BY NumFeaturesAssumption, RowCountsAssumption, SStAssumption, FinsAssumption,
   CountsAssumption DEF SelectionTypeOK

LEMMA SelectionInitIInv == SelectionInit => SelectionIInv
<1> SUFFICES ASSUME SelectionInit PROVE SelectionIInv
  OBVIOUS
<1>1. SelectionTypeOK
  BY NumFeaturesAssumption, SStAssumption DEF SelectionInit, SelectionTypeOK, NoRegs, Regressors
<1> QED
  BY <1>1 DEF SelectionInit, SelectionIInv, NothingYet, FixedSSr, Candidates, ThenAllPass, Room, Returned,
              ExactlyN, Looping
-----------------------------------------------------------------------------
LEMMA ConstructIInv == SelectionIInv /\ Construct => SelectionIInv'
<1> SUFFICES ASSUME SelectionIInv, Construct PROVE SelectionIInv'
  OBVIOUS
<1> DEFINE val == [r \in Regressors |-> ssr[{r}]]
<1>1. initRegressor' \in Regressors
  <2>1. val \in [Regressors -> 0..SSt]
    BY DEF SelectionIInv, SelectionTypeOK
  <2>2. Regressors # {}
    BY NumFeaturesAssumption DEF Regressors
  <2>3. FirstBest(val) \in Regressors
    BY <2>1, <2>2, BestIsGreatest
  <2> QED BY <2>3 DEF Construct
<1>2. SelectionTypeOK'
  BY <1>1 DEF SelectionIInv, SelectionTypeOK, Construct
<1>3. Monotone(ssr)'
  BY DEF SelectionIInv, Monotone, Construct
<1> QED
  BY <1>2, <1>3 DEF Construct, SelectionIInv, NothingYet, FixedSSr, Candidates, ThenAllPass, Room,
                    Returned, ExactlyN, Looping

LEMMA StartIInv == SelectionIInv /\ (Run \/ RunForBest) => SelectionIInv'
<1> SUFFICES ASSUME SelectionIInv, NEW m \in {"run", "runForBest"}, Start(m),
                    m = "runForBest" => nvars \in 2..NumFeatures
             PROVE  SelectionIInv'
  BY DEF Run, RunForBest
<1>1. initSSr \in 0..SSt
  BY SumsAreInts DEF SelectionIInv, initSSr, SelectionTypeOK
<1>2. SelectionTypeOK'
  BY <1>1, Numbers DEF SelectionIInv, SelectionTypeOK, Start
<1>3. Monotone(ssr)'
  BY DEF SelectionIInv, Monotone, Start
<1>4. FixedSSr'
  BY DEF FixedSSr, Start, initSSr
<1>5. Room'
  <2>1. Cardinality({initRegressor}) = 1
    BY FS_Singleton
  <2> QED BY <2>1 DEF Room, Start
<1> QED
  BY <1>2, <1>3, <1>4, <1>5
     DEF Start, SelectionIInv, NothingYet, Candidates, ThenAllPass, Returned, ExactlyN, Looping

LEMMA RunForBestAtOnceIInv == SelectionIInv /\ RunForBestAtOnce => SelectionIInv'
<1> SUFFICES ASSUME SelectionIInv, RunForBestAtOnce PROVE SelectionIInv'
  OBVIOUS
<1>1. SelectionTypeOK'
  BY Numbers DEF SelectionIInv, SelectionTypeOK, RunForBestAtOnce, NoRegs
<1>2. Monotone(ssr)'
  BY DEF SelectionIInv, Monotone, RunForBestAtOnce
<1>3. ExactlyN'
  <2> SUFFICES ASSUME place' = "done", nvars' <= NumFeatures
               PROVE  Cardinality(SelectedRegressors') = nvars' /\ \A f \in Regressors : regs'[f] <= 1
    BY DEF ExactlyN
  <2>1. nvars' = 1 /\ regs' = [NoRegs EXCEPT ![initRegressor] = 1]
    BY Numbers DEF RunForBestAtOnce, SelectionIInv
  <2>2. SelectedRegressors' = {initRegressor}
    BY <2>1 DEF SelectedRegressors, NoRegs, SelectionIInv, SelectionTypeOK
  <2>3. Cardinality({initRegressor}) = 1
    BY FS_Singleton
  <2>4. \A f \in Regressors : regs'[f] <= 1
    BY <2>1 DEF NoRegs, SelectionIInv, SelectionTypeOK
  <2> QED BY <2>1, <2>2, <2>3, <2>4
<1> QED
  BY <1>1, <1>2, <1>3
     DEF RunForBestAtOnce, SelectionIInv, NothingYet, FixedSSr, Candidates, ThenAllPass, Room,
         Returned, Looping

LEMMA EnterIInv == SelectionIInv /\ Enter => SelectionIInv'
<1> SUFFICES ASSUME SelectionIInv, Enter PROVE SelectionIInv'
  OBVIOUS
<1>1. SelectionTypeOK'
  BY Numbers DEF SelectionIInv, SelectionTypeOK, Enter, args
<1>2. Monotone(ssr)'
  BY DEF SelectionIInv, Monotone, Enter, args
<1>3. Candidates'
  BY DEF Candidates, Enter, Regressors
<1>4. FixedSSr' /\ ThenAllPass'
  BY DEF SelectionIInv, FixedSSr, ThenAllPass, Enter, Looping, args, initSSr, FtestPasses, With
<1>5. Room'
  BY DEF SelectionIInv, Room, Enter, Looping, args
<1> QED
  BY <1>1, <1>2, <1>3, <1>4, <1>5
     DEF Enter, args, SelectionIInv, NothingYet, Returned, ExactlyN

LEMMA ScanIInv == SelectionIInv /\ Scan => SelectionIInv'
<1> SUFFICES ASSUME SelectionIInv, Scan PROVE SelectionIInv'
  OBVIOUS
<1> USE DEF args
<1>1. rindex \in 0..(NumFeatures - 1) /\ NumFeatures \in Nat
  BY NumFeaturesAssumption DEF Scan, Regressors
<1>2. SelectionTypeOK'
  BY <1>1 DEF SelectionIInv, SelectionTypeOK, Scan
<1>3. Monotone(ssr)'
  BY DEF SelectionIInv, Monotone, Scan
<1>4. Candidates'
  <2>1. \A r \in Regressors : r < rindex' <=> r < rindex \/ r = rindex
    BY <1>1 DEF Scan, Regressors
  <2>2. \A r \in Regressors : FtestPasses(modelSSr, With(r))' <=> FtestPasses(modelSSr, With(r))
    BY DEF Scan, FtestPasses, With
  <2>3. ssrvalues' \subseteq {r \in Regressors : r < rindex'} \ isInModel'
    BY <2>1 DEF SelectionIInv, Candidates, Scan
  <2>4. ASSUME NEW r \in Regressors \ isInModel', r < rindex'
        PROVE  r \in ssrvalues' <=> (mode' = "run" => FtestPasses(modelSSr, With(r))')
    <3>1. CASE r = rindex
      <4>1. rindex \notin ssrvalues
        BY <1>1 DEF SelectionIInv, Candidates, Scan
      <4> QED BY <2>2, <3>1, <4>1, <2>4 DEF Scan
    <3>2. CASE r # rindex
      <4>1. r < rindex /\ r \notin isInModel
        BY <2>1, <2>4, <3>2 DEF Scan
      <4>2. r \in ssrvalues' <=> r \in ssrvalues
        BY <3>2 DEF Scan
      <4> QED BY <2>2, <4>1, <4>2 DEF SelectionIInv, Candidates, Scan
    <3> QED BY <3>1, <3>2
  <2> QED BY <2>3, <2>4 DEF Candidates
<1>5. FixedSSr' /\ ThenAllPass'
  BY DEF SelectionIInv, FixedSSr, ThenAllPass, Scan, Looping, initSSr, FtestPasses, With
<1>6. Room'
  BY DEF SelectionIInv, Room, Scan, Looping
<1> QED
  BY <1>2, <1>3, <1>4, <1>5, <1>6 DEF Scan, SelectionIInv, NothingYet, Returned, ExactlyN

LEMMA AbortIInv == SelectionIInv /\ Abort => SelectionIInv'
<1> SUFFICES ASSUME SelectionIInv, Abort PROVE SelectionIInv'
  OBVIOUS
<1>1. SelectionTypeOK'
  BY DEF SelectionIInv, SelectionTypeOK, Abort, args
<1>2. Monotone(ssr)'
  BY DEF SelectionIInv, Monotone, Abort, args
<1> QED
  BY <1>1, <1>2
     DEF Abort, args, SelectionIInv, NothingYet, FixedSSr, Candidates, ThenAllPass, Room, Returned,
         ExactlyN, Looping
-----------------------------------------------------------------------------
(* What enters is the best of the candidates. *)
LEMMA Entering ==
    ASSUME SelectionTypeOK, Candidates, Choose
    PROVE  \E c \in ssrvalues :
              /\ c \in Regressors \ isInModel
              /\ isInModel' = isInModel \cup {c}
              /\ \A q \in ssrvalues : With(q) <= With(c)
<1> DEFINE val == [r \in ssrvalues |-> With(r)]
<1>1. ssrvalues \subseteq Regressors \ isInModel /\ ssrvalues # {}
  BY DEF Candidates, Choose
<1>2. val \in [ssrvalues -> 0..SSt]
  BY <1>1 DEF SelectionTypeOK, With
<1>3. FirstBest(val) \in ssrvalues /\ \A q \in ssrvalues : val[q] <= val[FirstBest(val)]
  BY <1>1, <1>2, BestIsGreatest
<1>4. isInModel' = isInModel \cup {FirstBest(val)}
  BY DEF Choose
<1> QED BY <1>1, <1>3, <1>4

LEMMA ChooseIInv == SelectionIInv /\ Choose => SelectionIInv'
<1> SUFFICES ASSUME SelectionIInv, Choose PROVE SelectionIInv'
  OBVIOUS
<1> USE DEF args
<1>1. PICK c \in Regressors \ isInModel :
         c \in ssrvalues /\ isInModel' = isInModel \cup {c}
  BY Entering DEF SelectionIInv
<1>2. SelectionTypeOK'
  BY <1>1 DEF SelectionIInv, SelectionTypeOK, Choose
<1>3. Monotone(ssr)'
  BY DEF SelectionIInv, Monotone, Choose
<1>4. FixedSSr'
  BY <1>1 DEF SelectionIInv, FixedSSr, Choose, Looping, initSSr
<1>5. ThenAllPass'
  <2> SUFFICES ASSUME mode = "run", NEW r \in Regressors \ isInModel'
               PROVE  FtestPasses(modelSSr, ssr[isInModel' \cup {r}])
    BY DEF ThenAllPass, Choose, FtestPasses, With
  <2>1. FtestPasses(modelSSr, With(c))
    <3>1. \A i \in Regressors : rindex \notin Regressors => i < rindex
      BY Numbers DEF SelectionIInv, SelectionTypeOK, Regressors
    <3> QED BY <1>1, <3>1 DEF SelectionIInv, Candidates, Choose
  <2>2. ssr[isInModel \cup {c}] <= ssr[isInModel' \cup {r}]
    <3>1. isInModel \cup {c} \in SUBSET Regressors /\ isInModel' \cup {r} \in SUBSET Regressors
      BY <1>1 DEF SelectionIInv, SelectionTypeOK
    <3> QED BY <1>1, <3>1 DEF SelectionIInv, Monotone
  <2>3. ssr[isInModel \cup {c}] \in Int /\ ssr[isInModel' \cup {r}] \in Int
    BY <1>1, SumsAreInts DEF SelectionIInv, SelectionTypeOK
  <2> QED BY <2>1, <2>2, <2>3, Numbers, GreaterPasses DEF SelectionIInv, With
<1>6. Room'
  <2> SUFFICES ASSUME mode = "runForBest" PROVE Room'
    BY DEF Room, Choose
  <2>1. Cardinality(isInModel) < nvars /\ nvars \in 2..NumFeatures
    BY DEF SelectionIInv, Room, Choose, Looping
  <2>2. IsFiniteSet(isInModel)
    BY RegressorsAreFinite, FS_Subset DEF SelectionIInv, SelectionTypeOK
  <2>3. Cardinality(isInModel') = Cardinality(isInModel) + 1 /\ Cardinality(isInModel) \in Nat
    BY <1>1, <2>2, FS_AddElement, FS_CardinalityType
  <2> QED BY <2>1, <2>3 DEF Room, Choose
<1> QED
  BY <1>2, <1>3, <1>4, <1>5, <1>6
     DEF Choose, SelectionIInv, NothingYet, Candidates, Returned, ExactlyN

LEMMA FinishIInv == SelectionIInv /\ Finish => SelectionIInv'
<1> SUFFICES ASSUME SelectionIInv, Finish PROVE SelectionIInv'
  OBVIOUS
<1> USE DEF args
<1>1. SelectionTypeOK'
  BY DEF SelectionIInv, SelectionTypeOK, Finish
<1>2. Monotone(ssr)'
  BY DEF SelectionIInv, Monotone, Finish
<1>3. Returned'
  <2> SUFFICES ASSUME mode = "run"
               PROVE  /\ isInModel \in {{initRegressor}, Regressors}
                      /\ \A r \in Regressors \ isInModel : ~FtestPasses(modelSSr, With(r))
    BY DEF Returned, Finish, FtestPasses, With
  <2>1. \A r \in Regressors \ isInModel : ~FtestPasses(modelSSr, With(r))
    <3>1. \A i \in Regressors : rindex \notin Regressors => i < rindex
      BY Numbers DEF SelectionIInv, SelectionTypeOK, Regressors
    <3> QED BY <3>1 DEF SelectionIInv, Candidates, Finish
  <2>2. isInModel # {initRegressor} => Regressors \ isInModel = {}
    BY <2>1 DEF SelectionIInv, ThenAllPass, Looping, Finish
  <2>3. isInModel \subseteq Regressors
    BY DEF SelectionIInv, SelectionTypeOK
  <2> QED BY <2>1, <2>2, <2>3
<1>4. ExactlyN'
  <2> SUFFICES ASSUME mode = "runForBest"
               PROVE  Cardinality(SelectedRegressors') = nvars /\ \A f \in Regressors : regs'[f] <= 1
    BY DEF ExactlyN, Finish
  <2>1. SelectedRegressors' = isInModel
    BY DEF SelectedRegressors, Finish, SelectionIInv, SelectionTypeOK
  <2>2. IsFiniteSet(isInModel)
    BY RegressorsAreFinite, FS_Subset DEF SelectionIInv, SelectionTypeOK
  <2>3. Cardinality(isInModel) \in Nat
    BY <2>2, FS_CardinalityType
  <2>4. Cardinality(isInModel) = nvars
    BY <2>3, Numbers DEF Finish, SelectionIInv, Room, Looping
  <2> QED BY <2>1, <2>4 DEF Finish
<1> QED
  BY <1>1, <1>2, <1>3, <1>4
     DEF Finish, SelectionIInv, NothingYet, FixedSSr, Candidates, ThenAllPass, Room, Looping

LEMMA StutterIInv == SelectionIInv /\ UNCHANGED selectionVars => SelectionIInv'
<1> SUFFICES ASSUME SelectionIInv, UNCHANGED selectionVars PROVE SelectionIInv'
  OBVIOUS
<1> USE DEF selectionVars, args
<1>1. SelectionTypeOK' /\ Monotone(ssr)'
  BY DEF SelectionIInv, SelectionTypeOK, Monotone
<1>2. FixedSSr' /\ Candidates' /\ ThenAllPass' /\ Returned'
  BY DEF SelectionIInv, FixedSSr, Candidates, ThenAllPass, Returned, Looping, initSSr, FtestPasses,
         With
<1> QED BY <1>1, <1>2 DEF SelectionIInv, NothingYet, Room, ExactlyN, SelectedRegressors, Looping

LEMMA SelectionNextIInv == SelectionIInv /\ [SelectionNext]_selectionVars => SelectionIInv'
BY ConstructIInv, StartIInv, RunForBestAtOnceIInv, EnterIInv, ScanIInv, AbortIInv,
   ChooseIInv, FinishIInv, StutterIInv DEF SelectionNext, SelectionEnded

THEOREM SelectionInvariance == SelectionSpec => []SelectionIInv
BY SelectionInitIInv, SelectionNextIInv, PTL DEF SelectionSpec
-----------------------------------------------------------------------------
(* The variables keep their types: the best candidate is one of the        *)
(* candidates, whatever the sums of squares are.                           *)
THEOREM SelectionTypeCorrect == SelectionSpec => []SelectionTypeOK
BY SelectionInvariance, PTL DEF SelectionIInv

(* No feature that run() leaves out passes the test it makes. *)
THEOREM StopsRightly == SelectionSpec => []NothingLeftPasses
<1>1. SelectionIInv => NothingLeftPasses
  <2> SUFFICES ASSUME SelectionIInv, place = "done", mode = "run"
               PROVE  \A r \in Regressors \ SelectedRegressors :
                         ~FtestPasses(modelSSr, ssr[SelectedRegressors \cup {r}])
    BY DEF NothingLeftPasses
  <2>1. SelectedRegressors = isInModel
    BY DEF SelectionIInv, Returned, SelectedRegressors, SelectionTypeOK
  <2> QED BY <2>1 DEF SelectionIInv, Returned, With
<1> QED BY <1>1, SelectionInvariance, PTL

(* The assertions of the two loops never fail. *)
THEOREM AssertionsHold == SelectionSpec => []CandidatesAreNew
<1>1. SelectionIInv => CandidatesAreNew
  <2> SUFFICES ASSUME SelectionIInv, place = "scan"
               PROVE  /\ ssrvalues \cap isInModel = {}
                      /\ mode = "runForBest" /\ rindex \notin Regressors => ssrvalues # {}
    BY DEF CandidatesAreNew
  <2>1. ssrvalues \cap isInModel = {}
    BY DEF SelectionIInv, Candidates
  <2>2. ASSUME mode = "runForBest", rindex \notin Regressors PROVE ssrvalues # {}
    <3>1. \A i \in Regressors : i < rindex
      BY <2>2, Numbers DEF SelectionIInv, SelectionTypeOK, Regressors
    <3>2. isInModel # Regressors
      BY <2>2, RegressorsAreFinite, Numbers DEF SelectionIInv, Room, Looping
    <3>3. PICK r \in Regressors \ isInModel : TRUE
      BY <3>2 DEF SelectionIInv, SelectionTypeOK
    <3> QED BY <2>2, <3>1, <3>3 DEF SelectionIInv, Candidates
  <2> QED BY <2>1, <2>2
<1> QED BY <1>1, SelectionInvariance, PTL

(* runForBest(n) returns n regressors, each once. *)
THEOREM ReturnsAsMany == SelectionSpec => []ExactlyN
BY SelectionInvariance, PTL DEF SelectionIInv

(* Each step of either search adds the regressor that explains most. *)
THEOREM GreedySearch == SelectionSpec => Greedy
<1>1. SelectionIInv /\ [SelectionNext]_selectionVars => [GreedyStep]_selectionVars
  <2> SUFFICES ASSUME SelectionIInv, SelectionNext PROVE GreedyStep
    BY DEF GreedyStep, selectionVars
  <2>1. CASE isInModel' = isInModel
    BY <2>1 DEF GreedyStep
  <2>2. CASE isInModel = {}
    BY <2>2 DEF GreedyStep
  <2>3. CASE Choose
    <3>1. PICK c \in ssrvalues :
             /\ c \in Regressors \ isInModel
             /\ isInModel' = isInModel \cup {c}
             /\ \A q \in ssrvalues : With(q) <= With(c)
      BY <2>3, Entering DEF SelectionIInv
    <3>2. Cardinality(isInModel' \ isInModel) = 1 /\ isInModel \subseteq isInModel'
      <4>1. isInModel' \ isInModel = {c}
        BY <3>1
      <4> QED BY <3>1, <4>1, FS_Singleton
    <3>3. \A i \in Regressors : i < rindex
      BY <2>3, Numbers DEF SelectionIInv, SelectionTypeOK, Regressors, Choose
    <3>4. ASSUME NEW q \in Regressors \ isInModel PROVE With(q) <= With(c)
      <4>1. With(q) \in Int /\ With(c) \in Int
        BY <3>1, <3>4, SumsAreInts DEF SelectionIInv, With, SelectionTypeOK
      <4>2. CASE mode = "runForBest"
        BY <2>3, <3>1, <3>3, <3>4, <4>2 DEF SelectionIInv, Candidates, Choose
      <4>3. CASE mode = "run"
        <5>1. FtestPasses(modelSSr, With(c))
          BY <2>3, <3>1, <3>3, <4>3 DEF SelectionIInv, Candidates, Choose
        <5>2. FtestPasses(modelSSr, With(q)) => With(q) <= With(c)
          BY <2>3, <3>1, <3>3, <3>4 DEF SelectionIInv, Candidates, Choose
        <5>3. With(c) <= With(q) => FtestPasses(modelSSr, With(q))
          BY <4>1, <5>1, Numbers, GreaterPasses DEF SelectionIInv
        <5> QED BY <4>1, <5>2, <5>3
      <4> QED BY <4>2, <4>3 DEF SelectionIInv, SelectionTypeOK
    <3> QED BY <3>1, <3>2, <3>4 DEF GreedyStep, With
  <2>4. CASE place \in {"construct", "call"}
    BY <2>2, <2>4 DEF SelectionIInv, NothingYet
  <2> QED
    BY <2>1, <2>3, <2>4
       DEF SelectionNext, Construct, Run, RunForBest, Start, RunForBestAtOnce, Enter, Scan, Abort,
           Finish, SelectionEnded, selectionVars, args
<1> QED BY <1>1, SelectionInvariance, PTL DEF SelectionSpec, Greedy
-----------------------------------------------------------------------------
(* What the coach takes for the outcome of a selection is what forward     *)
(* selection does.                                                         *)

(* A model of more than one regressor had rows enough, and so has any that *)
(* the scan has tried.                                                     *)
EnoughRows ==
    /\ Looping => isInModel = {initRegressor} \/ Cardinality(isInModel) < observations
    /\ place = "scan" /\ (\E r \in Regressors \ isInModel : r < rindex) => ~TooFewRows

(* It gives up when nothing is asked for, or when rows are too few. *)
GivesUp ==
    place = "exited" =>
        \/ mode = "runForBest" /\ nvars = 0
        \/ mode = "runForBest" /\ nvars \in 2..NumFeatures /\ observations <= nvars
        \/ mode = "run" /\ NumFeatures > 1 /\ observations <= NumFeatures

AsModel == regs = [f \in Regressors |-> IF f \in isInModel THEN 1 ELSE 0]

Answers ==
    place = "done" =>
        \/ /\ mode = "run" /\ AsModel /\ isInModel \in {{initRegressor}, Regressors}
           /\ NumFeatures = 1 \/ observations > Cardinality(isInModel) + 1
                \/ (isInModel = Regressors /\ observations > NumFeatures)
        \/ /\ mode = "runForBest" /\ nvars = 1
           /\ regs = [NoRegs EXCEPT ![initRegressor] = 1]
        \/ /\ mode = "runForBest" /\ nvars > NumFeatures
           /\ regs = [f \in Regressors |-> IF f = 0 THEN NumFeatures + 1 ELSE 1]
        \/ /\ mode = "runForBest" /\ nvars \in 2..NumFeatures /\ AsModel
           /\ Cardinality(isInModel) = nvars /\ observations > nvars

AnswerInv == EnoughRows /\ GivesUp /\ Answers

LEMMA ModelSize ==
    ASSUME SelectionIInv
    PROVE  /\ IsFiniteSet(isInModel) /\ Cardinality(isInModel) \in 0..NumFeatures
           /\ \A r \in Regressors \ isInModel : Cardinality(isInModel) < NumFeatures
           /\ observations \in Nat /\ nvars \in Nat /\ NumFeatures \in Nat \ {0}
           /\ rindex \in Nat /\ initRegressor \in Regressors
<1>1. isInModel \subseteq Regressors /\ SelectionTypeOK
  BY DEF SelectionIInv, SelectionTypeOK
<1>2. IsFiniteSet(isInModel) /\ Cardinality(isInModel) \in Nat
      /\ Cardinality(isInModel) <= NumFeatures
  BY <1>1, RegressorsAreFinite, FS_Subset, FS_CardinalityType
<1>3. ASSUME NEW r \in Regressors \ isInModel PROVE Cardinality(isInModel) < NumFeatures
  <2>1. isInModel # Regressors
    OBVIOUS
  <2>2. Cardinality(isInModel) # NumFeatures
    BY <1>1, <2>1, RegressorsAreFinite, FS_Subset
  <2> QED BY <1>2, <2>2, NumFeaturesAssumption
<1> QED BY <1>1, <1>2, <1>3, Numbers DEF SelectionTypeOK

LEMMA InitAnswers == SelectionInit => AnswerInv
BY DEF SelectionInit, AnswerInv, EnoughRows, GivesUp, Answers, Looping

LEMMA ScanAnswers ==
    ASSUME SelectionIInv, AnswerInv, Scan
    PROVE  AnswerInv'
<1>1. rindex \in Nat /\ rindex' = rindex + 1
  BY ModelSize DEF Scan
<1>2. UNCHANGED <<args, place, isInModel, regs>> /\ place = "scan"
  BY DEF Scan
<1>3. ASSUME NEW r \in Regressors \ isInModel, r < rindex + 1 PROVE ~TooFewRows
  <2>1. CASE r = rindex
    BY <1>3, <2>1 DEF Scan
  <2>2. CASE r # rindex
    <3>1. r \in Nat
      BY NumFeaturesAssumption DEF Regressors
    <3>2. r < rindex
      BY <1>1, <1>3, <2>2, <3>1
    <3> QED BY <1>2, <3>2 DEF AnswerInv, EnoughRows
  <2> QED BY <2>1, <2>2
<1>4. EnoughRows'
  BY <1>1, <1>2, <1>3 DEF AnswerInv, EnoughRows, TooFewRows, Looping, args
<1> QED BY <1>2, <1>4 DEF AnswerInv, GivesUp, Answers

LEMMA ChooseAnswers ==
    ASSUME SelectionIInv, AnswerInv, Choose
    PROVE  AnswerInv'
<1>1. PICK c \in Regressors \ isInModel :
         c \in ssrvalues /\ isInModel' = isInModel \cup {c}
  BY Entering DEF SelectionIInv
<1>2. c < rindex
  BY <1>1 DEF SelectionIInv, Candidates, Choose
<1>3. ~TooFewRows
  BY <1>1, <1>2 DEF AnswerInv, EnoughRows, Choose
<1>4. Cardinality(isInModel') = Cardinality(isInModel) + 1
      /\ Cardinality(isInModel) \in Nat
  BY <1>1, ModelSize, FS_AddElement
<1>5. Cardinality(isInModel') < observations
  BY <1>3, <1>4, ModelSize DEF TooFewRows
<1>6. place' = "while" /\ UNCHANGED args
  BY DEF Choose
<1> QED BY <1>5, <1>6 DEF AnswerInv, EnoughRows, GivesUp, Answers, args

LEMMA AbortAnswers ==
    ASSUME SelectionIInv, AnswerInv, Abort
    PROVE  AnswerInv'
<1> DEFINE m == Cardinality(isInModel)
<1>1. place = "scan" /\ place' = "exited" /\ UNCHANGED args /\ m + 2 > observations
      /\ rindex \in Regressors \ isInModel
  BY DEF Abort, TooFewRows
<1>2. m \in Nat /\ m < NumFeatures /\ NumFeatures \in Nat /\ observations \in Nat /\ nvars \in Nat
  BY <1>1, ModelSize
<1>3. m > 0
  <2>1. m = 0 <=> isInModel = {}
    BY ModelSize, FS_EmptySet
  <2>2. isInModel # {}
    BY <1>1 DEF SelectionIInv, FixedSSr, Looping
  <2> QED BY <1>2, <2>1, <2>2
<1>4. mode = "runForBest" => nvars \in 2..NumFeatures /\ m < nvars
  BY <1>1 DEF SelectionIInv, Room, Looping
<1>5. mode \in {"run", "runForBest"}
  BY DEF SelectionIInv, SelectionTypeOK
<1> HIDE DEF m
<1>6. \/ mode = "runForBest" /\ nvars \in 2..NumFeatures /\ observations <= nvars
      \/ mode = "run" /\ NumFeatures > 1 /\ observations <= NumFeatures
  BY <1>1, <1>2, <1>3, <1>4, <1>5
<1> QED BY <1>1, <1>6 DEF AnswerInv, EnoughRows, GivesUp, Answers, Looping, args

LEMMA FinishAnswers ==
    ASSUME SelectionIInv, SelectionIInv', AnswerInv, Finish
    PROVE  AnswerInv'
<1>1. place' = "done" /\ UNCHANGED <<args, isInModel>> /\ AsModel'
  BY DEF Finish, AsModel
<1>2. ASSUME mode = "run"
      PROVE  /\ isInModel \in {{initRegressor}, Regressors}
             /\ \/ NumFeatures = 1 \/ observations > Cardinality(isInModel) + 1
                \/ isInModel = Regressors /\ observations > NumFeatures
  <2>1. isInModel \in {{initRegressor}, Regressors}
    BY <1>1, <1>2 DEF SelectionIInv, Returned, args
  <2>2. place = "scan" /\ rindex \notin Regressors /\ rindex \in Nat
    BY <1>2, ModelSize DEF Finish
  <2>3. CASE isInModel = Regressors
    <3>1. Cardinality(isInModel) = NumFeatures
      BY <2>3, RegressorsAreFinite
    <3>2. CASE isInModel = {initRegressor}
      <4>1. Cardinality(isInModel) = 1
        BY <3>2, FS_Singleton
      <4> QED BY <2>1, <3>1, <4>1
    <3>3. CASE isInModel # {initRegressor}
      BY <2>1, <2>2, <2>3, <3>1, <3>3 DEF AnswerInv, EnoughRows, Looping
    <3> QED BY <3>2, <3>3
  <2>4. CASE isInModel # Regressors
    <3>1. PICK r \in Regressors \ isInModel : TRUE
      BY <2>1, <2>4, ModelSize
    <3>2. r < rindex
      BY <2>2, NumFeaturesAssumption DEF Regressors
    <3>3. ~TooFewRows
      BY <2>2, <3>2 DEF AnswerInv, EnoughRows
    <3> QED BY <2>1, <3>3, ModelSize DEF TooFewRows
  <2> QED BY <2>1, <2>3, <2>4
<1>3. ASSUME mode = "runForBest"
      PROVE  nvars \in 2..NumFeatures /\ Cardinality(isInModel) = nvars /\ observations > nvars
  <2>1. place = "while" /\ Cardinality(isInModel) >= nvars
    BY <1>3 DEF Finish
  <2>2. nvars \in 2..NumFeatures /\ Cardinality(isInModel) <= nvars
    BY <1>3, <2>1 DEF SelectionIInv, Room, Looping
  <2>3. Cardinality(isInModel) = nvars
    BY <2>1, <2>2, ModelSize
  <2>4. isInModel # {initRegressor}
    BY <2>2, <2>3, FS_Singleton
  <2> QED BY <2>1, <2>2, <2>3, <2>4 DEF AnswerInv, EnoughRows, Looping
<1>4. mode \in {"run", "runForBest"}
  BY DEF SelectionIInv, SelectionTypeOK
<1>5. Answers'
  BY <1>1, <1>2, <1>3, <1>4 DEF Answers, args
<1> QED BY <1>1, <1>5 DEF AnswerInv, EnoughRows, GivesUp, Looping

LEMMA AtOnceAnswers ==
    ASSUME SelectionIInv, AnswerInv, RunForBestAtOnce
    PROVE  AnswerInv'
<1>1. mode' = "runForBest" /\ nvars' = nvars
  BY DEF RunForBestAtOnce
<1> QED BY <1>1 DEF RunForBestAtOnce, AnswerInv, EnoughRows, GivesUp, Answers, Looping

LEMMA NextAnswers ==
    ASSUME SelectionIInv, SelectionIInv', AnswerInv, [SelectionNext]_selectionVars
    PROVE  AnswerInv'
<1>1. CASE Construct \/ Run \/ RunForBest
  BY <1>1 DEF Construct, Run, RunForBest, Start, AnswerInv, EnoughRows, GivesUp, Answers, Looping
<1>2. CASE Enter
  <2>1. ~(\E r \in Regressors : r < 0)
    BY NumFeaturesAssumption DEF Regressors
  <2> QED BY <1>2, <2>1 DEF Enter, AnswerInv, EnoughRows, GivesUp, Answers, Looping, args
<1>3. CASE UNCHANGED selectionVars
  BY <1>3 DEF selectionVars, args, AnswerInv, EnoughRows, GivesUp, Answers, AsModel, Looping,
              TooFewRows
<1> QED
  BY <1>1, <1>2, <1>3, ScanAnswers, ChooseAnswers, AbortAnswers, FinishAnswers, AtOnceAnswers
     DEF SelectionNext, SelectionEnded

-----------------------------------------------------------------------------
(* The elements of A are an increasing sequence of n. *)
Orders(n, A) ==
    \E cs \in [1..n -> A] : Increasing(cs) /\ \A x \in A : \E i \in 1..n : cs[i] = x

LEMMA Listed ==
    ASSUME NEW m \in Nat, NEW k \in 0..m, NEW S, S \subseteq 1..m, Cardinality(S) = k
    PROVE  Orders(k, S)
<1> DEFINE T == {n \in 0..m : \A A \in SUBSET (1..m) : Cardinality(A) = n => Orders(n, A)}
<1>1. \A A \in SUBSET (1..m) : IsFiniteSet(A)
  <2>1. IsFiniteSet(1..m)
    BY FS_Interval
  <2> QED BY <2>1, FS_Subset
<1>2. 0 \in T
  <2>1. ASSUME NEW A \in SUBSET (1..m), Cardinality(A) = 0 PROVE Orders(0, A)
    <3>1. A = {}
      BY <1>1, <2>1, FS_EmptySet
    <3>2. <<>> \in [1..0 -> A] /\ Increasing(<<>>)
      BY DEF Increasing
    <3> QED BY <3>1, <3>2 DEF Orders
  <2> QED BY <2>1
<1>3. ASSUME NEW n \in 1..m, n - 1 \in T PROVE n \in T
  <2>1. ASSUME NEW A \in SUBSET (1..m), Cardinality(A) = n PROVE Orders(n, A)
    <3> DEFINE x == Max(A)
               B == A \ {x}
    <3>1. A # {}
      BY <2>1, FS_EmptySet
    <3>2. A \subseteq Nat
      OBVIOUS
    <3>3. x \in A /\ \A y \in A : y <= x
      BY <1>1, <3>1, <3>2, MaxUpTo
    <3> HIDE DEF x
    <3>4. Cardinality(B) = n - 1
      BY <1>1, <2>1, <3>3, FS_RemoveElement
    <3>5. Orders(n - 1, B)
      <4>1. B \in SUBSET (1..m)
        OBVIOUS
      <4> HIDE DEF B
      <4> QED BY <1>3, <3>4, <4>1
    <3>6. PICK cs \in [1..(n - 1) -> B] :
             Increasing(cs) /\ \A y \in B : \E i \in 1..(n - 1) : cs[i] = y
      BY <3>5 DEF Orders
    <3>7. Len(cs) = n - 1 /\ n - 1 \in Nat
      OBVIOUS
    <3> DEFINE all == [i \in 1..n |-> IF i = n THEN x ELSE cs[i]]
    <3>8. all \in [1..n -> A]
      <4>1. \A i \in 1..n : i # n => i \in 1..(n - 1)
        OBVIOUS
      <4> QED BY <3>3, <4>1
    <3>9. Increasing(all)
      <4>1. Len(all) = n
        OBVIOUS
      <4>2. ASSUME NEW i \in 1..n, NEW j \in 1..n, i < j PROVE all[i] < all[j]
        <5>1. i \in 1..(n - 1) /\ all[i] = cs[i] /\ cs[i] \in B /\ i # n
          BY <4>2
        <5>2. CASE j = n
          <6>1. cs[i] \in A /\ cs[i] # x /\ cs[i] \in Nat /\ x \in Nat
            BY <3>2, <3>3, <5>1
          <6>2. all[j] = x
            BY <5>2
          <6> QED BY <3>3, <5>1, <6>1, <6>2
        <5>3. CASE j # n
          BY <3>6, <3>7, <4>2, <5>1, <5>3 DEF Increasing
        <5> QED BY <5>2, <5>3
      <4> HIDE DEF all
      <4> QED BY <4>1, <4>2 DEF Increasing
    <3>10. \A y \in A : \E i \in 1..n : all[i] = y
      <4>1. TAKE y \in A
      <4>2. CASE y = x
        <5>1. n \in 1..n /\ all[n] = x
          OBVIOUS
        <5> QED BY <4>2, <5>1
      <4>3. CASE y # x
        <5>1. PICK i \in 1..(n - 1) : cs[i] = y
          BY <3>6, <4>3
        <5>2. i \in 1..n /\ all[i] = y
          BY <5>1
        <5> QED BY <5>2
      <4> QED BY <4>2, <4>3
    <3> QED BY <3>8, <3>9, <3>10 DEF Orders
  <2> QED BY <2>1
<1>4. \A n \in 0..m : n \in T
  <2> HIDE DEF T
  <2> QED BY <1>2, <1>3, UpTo
<1> QED BY <1>4

(* The coach calls forward selection on the columns and rows of a data set *)
(* as its configuration says.                                              *)
RunsOn(ds) ==
    /\ IsWhole(ds) /\ NullCols(ds) = {}
    /\ NumCols(ds) = NumFeatures /\ Len(ds.rows) = observations
    /\ nvars = input.fsInsts
    /\ \/ input.fsopt = "DELTA" /\ mode = "run"
       \/ input.fsopt = "INSTS" /\ mode = "runForBest"

(* The vector holds each regressor, as the column after it, as often as    *)
(* forward selection says.                                                 *)
Lists(res) == \A f \in Regressors : Cardinality({i \in DOMAIN res : res[i] = f + 1}) = regs[f]

Fits(ds) ==
    RunsOn(ds) =>
        /\ place = "done" => \E res \in Selections(ds) : Lists(res)
        /\ place = "exited" =>
               (IF mode = "runForBest" /\ nvars = 0 THEN "failed" ELSE "aborted")
                   \in SelectionStops(ds)

(* A vector in which each column is at most once is its set. *)
LEMMA ListsOnce ==
    ASSUME NEW k \in Nat, NEW res \in [1..k -> 1..NumFeatures], Increasing(res),
           \A f \in Regressors : (\E i \in 1..k : res[i] = f + 1) => regs[f] = 1,
           \A f \in Regressors : ~(\E i \in 1..k : res[i] = f + 1) => regs[f] = 0
    PROVE  Lists(res)
<1> SUFFICES ASSUME NEW f \in Regressors
             PROVE  Cardinality({i \in 1..k : res[i] = f + 1}) = regs[f]
  BY DEF Lists
<1> DEFINE P == {i \in 1..k : res[i] = f + 1}
<1>1. CASE \E i \in 1..k : res[i] = f + 1
  <2>1. PICK i \in 1..k : res[i] = f + 1
    BY <1>1
  <2>2. \A j \in 1..k : j # i => res[j] # res[i]
    <3>1. Len(res) = k
      OBVIOUS
    <3>2. TAKE j \in 1..k
    <3>3. j < i => res[j] < res[i]
      BY <3>1 DEF Increasing
    <3>4. i < j => res[i] < res[j]
      BY <3>1 DEF Increasing
    <3>5. res[i] \in Int /\ res[j] \in Int
      OBVIOUS
    <3> QED BY <3>3, <3>4, <3>5
  <2>3. P = {i}
    BY <2>1, <2>2
  <2> QED BY <1>1, <2>3, FS_Singleton
<1>2. CASE ~ \E i \in 1..k : res[i] = f + 1
  <2>1. P = {}
    BY <1>2
  <2> QED BY <1>2, <2>1, FS_EmptySet
<1> QED BY <1>1, <1>2

LEMMA DataFacts ==
    ASSUME SelectionIInv, NEW ds, RunsOn(ds)
    PROVE  /\ NumCols(ds) = NumFeatures /\ DOMAIN ds.cols = 1..NumFeatures
           /\ NumFeatures \in Nat \ {0} /\ ~Unusable(ds) /\ Len(ds.rows) = observations
           /\ Regressors = 0..(NumFeatures - 1)
<1>1. DOMAIN ds.cols = 1..NumFeatures
  BY DEF RunsOn, IsWhole, IsSeq, NumCols
<1> QED BY <1>1, NumFeaturesAssumption DEF RunsOn, Unusable, Regressors

(* The model of forward selection, as a vector. *)
LEMMA ModelAsVector ==
    ASSUME SelectionIInv, AsModel, NEW ds, RunsOn(ds)
    PROVE  \E res \in Sets(ds, Cardinality(isInModel)) : Lists(res)
<1> DEFINE m == NumFeatures
           k == Cardinality(isInModel)
           S == {f + 1 : f \in isInModel}
<1>1. isInModel \subseteq 0..(m - 1) /\ m \in Nat \ {0} /\ k \in 0..m /\ Regressors = 0..(m - 1)
  BY ModelSize, DataFacts DEF SelectionIInv, SelectionTypeOK
<1>2. S \subseteq 1..m
  BY <1>1
<1>3. Cardinality(S) = k
  <2> DEFINE next == [f \in isInModel |-> f + 1]
  <2>1. next \in Bijection(isInModel, S)
    <3>1. next \in [isInModel -> S] /\ \A y \in S : \E f \in isInModel : next[f] = y
      OBVIOUS
    <3>2. \A f, g \in isInModel : next[f] = next[g] => f = g
      BY <1>1
    <3> HIDE DEF next
    <3> QED BY <3>1, <3>2 DEF Bijection, Injection, Surjection, IsInjective
  <2> QED BY <2>1, ModelSize, FS_Bijection DEF ExistsBijection
<1> HIDE DEF k
<1>4. PICK cs \in [1..k -> S] : Increasing(cs) /\ \A x \in S : \E i \in 1..k : cs[i] = x
  <2>1. Orders(k, S)
    <3> HIDE DEF S
    <3> QED BY <1>1, <1>2, <1>3, Listed
  <2> QED BY <2>1 DEF Orders
<1>5. cs \in [1..k -> 1..m]
  BY <1>2, <1>4
<1>6. Len(cs) = k
  BY <1>1
<1>7. cs \in Sets(ds, k)
  BY <1>4, <1>5, <1>6, DataFacts DEF Sets, IsSorted, Increasing
<1>8. \A f \in Regressors : /\ (\E i \in 1..k : cs[i] = f + 1) => regs[f] = 1
                            /\ ~(\E i \in 1..k : cs[i] = f + 1) => regs[f] = 0
  <2>1. TAKE f \in Regressors
  <2>2. regs[f] = IF f \in isInModel THEN 1 ELSE 0
    BY DEF AsModel
  <2>3. f \in isInModel => \E i \in 1..k : cs[i] = f + 1
    BY <1>4
  <2>4. ASSUME NEW i \in 1..k, cs[i] = f + 1 PROVE f \in isInModel
    <3>1. PICK g \in isInModel : cs[i] = g + 1
      OBVIOUS
    <3>2. f \in Int /\ g \in Int
      BY <1>1
    <3> QED BY <2>4, <3>1, <3>2
  <2> QED BY <2>2, <2>3, <2>4
<1>9. Lists(cs)
  <2>1. k \in Nat /\ cs \in [1..k -> 1..NumFeatures]
    BY <1>1, <1>5
  <2> QED BY <1>4, <1>8, <2>1, ListsOnce
<1> QED BY <1>7, <1>9 DEF k

(* One column alone, and all the columns. *)
LEMMA AloneLists ==
    ASSUME SelectionIInv, NEW ds, RunsOn(ds), NEW c \in Regressors,
           regs = [f \in Regressors |-> IF f \in {c} THEN 1 ELSE 0]
    PROVE  <<c + 1>> \in Alone(ds) /\ Lists(<<c + 1>>)
<1>1. c \in 0..(NumFeatures - 1) /\ c + 1 \in 1..NumFeatures /\ DOMAIN ds.cols = 1..NumFeatures
  BY DataFacts
<1>2. <<c + 1>> \in Alone(ds)
  BY <1>1 DEF Alone
<1> DEFINE res == <<c + 1>>
<1>3. res \in [1..1 -> 1..NumFeatures] /\ Increasing(res) /\ \A i \in 1..1 : res[i] = c + 1
  BY <1>1 DEF Increasing
<1>4. \A f \in Regressors : /\ (\E i \in 1..1 : res[i] = f + 1) => regs[f] = 1
                            /\ ~(\E i \in 1..1 : res[i] = f + 1) => regs[f] = 0
  <2> TAKE f \in Regressors
  <2>1. f \in Int /\ c \in Int
    BY <1>1, DataFacts
  <2>2. (\E i \in 1..1 : res[i] = f + 1) <=> f = c
    <3>1. 1 \in 1..1
      OBVIOUS
    <3> HIDE DEF res
    <3> QED BY <1>3, <2>1, <3>1
  <2> HIDE DEF res
  <2> QED BY <2>2
<1>5. Lists(res)
  <2> HIDE DEF res
  <2> QED BY <1>3, <1>4, ListsOnce
<1> QED BY <1>2, <1>5

LEMMA AllLists ==
    ASSUME SelectionIInv, NEW ds, RunsOn(ds), regs = [f \in Regressors |-> 1]
    PROVE  Lists(AllOf(ds))
<1> DEFINE res == AllOf(ds)
<1>1. res = [c \in 1..NumFeatures |-> c] /\ NumFeatures \in Nat
  BY DataFacts DEF AllOf
<1>2. Increasing(res) /\ res \in [1..NumFeatures -> 1..NumFeatures]
  BY <1>1 DEF Increasing
<1>3. \A f \in Regressors : \E i \in 1..NumFeatures : res[i] = f + 1
  <2> TAKE f \in Regressors
  <2>1. f + 1 \in 1..NumFeatures /\ res[f + 1] = f + 1
    BY <1>1, DataFacts
  <2> QED BY <2>1
<1> HIDE DEF res
<1>4. Lists(res)
  BY <1>1, <1>2, <1>3, ListsOnce
<1> QED BY <1>4 DEF res

(* When too many are asked for the first column comes once more for each. *)
LEMMA OverLists ==
    ASSUME SelectionIInv, NEW ds, RunsOn(ds),
           regs = [f \in Regressors |-> IF f = 0 THEN NumFeatures + 1 ELSE 1]
    PROVE  Lists([c \in 1..NumFeatures |-> 1] \o AllOf(ds))
<1> DEFINE n == NumFeatures
           res == [c \in 1..n |-> 1] \o AllOf(ds)
<1>1. AllOf(ds) = [c \in 1..n |-> c] /\ n \in Nat \ {0} /\ Regressors = 0..(n - 1)
  BY DataFacts DEF AllOf
<1>2. /\ DOMAIN res = 1..(n + n)
      /\ \A i \in 1..(n + n) : res[i] = IF i <= n THEN 1 ELSE i - n
  <2>1. Len([c \in 1..n |-> 1]) = n /\ Len([c \in 1..n |-> c]) = n
    BY <1>1
  <2> HIDE DEF n
  <2>2. res = [i \in 1..(n + n) |-> IF i <= n THEN [c \in 1..n |-> 1][i] ELSE [c \in 1..n |-> c][i - n]]
    BY <1>1, <2>1
  <2>3. \A i \in 1..(n + n) : IF i <= n THEN i \in 1..n ELSE i - n \in 1..n
    BY <1>1
  <2> HIDE DEF res
  <2> QED BY <2>2, <2>3
<1> HIDE DEF n, res
<1>3. ASSUME NEW f \in Regressors
      PROVE  Cardinality({i \in DOMAIN res : res[i] = f + 1}) = IF f = 0 THEN n + 1 ELSE 1
  <2>1. CASE f = 0
    <3>1. {i \in DOMAIN res : res[i] = f + 1} = 1..(n + 1)
      BY <1>1, <1>2, <2>1
    <3>2. Cardinality(1..(n + 1)) = n + 1
      BY <1>1, FS_Interval
    <3> QED BY <2>1, <3>1, <3>2
  <2>2. CASE f # 0
    <3>1. {i \in DOMAIN res : res[i] = f + 1} = {n + f + 1}
      BY <1>1, <1>2, <2>2
    <3> QED BY <2>2, <3>1, FS_Singleton
  <2> QED BY <2>1, <2>2
<1> QED BY <1>3 DEF Lists, n, res

LEMMA AnswersFit ==
    ASSUME SelectionIInv, AnswerInv, NEW ds, RunsOn(ds), place = "done"
    PROVE  \E res \in Selections(ds) : Lists(res)
<1> DEFINE n == NumFeatures
           r == Len(ds.rows)
           k == input.fsInsts
<1>1. /\ NumCols(ds) = n /\ r = observations /\ k = nvars /\ n \in Nat \ {0} /\ ~Unusable(ds)
      /\ r \in Nat /\ k \in Nat
  BY DataFacts, ModelSize DEF RunsOn
<1>2. initRegressor \in Regressors
  BY ModelSize
<1>3. CASE mode = "run"
  <2>1. input.fsopt = "DELTA"
    BY <1>3 DEF RunsOn
  <2>2. /\ AsModel /\ isInModel \in {{initRegressor}, Regressors}
        /\ n = 1 \/ r > Cardinality(isInModel) + 1 \/ (isInModel = Regressors /\ r > n)
    BY <1>1, <1>3 DEF AnswerInv, Answers
  <2>3. Selections(ds) = IF n = 1 THEN {AllOf(ds)}
                         ELSE (IF r >= 3 THEN Alone(ds) ELSE {})
                              \cup (IF r > n THEN {AllOf(ds)} ELSE {})
    BY <1>1, <2>1 DEF Selections
  <2>4. CASE isInModel = Regressors
    <3>1. regs = [f \in Regressors |-> 1]
      BY <2>2, <2>4 DEF AsModel
    <3>2. Lists(AllOf(ds))
      BY <3>1, AllLists
    <3>3. AllOf(ds) \in Selections(ds)
      <4>1. n = 1 \/ r > n
        BY <1>1, <2>2, <2>4, RegressorsAreFinite
      <4> QED BY <2>3, <4>1
    <3> QED BY <3>2, <3>3
  <2>5. CASE isInModel = {initRegressor} /\ isInModel # Regressors
    <3>1. n # 1
      <4>1. n = 1 => Regressors = {0}
        BY DEF Regressors
      <4> QED BY <1>2, <2>5, <4>1
    <3>2. Cardinality(isInModel) = 1
      BY <2>5, FS_Singleton
    <3>3. r >= 3
      BY <1>1, <2>2, <2>5, <3>1, <3>2
    <3>4. <<initRegressor + 1>> \in Alone(ds) /\ Lists(<<initRegressor + 1>>)
      BY <1>2, <2>2, <2>5, AloneLists DEF AsModel
    <3> QED BY <2>3, <3>1, <3>3, <3>4
  <2> QED BY <2>2, <2>4, <2>5
<1>4. CASE mode = "runForBest"
  <2>1. input.fsopt = "INSTS"
    BY <1>4 DEF RunsOn
  <2>2. Selections(ds) = CASE k = 0 -> {}
                           [] k = 1 -> Alone(ds)
                           [] k > n -> {[c \in 1..n |-> 1] \o AllOf(ds)}
                           [] OTHER -> IF r > k THEN Sets(ds, k) ELSE {}
    BY <1>1, <2>1 DEF Selections
  <2>3. CASE k = 1
    <3>1. \/ regs = [NoRegs EXCEPT ![initRegressor] = 1]
          \/ n = 0
      BY <1>1, <1>4, <2>3 DEF AnswerInv, Answers
    <3>2. regs = [f \in Regressors |-> IF f \in {initRegressor} THEN 1 ELSE 0]
      BY <1>1, <1>2, <3>1 DEF NoRegs
    <3>3. <<initRegressor + 1>> \in Alone(ds) /\ Lists(<<initRegressor + 1>>)
      BY <1>2, <3>2, AloneLists
    <3>4. <<initRegressor + 1>> \in Selections(ds)
      BY <1>1, <2>2, <2>3, <3>3
    <3> QED BY <3>3, <3>4
  <2>4. CASE k > n
    <3>1. k # 1 /\ k # 0
      BY <1>1, <2>4
    <3>2. regs = [f \in Regressors |-> IF f = 0 THEN n + 1 ELSE 1]
      BY <1>1, <1>4, <2>4, <3>1 DEF AnswerInv, Answers
    <3>3. Lists([c \in 1..n |-> 1] \o AllOf(ds))
      BY <3>2, OverLists
    <3>4. [c \in 1..n |-> 1] \o AllOf(ds) \in Selections(ds)
      BY <2>2, <2>4, <3>1
    <3> QED BY <3>3, <3>4
  <2>5. CASE k # 1 /\ ~(k > n)
    <3>1. k \in 2..n /\ AsModel /\ Cardinality(isInModel) = k /\ r > k
      BY <1>1, <1>4, <2>5 DEF AnswerInv, Answers
    <3>2. PICK res \in Sets(ds, k) : Lists(res)
      BY <3>1, ModelAsVector
    <3>3. Selections(ds) = Sets(ds, k)
      BY <1>1, <2>2, <2>5, <3>1
    <3> QED BY <3>2, <3>3
  <2> QED BY <2>3, <2>4, <2>5
<1> QED BY <1>3, <1>4 DEF RunsOn

LEMMA StopsFit ==
    ASSUME SelectionIInv, AnswerInv, NEW ds, RunsOn(ds), place = "exited"
    PROVE  (IF mode = "runForBest" /\ nvars = 0 THEN "failed" ELSE "aborted")
               \in SelectionStops(ds)
<1> DEFINE n == NumFeatures
           r == Len(ds.rows)
           k == input.fsInsts
<1>1. /\ NumCols(ds) = n /\ r = observations /\ k = nvars /\ n \in Nat \ {0} /\ ~Unusable(ds)
      /\ r \in Nat /\ k \in Nat
  BY DataFacts, ModelSize DEF RunsOn
<1>2. SelectionStops(ds) =
          (IF r = 0 THEN {"aborted"} ELSE {})
          \cup (IF input.fsopt = "DELTA" /\ n > 1 /\ r <= n THEN {"aborted"} ELSE {})
          \cup (IF input.fsopt = "INSTS" /\ k \in 2..n /\ r <= k THEN {"aborted"} ELSE {})
          \cup (IF input.fsopt = "INSTS" /\ k = 0 THEN {"failed"} ELSE {})
  BY <1>1 DEF SelectionStops
<1>3. \/ mode = "runForBest" /\ k = 0
      \/ mode = "runForBest" /\ k \in 2..n /\ r <= k
      \/ mode = "run" /\ n > 1 /\ r <= n
  BY <1>1 DEF AnswerInv, GivesUp
<1>4. /\ mode = "run" => input.fsopt = "DELTA"
      /\ mode = "runForBest" => input.fsopt = "INSTS"
  BY DEF RunsOn
<1> HIDE DEF n, r, k
<1>5. CASE mode = "runForBest" /\ k = 0
  BY <1>1, <1>2, <1>4, <1>5
<1>6. CASE mode = "runForBest" /\ k \in 2..n /\ r <= k
  BY <1>1, <1>2, <1>4, <1>6
<1>7. CASE mode = "run" /\ n > 1 /\ r <= n
  BY <1>1, <1>2, <1>4, <1>7
<1> QED BY <1>3, <1>5, <1>6, <1>7

(* On any data set with rows and columns that can be read, however it is   *)
(* configured, forward selection returns a vector that Selections lists,   *)
(* or ends the program as SelectionStops says: what Coach takes from it is *)
(* what ForwardSelection does.                                             *)
THEOREM SelectionFits ==
    ASSUME NEW CONSTANT ds
    PROVE  SelectionSpec => []Fits(ds)
<1>1. SelectionInit => SelectionIInv /\ AnswerInv
  BY SelectionInitIInv, InitAnswers
<1>2. SelectionIInv /\ AnswerInv /\ [SelectionNext]_selectionVars
          => SelectionIInv' /\ AnswerInv'
  BY SelectionNextIInv, NextAnswers
<1>3. SelectionIInv /\ AnswerInv => Fits(ds)
  BY AnswersFit, StopsFit DEF Fits
<1> QED BY <1>1, <1>2, <1>3, PTL DEF SelectionSpec
=============================================================================
