----------------------------- MODULE UbcsatProofs -----------------------------
(* Theorems about ubcsat, for every formula, algorithm and setting.  First *)
(* the search state: what the algorithms repair in every flip is what they *)
(* would compute anew, on any instance I.  Then the loops of main, which   *)
(* need nothing of that; the two together; and what is reported of the     *)
(* state and where the steps go.                                           *)
EXTENDS Ubcsat, Loops, SequenceTheorems

-----------------------------------------------------------------------------
(* The indexed lists represent sets, of any size and in any order of       *)
(* additions and removals.                                                 *)

Lists(E) == [list : Seq(E), pos : [E -> Nat]]

(* What a clause that becomes false, or a variable whose make count leaves *)
(* 0, does to the list.                                                    *)
THEOREM Added ==
    ASSUME NEW E, NEW s \in Lists(E), NEW S \in SUBSET E, NEW e \in E \ S,
           Represents(s, S)
    PROVE  AddTo(s, e) \in Lists(E) /\ Represents(AddTo(s, e), S \cup {e})
<1> DEFINE a == AddTo(s, e)
           n == Len(s.list)
<1>1. s.list \in Seq(E) /\ s.pos \in [E -> Nat] /\ n \in Nat
  BY DEF Lists
<1>2. a.list = Append(s.list, e) /\ a.pos = [s.pos EXCEPT ![e] = n + 1]
  BY DEF AddTo
<1>3. /\ a.list \in Seq(E) /\ Len(a.list) = n + 1
      /\ \A i \in 1..n : a.list[i] = s.list[i]
      /\ a.list[n + 1] = e
  BY <1>1, <1>2
<1>4. a \in Lists(E)
  BY <1>1, <1>2, <1>3 DEF Lists, AddTo
<1>5. ASSUME NEW x \in S \cup {e} PROVE a.pos[x] \in 1..Len(a.list) /\ a.list[a.pos[x]] = x
  <2>1. CASE x = e
    BY <1>1, <1>2, <1>3, <2>1
  <2>2. CASE x # e
    <3>1. s.pos[x] \in 1..n /\ s.list[s.pos[x]] = x /\ a.pos[x] = s.pos[x]
      BY <1>1, <1>2, <1>5, <2>2 DEF Represents
    <3>2. a.list[s.pos[x]] = s.list[s.pos[x]]
      BY <1>3, <3>1
    <3>3. s.pos[x] \in 1..(n + 1)
      BY <1>1, <3>1
    <3> HIDE DEF a, n
    <3> QED BY <1>3, <3>1, <3>2, <3>3
  <2> QED BY <2>1, <2>2
<1>6. ASSUME NEW i \in 1..Len(a.list) PROVE a.list[i] \in S \cup {e} /\ a.pos[a.list[i]] = i
  <2>1. CASE i = n + 1
    BY <1>1, <1>2, <1>3, <2>1
  <2>2. CASE i \in 1..n
    <3>1. s.list[i] \in S /\ s.pos[s.list[i]] = i
      BY <2>2 DEF Represents
    <3> QED BY <1>1, <1>2, <1>3, <2>2, <3>1
  <2> QED BY <1>1, <1>3, <1>6, <2>1, <2>2
<1> QED BY <1>4, <1>5, <1>6 DEF Represents

(* What a clause that becomes true, or a variable whose make count becomes *)
(* 0, does to it.                                                          *)
THEOREM Dropped ==
    ASSUME NEW E, NEW s \in Lists(E), NEW S \in SUBSET E, NEW e \in S,
           Represents(s, S)
    PROVE  DropFrom(s, e) \in Lists(E) /\ Represents(DropFrom(s, e), S \ {e})
<1> DEFINE d == DropFrom(s, e)
           n == Len(s.list)
           p == s.pos[e]
           f == Final(s)
<1>1. s.list \in Seq(E) /\ s.pos \in [E -> Nat] /\ n \in Nat
  BY DEF Lists
<1>2. p \in 1..n /\ s.list[p] = e
  BY DEF Represents
<1>3. n \in 1..n /\ f = s.list[n] /\ f \in S /\ s.pos[f] = n /\ f \in E
  BY <1>1, <1>2 DEF Final, Represents
<1> DEFINE moved == [s.list EXCEPT ![p] = f]
<1>4. moved \in Seq(E) /\ Len(moved) = n /\ DOMAIN moved = 1..n
  BY <1>1, <1>2, <1>3, ExceptSeq
<1>5. d.list = SubSeq(moved, 1, n - 1) /\ d.pos = [s.pos EXCEPT ![f] = p]
  BY DEF DropFrom
<1>6. /\ d.list \in Seq(E) /\ Len(d.list) = n - 1
      /\ \A i \in 1..(n - 1) : d.list[i] = moved[i]
  BY <1>1, <1>3, <1>4, <1>5, SubSeqProperties
<1>7. \A i \in 1..(n - 1) : d.list[i] = IF i = p THEN f ELSE s.list[i]
  BY <1>1, <1>2, <1>6, SMTT(30)
<1>8. d \in Lists(E)
  BY <1>1, <1>2, <1>3, <1>5, <1>6 DEF Lists, DropFrom
<1>9. ASSUME NEW x \in S \ {e} PROVE d.pos[x] \in 1..Len(d.list) /\ d.list[d.pos[x]] = x
  <2>1. s.pos[x] \in 1..n /\ s.list[s.pos[x]] = x /\ x \in E
    BY DEF Represents
  <2>2. CASE x = f
    <3>1. d.pos[x] = p /\ p # n
      BY <1>1, <1>2, <1>3, <1>5, <2>1, <2>2
    <3>2. p \in 1..(n - 1)
      BY <1>1, <1>2, <3>1
    <3> QED BY <1>6, <1>7, <2>2, <3>1, <3>2
  <2>3. CASE x # f
    <3>1. d.pos[x] = s.pos[x]
      BY <1>1, <1>5, <2>1, <2>3
    <3>2. s.pos[x] # n /\ s.pos[x] # p
      BY <1>2, <1>3, <1>9, <2>1, <2>3
    <3>3. s.pos[x] \in 1..(n - 1)
      BY <1>1, <2>1, <3>2
    <3> QED BY <1>6, <1>7, <2>1, <3>1, <3>2, <3>3
  <2> QED BY <2>2, <2>3
<1>10. ASSUME NEW i \in 1..Len(d.list) PROVE d.list[i] \in S \ {e} /\ d.pos[d.list[i]] = i
  <2>1. i \in 1..(n - 1) /\ i \in 1..n /\ i # n
    BY <1>1, <1>6, <1>10
  <2>2. s.list[i] \in S /\ s.pos[s.list[i]] = i /\ s.list[i] \in E
    BY <2>1 DEF Represents
  <2>3. CASE i = p
    <3>1. d.list[i] = f /\ d.pos[f] = p /\ f # e
      BY <1>1, <1>2, <1>3, <1>5, <1>7, <2>1, <2>3
    <3> QED BY <1>3, <2>3, <3>1
  <2>4. CASE i # p
    <3>1. d.list[i] = s.list[i]
      BY <1>7, <2>1, <2>4
    <3>2. s.list[i] # f /\ s.list[i] # e
      BY <1>2, <1>3, <2>1, <2>2, <2>4
    <3> QED BY <1>1, <1>5, <2>2, <3>1, <3>2
  <2> QED BY <2>3, <2>4
<1> QED BY <1>8, <1>9, <1>10 DEF Represents

-----------------------------------------------------------------------------
(* Sums over finite sets: the sums of two functions over one set take its  *)
(* elements in the same order, that of CHOOSE.                             *)

Some(t) == CHOOSE x \in t : TRUE

SumsUp(it, S, f) ==
    /\ it \in [SUBSET S -> Int]
    /\ it[{}] = 0
    /\ \A t \in SUBSET S : t # {} => it[t] = f[Some(t)] + it[t \ {Some(t)}]

(* A sum is taken one element at a time, in the order of Some. *)
LEMMA SumExists ==
    ASSUME NEW S, IsFiniteSet(S), NEW f \in [S -> Int]
    PROVE  \E it : SumsUp(it, S, f) /\ Total(f) = it[S]
<1> DEFINE choice == [t \in SUBSET S |-> Some(t)]
           step == [x \in S |-> [y \in Int |-> f[x] + y]]
           it == CHOOSE g : g = [t \in SUBSET S |-> IF t = {} THEN 0
                                     ELSE f[Some(t)] + g[t \ {Some(t)}]]
<1>1. \A t \in SUBSET S : t # {} => Some(t) \in t
  BY DEF Some
<1>2. DOMAIN f = S
  OBVIOUS
<1>3. Total(f) = it[S]
  BY <1>2, Zenon DEF Total, FoldFunction, FoldFunctionOnSet, MapThenFoldSet, Some
<1> HIDE DEF it
<1>4. PICK g \in [SUBSET S -> Int] : IsFold(g, S, choice, 0, step)
  <2>1. \A t \in SUBSET S : t # {} => choice[t] \in t
    BY <1>1
  <2>2. step \in [S -> [Int -> Int]] /\ 0 \in Int
    OBVIOUS
  <2> HIDE DEF choice, step
  <2> QED BY <2>1, <2>2, FoldExists
<1>5. g = [t \in SUBSET S |-> IF t = {} THEN 0 ELSE f[Some(t)] + g[t \ {Some(t)}]]
  <2>1. g = [t \in SUBSET S |-> IF t = {} THEN 0
                                ELSE step[choice[t]][g[t \ {choice[t]}]]]
    BY <1>4 DEF IsFold
  <2>2. \A t \in SUBSET S : t # {} => step[choice[t]][g[t \ {choice[t]}]]
                                          = f[Some(t)] + g[t \ {Some(t)}]
    <3> TAKE t \in SUBSET S
    <3> HAVE t # {}
    <3>1. Some(t) \in S /\ t \ {Some(t)} \in SUBSET S
      BY <1>1
    <3> QED BY <1>4, <3>1
  <2> HIDE DEF step, choice
  <2>3. \A t \in SUBSET S : g[t] = IF t = {} THEN 0 ELSE f[Some(t)] + g[t \ {Some(t)}]
    BY <2>1, <2>2
  <2>4. DOMAIN g = SUBSET S
    BY <1>4
  <2> QED BY <1>4, <2>3
<1>6. it = [t \in SUBSET S |-> IF t = {} THEN 0 ELSE f[Some(t)] + it[t \ {Some(t)}]]
  BY <1>5 DEF it
<1>7. it \in [SUBSET S -> Int]
  <2> DEFINE T == {n \in Nat : \A t \in SUBSET S : Cardinality(t) <= n => it[t] \in Int}
  <2>0. \A t \in SUBSET S : IsFiniteSet(t) /\ Cardinality(t) \in Nat
    BY FS_Subset, FS_CardinalityType
  <2>1. 0 \in T
    <3>1. \A t \in SUBSET S : Cardinality(t) <= 0 => t = {}
      BY <2>0, FS_EmptySet
    <3> QED BY <1>6, <3>1
  <2>2. ASSUME NEW n \in Nat, n \in T PROVE n + 1 \in T
    <3>1. ASSUME NEW t \in SUBSET S, Cardinality(t) <= n + 1 PROVE it[t] \in Int
      <4>1. CASE t = {}
        BY <1>6, <4>1
      <4>2. CASE t # {}
        <5>1. Some(t) \in t /\ Some(t) \in S /\ t \ {Some(t)} \in SUBSET S
          BY <1>1, <4>2
        <5>2. Cardinality(t \ {Some(t)}) <= n
          BY <2>0, <3>1, <5>1, FS_RemoveElement
        <5>3. it[t \ {Some(t)}] \in Int
          BY <2>2, <5>1, <5>2
        <5>4. it[t] = f[Some(t)] + it[t \ {Some(t)}]
          BY <1>6, <4>2
        <5> QED BY <5>1, <5>3, <5>4
      <4> QED BY <4>1, <4>2
    <3> QED BY <3>1
  <2>3. \A n \in Nat : n \in T
    <3> HIDE DEF T
    <3> QED BY <2>1, <2>2, AllNat
  <2>4. \A t \in SUBSET S : it[t] \in Int
    BY <2>0, <2>3
  <2> QED BY <1>6, <2>4
<1>8. SumsUp(it, S, f)
  BY <1>6, <1>7 DEF SumsUp
<1> QED BY <1>3, <1>8

(* Induction on the subsets that a sum goes through. *)
LEMMA Subsets ==
    ASSUME NEW S, IsFiniteSet(S), NEW T, {} \in T,
           \A t \in SUBSET S : t # {} /\ t \ {Some(t)} \in T => t \in T
    PROVE  \A t \in SUBSET S : t \in T
<1> DEFINE N == {n \in Nat : \A t \in SUBSET S : Cardinality(t) <= n => t \in T}
<1>0. \A t \in SUBSET S : IsFiniteSet(t) /\ Cardinality(t) \in Nat
  BY FS_Subset, FS_CardinalityType
<1>1. 0 \in N
  <2>1. \A t \in SUBSET S : Cardinality(t) <= 0 => t = {}
    BY <1>0, FS_EmptySet
  <2> QED BY <2>1
<1>2. ASSUME NEW n \in Nat, n \in N PROVE n + 1 \in N
  <2>1. ASSUME NEW t \in SUBSET S, Cardinality(t) <= n + 1 PROVE t \in T
    <3>1. CASE t = {}
      BY <3>1
    <3>2. CASE t # {}
      <4>1. Some(t) \in t /\ t \ {Some(t)} \in SUBSET S
        BY <3>2 DEF Some
      <4>2. Cardinality(t \ {Some(t)}) <= n
        BY <1>0, <2>1, <4>1, FS_RemoveElement
      <4> QED BY <1>2, <3>2, <4>1, <4>2
    <3> QED BY <3>1, <3>2
  <2> QED BY <2>1
<1>3. \A n \in Nat : n \in N
  <2> HIDE DEF N
  <2> QED BY <1>1, <1>2, AllNat
<1> QED BY <1>0, <1>3

(* A sum of integers is one. *)
LEMMA TotalType ==
    ASSUME NEW S, IsFiniteSet(S), NEW f \in [S -> Int]
    PROVE  Total(f) \in Int
<1>1. PICK it : SumsUp(it, S, f) /\ Total(f) = it[S]
  BY SumExists
<1> QED BY <1>1 DEF SumsUp

(* h is f and k times g. *)
Linear(S, f, g, h, k) ==
    /\ f \in [S -> Int] /\ g \in [S -> Int] /\ h \in [S -> Int]
    /\ \A x \in S : h[x] = f[x] + k * g[x]

(* A sum of sums is the sum of all. *)
LEMMA LinearTotal ==
    ASSUME NEW S, IsFiniteSet(S), NEW k \in Int, NEW f, NEW g, NEW h, Linear(S, f, g, h, k)
    PROVE  Total(h) = Total(f) + k * Total(g)
<1>0. /\ f \in [S -> Int] /\ g \in [S -> Int] /\ h \in [S -> Int]
      /\ \A x \in S : h[x] = f[x] + k * g[x]
  BY DEF Linear
<1>1. PICK a : SumsUp(a, S, f) /\ Total(f) = a[S]
  BY <1>0, SumExists
<1>2. PICK b : SumsUp(b, S, g) /\ Total(g) = b[S]
  BY <1>0, SumExists
<1>3. PICK c : SumsUp(c, S, h) /\ Total(h) = c[S]
  BY <1>0, SumExists
<1> DEFINE T == {t \in SUBSET S : c[t] = a[t] + k * b[t]}
<1>4. {} \in T
  BY <1>1, <1>2, <1>3 DEF SumsUp
<1>5. ASSUME NEW t \in SUBSET S, t # {}, t \ {Some(t)} \in T PROVE t \in T
  <2> DEFINE x == Some(t)
             r == t \ {Some(t)}
  <2>1. x \in S /\ r \in SUBSET S
    BY <1>5 DEF Some
  <2>2. a[t] = f[x] + a[r] /\ b[t] = g[x] + b[r] /\ c[t] = h[x] + c[r]
    BY <1>1, <1>2, <1>3, <1>5 DEF SumsUp
  <2>3. c[r] = a[r] + k * b[r]
    BY <1>5
  <2>4. f[x] \in Int /\ g[x] \in Int /\ a[r] \in Int /\ b[r] \in Int
    BY <1>0, <1>1, <1>2, <2>1 DEF SumsUp
  <2>5. h[x] = f[x] + k * g[x]
    BY <1>0, <2>1
  <2> HIDE DEF x, r
  <2>6. k * (g[x] + b[r]) = k * g[x] + k * b[r]
    BY <2>4
  <2>7. k * g[x] \in Int /\ k * b[r] \in Int
    BY <2>4
  <2>8. c[t] = a[t] + k * b[t]
    BY <2>2, <2>3, <2>4, <2>5, <2>6, <2>7
  <2> QED BY <2>8
<1>6. S \in T
  <2> HIDE DEF T
  <2> QED BY <1>4, <1>5, Subsets
<1> QED BY <1>1, <1>2, <1>3, <1>6

(* The same, with the terms in the open. *)
LEMMA TotalLinear ==
    ASSUME NEW S, IsFiniteSet(S), NEW f \in [S -> Int], NEW g \in [S -> Int],
           NEW h \in [S -> Int], NEW k \in Int,
           \A x \in S : h[x] = f[x] + k * g[x]
    PROVE  Total(h) = Total(f) + k * Total(g)
<1>1. Linear(S, f, g, h, k)
  BY DEF Linear
<1> QED BY <1>1, LinearTotal

(* Two functions that differ at one place. *)
LEMMA TotalPoint ==
    ASSUME NEW S, IsFiniteSet(S), NEW f \in [S -> Int], NEW g \in [S -> Int],
           NEW x \in S, \A y \in S : y # x => g[y] = f[y]
    PROVE  Total(g) = Total(f) + g[x] - f[x]
<1>1. PICK a : SumsUp(a, S, f) /\ Total(f) = a[S]
  BY SumExists
<1>2. PICK b : SumsUp(b, S, g) /\ Total(g) = b[S]
  BY SumExists
<1> DEFINE T == {t \in SUBSET S : b[t] = a[t] + (IF x \in t THEN g[x] - f[x] ELSE 0)}
<1>4. {} \in T
  BY <1>1, <1>2 DEF SumsUp
<1>5. ASSUME NEW t \in SUBSET S, t # {}, t \ {Some(t)} \in T PROVE t \in T
  <2> DEFINE y == Some(t)
             r == t \ {Some(t)}
  <2>1. y \in S /\ y \in t /\ r \in SUBSET S
    BY <1>5 DEF Some
  <2>2. a[t] = f[y] + a[r] /\ b[t] = g[y] + b[r]
    BY <1>1, <1>2, <1>5 DEF SumsUp
  <2>3. b[r] = a[r] + (IF x \in r THEN g[x] - f[x] ELSE 0)
    BY <1>5
  <2>4. f[y] \in Int /\ g[y] \in Int /\ f[x] \in Int /\ g[x] \in Int /\ a[r] \in Int
    BY <1>1, <2>1 DEF SumsUp
  <2>5. CASE y = x
    <3>1. x \notin r /\ x \in t
      BY <2>1, <2>5
    <3> HIDE DEF y, r
    <3> QED BY <2>2, <2>3, <2>4, <2>5, <3>1
  <2>6. CASE y # x
    <3>1. g[y] = f[y] /\ (x \in r <=> x \in t)
      BY <2>1, <2>6
    <3> HIDE DEF y, r
    <3>2. CASE x \in r
      BY <2>2, <2>3, <2>4, <3>1, <3>2
    <3>3. CASE x \notin r
      BY <2>2, <2>3, <2>4, <3>1, <3>3
    <3> QED BY <3>2, <3>3
  <2> QED BY <2>5, <2>6
<1>6. S \in T
  <2> HIDE DEF T
  <2> QED BY <1>4, <1>5, Subsets
<1>7. b[S] = a[S] + (g[x] - f[x]) /\ a[S] \in Int /\ g[x] \in Int /\ f[x] \in Int
  BY <1>1, <1>6 DEF SumsUp
<1> QED BY <1>1, <1>2, <1>7

(* A sum of larger terms is not smaller. *)
LEMMA TotalOrder ==
    ASSUME NEW S, IsFiniteSet(S), NEW f \in [S -> Int], NEW g \in [S -> Int],
           \A y \in S : f[y] <= g[y]
    PROVE  Total(f) <= Total(g)
<1>1. PICK a : SumsUp(a, S, f) /\ Total(f) = a[S]
  BY SumExists
<1>2. PICK b : SumsUp(b, S, g) /\ Total(g) = b[S]
  BY SumExists
<1> DEFINE T == {t \in SUBSET S : a[t] <= b[t]}
<1>4. {} \in T
  BY <1>1, <1>2 DEF SumsUp
<1>5. ASSUME NEW t \in SUBSET S, t # {}, t \ {Some(t)} \in T PROVE t \in T
  <2> DEFINE y == Some(t)
             r == t \ {Some(t)}
  <2>1. y \in S /\ y \in t /\ r \in SUBSET S
    BY <1>5 DEF Some
  <2>2. a[t] = f[y] + a[r] /\ b[t] = g[y] + b[r] /\ a[r] <= b[r]
    BY <1>1, <1>2, <1>5 DEF SumsUp
  <2>4. f[y] \in Int /\ g[y] \in Int /\ f[y] <= g[y] /\ a[r] \in Int /\ b[r] \in Int
    BY <1>1, <1>2, <2>1 DEF SumsUp
  <2> HIDE DEF y, r
  <2> QED BY <2>2, <2>4
<1>6. S \in T
  <2> HIDE DEF T
  <2> QED BY <1>4, <1>5, Subsets
<1> QED BY <1>1, <1>2, <1>6

(* Nothing adds up to nothing. *)
LEMMA TotalZero ==
    ASSUME NEW S, IsFiniteSet(S), NEW f \in [S -> Int], \A y \in S : f[y] = 0
    PROVE  Total(f) = 0
<1>1. Total(f) = Total(f) + 1 * Total(f)
  BY TotalLinear
<1>2. Total(f) \in Int
  BY TotalType
<1> DEFINE y == Total(f)
<1> HIDE DEF y
<1>3. y = y + 1 * y /\ y \in Int
  BY <1>1, <1>2 DEF y
<1>4. y = 0
  BY <1>3
<1> QED BY <1>4 DEF y

(* Counting is a sum. *)
LEMMA TotalCount ==
    ASSUME NEW S, IsFiniteSet(S), NEW C \in SUBSET S,
           NEW f \in [S -> Int], \A y \in S : f[y] = IF y \in C THEN 1 ELSE 0
    PROVE  Total(f) = Cardinality(C)
<1>1. PICK a : SumsUp(a, S, f) /\ Total(f) = a[S]
  BY SumExists
<1>0. \A t \in SUBSET S : IsFiniteSet(t \cap C) /\ Cardinality(t \cap C) \in Nat
  <2> TAKE t \in SUBSET S
  <2>1. IsFiniteSet(t \cap C)
    BY FS_Subset
  <2> QED BY <2>1, FS_CardinalityType
<1> DEFINE T == {t \in SUBSET S : a[t] = Cardinality(t \cap C)}
<1>4. {} \in T
  BY <1>1, FS_EmptySet DEF SumsUp
<1>5. ASSUME NEW t \in SUBSET S, t # {}, t \ {Some(t)} \in T PROVE t \in T
  <2> DEFINE y == Some(t)
             r == t \ {Some(t)}
  <2>1. y \in S /\ y \in t /\ r \in SUBSET S /\ y \notin r
    BY <1>5 DEF Some
  <2>2. a[t] = f[y] + a[r] /\ a[r] = Cardinality(r \cap C)
    BY <1>1, <1>5 DEF SumsUp
  <2>3. t \cap C = IF y \in C THEN (r \cap C) \cup {y} ELSE r \cap C
    BY <2>1
  <2>4. f[y] = IF y \in C THEN 1 ELSE 0
    BY <2>1
  <2>5. IsFiniteSet(r \cap C) /\ Cardinality(r \cap C) \in Nat /\ y \notin r \cap C
    BY <1>0, <2>1
  <2> HIDE DEF y, r
  <2>6. Cardinality((r \cap C) \cup {y}) = Cardinality(r \cap C) + 1
    BY <2>5, FS_AddElement
  <2>7. Cardinality(t \cap C) = Cardinality(r \cap C) + f[y]
    <3>1. CASE y \in C
      <4>1. t \cap C = (r \cap C) \cup {y} /\ f[y] = 1
        BY <2>3, <2>4, <3>1
      <4> QED BY <2>6, <4>1
    <3>2. CASE y \notin C
      <4>1. t \cap C = r \cap C /\ f[y] = 0
        BY <2>3, <2>4, <3>2
      <4>2. Cardinality(t \cap C) = Cardinality(r \cap C)
        BY <4>1, Zenon
      <4> QED BY <2>5, <4>1, <4>2
    <3> QED BY <3>1, <3>2
  <2>8. f[y] \in Nat
    BY <2>4
  <2>9. a[t] = Cardinality(t \cap C)
    BY <2>2, <2>5, <2>7, <2>8
  <2> QED BY <2>9
<1>6. S \in T
  <2> HIDE DEF T
  <2> QED BY <1>4, <1>5, Subsets
<1>7. S \cap C = C
  <2>1. C \subseteq S
    OBVIOUS
  <2> QED BY <2>1, Zenon
<1> QED BY <1>1, <1>6, <1>7

(* The sum over a subset. *)
LEMMA TotalWhere ==
    ASSUME NEW S, IsFiniteSet(S), NEW C \in SUBSET S,
           NEW f \in [S -> Int], NEW w \in [C -> Int],
           \A y \in S : f[y] = IF y \in C THEN w[y] ELSE 0
    PROVE  Total(f) = Total(w)
<1>0. IsFiniteSet(C)
  BY FS_Subset
<1>1. PICK a : SumsUp(a, C, w) /\ Total(w) = a[C]
  BY <1>0, SumExists
<1> DEFINE On(t) == [y \in S |-> IF y \in t THEN w[y] ELSE 0]
           T == {t \in SUBSET C : Total(On(t)) = a[t]}
<1>2. \A t \in SUBSET C : On(t) \in [S -> Int]
  OBVIOUS
<1>4. {} \in T
  <2>1. \A y \in S : On({})[y] = 0
    OBVIOUS
  <2>2. On({}) \in [S -> Int]
    OBVIOUS
  <2> HIDE DEF On
  <2>3. Total(On({})) = 0
    BY <2>1, <2>2, TotalZero
  <2> QED BY <1>1, <2>3 DEF SumsUp
<1>5. ASSUME NEW t \in SUBSET C, t # {}, t \ {Some(t)} \in T PROVE t \in T
  <2> DEFINE y == Some(t)
             r == t \ {Some(t)}
  <2>1. y \in S /\ y \in C /\ y \in t /\ r \in SUBSET C /\ y \notin r
    BY <1>5 DEF Some
  <2>2. a[t] = w[y] + a[r] /\ Total(On(r)) = a[r]
    BY <1>1, <1>5 DEF SumsUp
  <2>3. /\ \A z \in S : z # y => On(t)[z] = On(r)[z]
        /\ On(t)[y] = w[y] /\ On(r)[y] = 0
    BY <2>1
  <2>4. On(t) \in [S -> Int] /\ On(r) \in [S -> Int]
    BY <1>2, <2>1
  <2> HIDE DEF y, r, On
  <2>5. Total(On(t)) = Total(On(r)) + On(t)[y] - On(r)[y]
    BY <2>1, <2>3, <2>4, TotalPoint
  <2>6. a[r] \in Int /\ w[y] \in Int
    BY <1>1, <2>1 DEF SumsUp
  <2> QED BY <2>2, <2>3, <2>5, <2>6
<1>6. C \in T
  <2> HIDE DEF T
  <2> QED BY <1>0, <1>4, <1>5, Subsets
<1>7. On(C) = f
  OBVIOUS
<1> QED BY <1>1, <1>6, <1>7

(* initfalse leaves a list of nothing. *)
LEMMA EmptyIsList == ASSUME NEW E PROVE EmptyOver(E) \in Lists(E) /\ Represents(EmptyOver(E), {})
BY DEF EmptyOver, Lists, Represents

(* Listed adds one number after the other. *)
LEMMA ListedLoop ==
    ASSUME NEW n \in Nat, NEW S
    PROVE  \E G \in [0..n -> Lists(1..n)] :
              /\ G[0] = EmptyOver(1..n)
              /\ \A k \in 1..n : G[k] = IF k \in S THEN AddTo(G[k - 1], k) ELSE G[k - 1]
              /\ Listed(S, n) = G[n]
<1> DEFINE A == Lists(1..n)
           base == EmptyOver(1..n)
           each == [e \in 1..n |-> e]
           Turn(t, e) == IF e \in S THEN AddTo(t, e) ELSE t
           turn == [k \in 1..n |-> [t \in A |-> Turn(t, each[k])]]
           it == CHOOSE g : g = [t \in SUBSET (1..n) |-> IF t = {} THEN base
                                        ELSE Turn(g[t \ {Max(t)}], each[Max(t)])]
<1>1. n \in Nat /\ base \in A /\ DOMAIN each = 1..n /\ \A k \in 1..n : each[k] = k
  BY EmptyIsList
<1>2. turn \in Turns(n, A)
  BY DEF AddTo, Lists, Turns
<1>3. Listed(S, n) = it[1..n]
  BY <1>1, Zenon DEF Listed, FoldLeft, MapThenFoldSet
<1> HIDE DEF A, base, each, Turn
<1>4. 1..n \subseteq Nat /\ IsFiniteSet(1..n)
  BY <1>1, FS_Interval
<1>5. \A t \in SUBSET (1..n) : t # {} => Max(t) \in 1..n
  BY <1>4, FS_Subset, MaxUpTo
<1>6. it = [t \in SUBSET (1..n) |-> IF t = {} THEN base
                                  ELSE Turn(it[t \ {Max(t)}], each[Max(t)])]
  <2>1. PICK g : IsLoop(g, n, A, base, turn)
    <3> HIDE DEF turn
    <3> QED BY <1>1, <1>2, LoopExists
  <2>2. g = [t \in SUBSET (1..n) |-> IF t = {} THEN base
                                    ELSE Turn(g[t \ {Max(t)}], each[Max(t)])]
    BY <1>5, <2>1 DEF IsLoop
  <2> QED BY <2>2
<1> HIDE DEF it
<1>7. Iterates(it, n, A, base, turn)
  BY <1>5, <1>6 DEF Iterates
<1>8. PICK G : Values(G, n, A, base, turn) /\ G[n] = it[1..n]
  <2> HIDE DEF turn
  <2> QED BY <1>1, <1>2, <1>7, LoopValues
<1>9. G \in [0..n -> A] /\ G[0] = base
  BY <1>8 DEF Values
<1>10. \A k \in 1..n : G[k] = Turn(G[k - 1], k)
  <2> TAKE k \in 1..n
  <2>1. k - 1 \in 0..n
    BY <1>1
  <2>2. G[k - 1] \in A
    BY <1>9, <2>1
  <2>3. G[k] = turn[k][G[k - 1]]
    BY <1>8 DEF Values
  <2> QED BY <1>1, <2>2, <2>3
<1> HIDE DEF turn
<1> QED BY <1>3, <1>8, <1>9, <1>10 DEF A, base, each, Turn

(* What InitStateInfo lists. *)
LEMMA ListedIs ==
    ASSUME NEW n \in Nat, NEW S \in SUBSET (1..n)
    PROVE  Listed(S, n) \in Lists(1..n) /\ Represents(Listed(S, n), S)
<1>1. PICK G \in [0..n -> Lists(1..n)] :
         /\ G[0] = EmptyOver(1..n)
         /\ \A k \in 1..n : G[k] = IF k \in S THEN AddTo(G[k - 1], k) ELSE G[k - 1]
         /\ Listed(S, n) = G[n]
  BY ListedLoop
<1> DEFINE Upto(k) == S \cap 1..k
           T == {k \in 0..n : Represents(G[k], Upto(k))}
<1>2. 0 \in T
  <2>1. Upto(0) = {}
    OBVIOUS
  <2> QED BY <1>1, <2>1, EmptyIsList
<1>3. ASSUME NEW k \in 1..n, k - 1 \in T PROVE k \in T
  <2>1. k - 1 \in 0..n /\ k \in 0..n /\ Represents(G[k - 1], Upto(k - 1))
    BY <1>3
  <2>2. G[k - 1] \in Lists(1..n) /\ Upto(k - 1) \in SUBSET (1..n) /\ k \in 1..n
    BY <2>1
  <2>3. k \notin Upto(k - 1)
    OBVIOUS
  <2>4. Upto(k) = IF k \in S THEN Upto(k - 1) \cup {k} ELSE Upto(k - 1)
    OBVIOUS
  <2> HIDE DEF Upto
  <2>5. CASE k \in S
    <3>1. Represents(AddTo(G[k - 1], k), Upto(k - 1) \cup {k})
      BY <2>1, <2>2, <2>3, Added
    <3> QED BY <1>1, <2>1, <2>4, <2>5, <3>1
  <2>6. CASE k \notin S
    BY <1>1, <2>1, <2>4, <2>6
  <2> QED BY <2>5, <2>6
<1>4. n \in T
  <2> HIDE DEF T
  <2> QED BY <1>2, <1>3, UpTo
<1>5. Upto(n) = S /\ n \in 0..n
  <2>1. S \subseteq 1..n /\ n \in 0..n
    OBVIOUS
  <2>2. S \cap 1..n = S
    BY <2>1, Zenon
  <2> QED BY <2>1, <2>2
<1> QED BY <1>1, <1>4, <1>5

-----------------------------------------------------------------------------
(* The occurrence lists. *)

Formulas == Seq(Seq(Literals))

(* What a formula consists of. *)
LEMMA FormulaType ==
    ASSUME NEW I \in Formulas
    PROVE  /\ DOMAIN I = 1..Len(I) /\ Len(I) \in Nat /\ IsFiniteSet(DOMAIN I)
           /\ \A c \in DOMAIN I : /\ I[c] \in Seq(Literals) /\ DOMAIN I[c] = 1..Len(I[c])
                                 /\ Len(I[c]) \in Nat /\ IsFiniteSet(DOMAIN I[c])
                                 /\ \A i \in DOMAIN I[c] : I[c][i] \in Literals
<1>1. DOMAIN I = 1..Len(I) /\ Len(I) \in Nat /\ IsFiniteSet(DOMAIN I)
  BY FS_Interval DEF Formulas
<1>2. ASSUME NEW c \in DOMAIN I
      PROVE  /\ I[c] \in Seq(Literals) /\ DOMAIN I[c] = 1..Len(I[c])
             /\ Len(I[c]) \in Nat /\ IsFiniteSet(DOMAIN I[c])
             /\ \A i \in DOMAIN I[c] : I[c][i] \in Literals
  <2>1. I[c] \in Seq(Literals)
    BY DEF Formulas
  <2> QED BY <2>1, FS_Interval
<1> QED BY <1>1, <1>2

(* A literal is a variable or its negation. *)
LEMMA LiteralType ==
    ASSUME NumVarAssumption, NEW l \in Literals
    PROVE  /\ l \in Int /\ l # 0 /\ -l \in Literals /\ -l # l
           /\ Var(l) \in Vars /\ Var(-l) = Var(l) /\ (l = Var(l) \/ l = -Var(l))
BY DEF NumVarAssumption, Literals, Var, Vars

(* Occurrences are counted by naturals. *)
LEMMA TimesType ==
    ASSUME NEW I \in Formulas, NEW c \in DOMAIN I, NEW l
    PROVE  /\ Times(I, c, l) \in Nat /\ VarTimes(I, c, l) \in Nat
           /\ IsFiniteSet({i \in DOMAIN I[c] : I[c][i] = l})
           /\ IsFiniteSet({i \in DOMAIN I[c] : Var(I[c][i]) = l})
<1>1. IsFiniteSet(DOMAIN I[c])
  BY FormulaType
<1>2. /\ IsFiniteSet({i \in DOMAIN I[c] : I[c][i] = l})
      /\ IsFiniteSet({i \in DOMAIN I[c] : Var(I[c][i]) = l})
  BY <1>1, FS_Subset
<1> QED BY <1>2, FS_CardinalityType DEF Times, VarTimes

(* The occurrences of a literal are collected clause by clause. *)
LEMMA OccurrencesLoop ==
    ASSUME NEW I \in Formulas, NEW l
    PROVE  \E G \in [0..Len(I) -> Seq(1..Len(I))] :
              /\ G[0] = <<>>
              /\ \A k \in 1..Len(I) : G[k] = G[k - 1] \o [i \in 1..Times(I, k, l) |-> k]
              /\ Occurrences(I, l) = G[Len(I)]
<1> DEFINE n == Len(I)
           A == Seq(1..Len(I))
           base == <<>>
           each == [c \in 1..Len(I) |-> c]
           Turn(t, e) == t \o [i \in 1..Times(I, e, l) |-> e]
           turn == [k \in 1..n |-> [t \in A |-> Turn(t, each[k])]]
           it == CHOOSE g : g = [t \in SUBSET (1..n) |-> IF t = {} THEN base
                                        ELSE Turn(g[t \ {Max(t)}], each[Max(t)])]
<1>1. n \in Nat /\ base \in A /\ DOMAIN each = 1..n /\ \A k \in 1..n : each[k] = k
  BY FormulaType
<1>2. turn \in Turns(n, A)
  <2> SUFFICES ASSUME NEW k \in 1..n, NEW t \in A PROVE Turn(t, k) \in A
    BY DEF Turns
  <2>1. Times(I, k, l) \in Nat
    BY FormulaType, TimesType
  <2>2. [i \in 1..Times(I, k, l) |-> k] \in Seq(1..Len(I))
    BY <2>1
  <2> QED BY <2>2
<1>3. Occurrences(I, l) = it[1..n]
  BY <1>1, Zenon DEF Occurrences, FoldLeft, MapThenFoldSet
<1> HIDE DEF n, A, base, each, Turn
<1>4. 1..n \subseteq Nat /\ IsFiniteSet(1..n)
  BY <1>1, FS_Interval
<1>5. \A t \in SUBSET (1..n) : t # {} => Max(t) \in 1..n
  BY <1>4, FS_Subset, MaxUpTo
<1>6. it = [t \in SUBSET (1..n) |-> IF t = {} THEN base
                                  ELSE Turn(it[t \ {Max(t)}], each[Max(t)])]
  <2>1. PICK g : IsLoop(g, n, A, base, turn)
    <3> HIDE DEF turn
    <3> QED BY <1>1, <1>2, LoopExists
  <2>2. g = [t \in SUBSET (1..n) |-> IF t = {} THEN base
                                    ELSE Turn(g[t \ {Max(t)}], each[Max(t)])]
    BY <1>5, <2>1 DEF IsLoop
  <2> QED BY <2>2
<1> HIDE DEF it
<1>7. Iterates(it, n, A, base, turn)
  BY <1>5, <1>6 DEF Iterates
<1>8. PICK G : Values(G, n, A, base, turn) /\ G[n] = it[1..n]
  <2> HIDE DEF turn
  <2> QED BY <1>1, <1>2, <1>7, LoopValues
<1>9. G \in [0..n -> A] /\ G[0] = base
  BY <1>8 DEF Values
<1>10. \A k \in 1..n : G[k] = Turn(G[k - 1], k)
  <2> TAKE k \in 1..n
  <2>1. k - 1 \in 0..n
    BY <1>1
  <2>2. G[k - 1] \in A
    BY <1>9, <2>1
  <2>3. G[k] = turn[k][G[k - 1]]
    BY <1>8 DEF Values
  <2> QED BY <1>1, <2>2, <2>3
<1> HIDE DEF turn
<1> QED BY <1>3, <1>8, <1>9, <1>10 DEF n, A, base, each, Turn

OccursAt(occ, c) == {i \in DOMAIN occ : occ[i] = c}

(* A clause is in the list as often as it holds the literal. *)
LEMMA OccurrencesAre ==
    ASSUME NEW I \in Formulas, NEW l
    PROVE  /\ Occurrences(I, l) \in Seq(DOMAIN I)
           /\ \A c \in DOMAIN I :
                 Cardinality(OccursAt(Occurrences(I, l), c)) = Times(I, c, l)
<1>1. PICK G \in [0..Len(I) -> Seq(1..Len(I))] :
         /\ G[0] = <<>>
         /\ \A k \in 1..Len(I) : G[k] = G[k - 1] \o [i \in 1..Times(I, k, l) |-> k]
         /\ Occurrences(I, l) = G[Len(I)]
  BY OccurrencesLoop
<1>2. DOMAIN I = 1..Len(I) /\ Len(I) \in Nat
  BY FormulaType
<1> DEFINE FoundAll(k, c) == IF c <= k THEN Cardinality(OccursAt(G[k], c)) = Times(I, c, l)
                           ELSE OccursAt(G[k], c) = {}
           T == {k \in 0..Len(I) : \A c \in 1..Len(I) : FoundAll(k, c)}
<1>3. 0 \in T
  BY <1>1, <1>2 DEF OccursAt
<1>4. ASSUME NEW k \in 1..Len(I), k - 1 \in T PROVE k \in T
  <2> DEFINE s == G[k - 1]
             m == Times(I, k, l)
             more == [i \in 1..m |-> k]
  <2>1. k - 1 \in 0..Len(I) /\ s \in Seq(1..Len(I)) /\ m \in Nat /\ G[k] = s \o more
    <3>1. k - 1 \in 0..Len(I) /\ k \in DOMAIN I
      BY <1>2
    <3>2. s \in Seq(1..Len(I))
      BY <1>1, <3>1
    <3>3. m \in Nat
      BY <3>1, TimesType
    <3> QED BY <1>1, <3>1, <3>2, <3>3
  <2>2. more \in Seq(1..Len(I)) /\ Len(more) = m /\ \A i \in 1..m : more[i] = k
    BY <2>1
  <2> HIDE DEF s, m, more
  <2>3. /\ DOMAIN G[k] = 1..(Len(s) + m) /\ DOMAIN s = 1..Len(s)
        /\ \A i \in 1..(Len(s) + m) : G[k][i] = IF i <= Len(s) THEN s[i] ELSE k
    <3> DEFINE t == s \o more
    <3>1. t \in Seq(1..Len(I)) /\ Len(t) = Len(s) + m
      BY <2>1, <2>2, ConcatProperties
    <3>2. \A i \in 1..(Len(s) + m) : t[i] = IF i <= Len(s) THEN s[i] ELSE more[i - Len(s)]
      BY <2>1, <2>2
    <3>3. \A i \in 1..(Len(s) + m) : ~(i <= Len(s)) => more[i - Len(s)] = k
      <4> TAKE i \in 1..(Len(s) + m)
      <4>1. ~(i <= Len(s)) => i - Len(s) \in 1..m
        BY <2>1
      <4> QED BY <2>2, <4>1
    <3>4. DOMAIN t = 1..(Len(s) + m) /\ DOMAIN s = 1..Len(s)
      BY <2>1, <3>1
    <3> QED BY <2>1, <3>2, <3>3, <3>4
  <2>4. ASSUME NEW c \in 1..Len(I) PROVE FoundAll(k, c)
    <3>1. CASE c # k
      <4>1. OccursAt(G[k], c) = OccursAt(s, c)
        BY <2>1, <2>3, <3>1 DEF OccursAt
      <4>2. FoundAll(k - 1, c)
        BY <1>4
      <4>3. c <= k <=> c <= k - 1
        BY <3>1
      <4> QED BY <4>1, <4>2, <4>3 DEF s
    <3>2. CASE c = k
      <4>1. OccursAt(s, k) = {}
        <5>1. FoundAll(k - 1, k) /\ ~(k <= k - 1)
          BY <1>4
        <5> QED BY <5>1 DEF s
      <4>2. OccursAt(G[k], k) = (Len(s) + 1)..(Len(s) + m)
        BY <2>1, <2>3, <4>1 DEF OccursAt
      <4>3. Cardinality((Len(s) + 1)..(Len(s) + m)) = m
        <5>1. Len(s) + 1 \in Int /\ Len(s) + m \in Int /\ m \in Nat /\ Len(s) \in Nat
          BY <2>1
        <5> QED BY <5>1, FS_Interval
      <4> QED BY <3>2, <4>2, <4>3 DEF m
    <3> QED BY <3>1, <3>2
  <2> HIDE DEF FoundAll
  <2> QED BY <2>4
<1>5. Len(I) \in T
  <2> DEFINE n == Len(I)
  <2>1. n \in Nat /\ \A k \in 1..n : k - 1 \in T => k \in T
    BY <1>2, <1>4
  <2> HIDE DEF n, T
  <2>2. n \in T
    <3>1. \A k \in 0..n : k \in T
      BY <1>3, <2>1, UpTo
    <3> QED BY <2>1, <3>1
  <2> QED BY <2>2 DEF n
<1>6. \A c \in 1..Len(I) : FoundAll(Len(I), c) /\ c <= Len(I)
  BY <1>2, <1>5
<1>7. G[Len(I)] \in Seq(DOMAIN I)
  BY <1>1, <1>2
<1> QED BY <1>1, <1>2, <1>6, <1>7

-----------------------------------------------------------------------------
(* The search state and the types that every flip keeps. *)

States(I) ==
    [val : [Vars -> BOOLEAN], numTrue : [DOMAIN I -> Int], falses : Lists(DOMAIN I),
     crit : [DOMAIN I -> Indices], break : [Indices -> Int], make : [Indices -> Int],
     breakW : [Indices -> Int], makeW : [Indices -> Int], vars : Lists(Vars),
     weight : [DOMAIN I -> Nat], sum : Int, falseW : Int, head : Indices,
     change : [Indices -> Int]]

(* A list stays one, member or not. *)
LEMMA ListTypes ==
    ASSUME NEW E, NEW s \in Lists(E), NEW e \in E
    PROVE  AddTo(s, e) \in Lists(E) /\ DropFrom(s, e) \in Lists(E)
<1>1. s.list \in Seq(E) /\ s.pos \in [E -> Nat] /\ Len(s.list) \in Nat
  BY DEF Lists
<1>2. AddTo(s, e) \in Lists(E)
  BY <1>1 DEF AddTo, Lists
<1>3. [s.list EXCEPT ![s.pos[e]] = Final(s)] \in Seq(E)
  <2>1. CASE s.pos[e] \in 1..Len(s.list)
    <3>1. Len(s.list) \in 1..Len(s.list)
      BY <1>1, <2>1
    <3>2. Final(s) \in E
      BY <1>1, <3>1 DEF Final
    <3> QED BY <1>1, <2>1, <3>2, ExceptSeq
  <2>2. CASE s.pos[e] \notin 1..Len(s.list)
    <3>1. [s.list EXCEPT ![s.pos[e]] = Final(s)] = s.list
      BY <1>1, <2>2
    <3> QED BY <1>1, <3>1
  <2> QED BY <2>1, <2>2
<1> DEFINE moved == [s.list EXCEPT ![s.pos[e]] = Final(s)]
<1>4. Len(moved) = Len(s.list)
  BY <1>1
<1>5. SubSeq(moved, 1, Len(s.list) - 1) \in Seq(E)
  <2> HIDE DEF moved
  <2>1. moved \in Seq(E) /\ 1 \in Int /\ Len(s.list) - 1 \in Int
    BY <1>1, <1>3 DEF moved
  <2>2. \A i \in 1..(Len(s.list) - 1) : i \in 1..Len(moved)
    BY <1>1, <1>4
  <2> QED BY <2>1, <2>2, SubSeqProperties
<1>6. [s.pos EXCEPT ![Final(s)] = s.pos[e]] \in [E -> Nat]
  BY <1>1
<1> QED BY <1>2, <1>5, <1>6 DEF DropFrom, Lists

(* Counts are kept in units of 1, or not at all. *)
LEMMA UnitType == Unit \in {0, 1} /\ (KeepsVars => Unit = 1) /\ (~KeepsCrit => Unit = 0)
BY DEF Unit, KeepsVars, KeepsCrit, NoveltyLike, WalkSatLike, Weighted

(* The parts that only the end of a flip or of a step changes. *)
SameRest(s, t) ==
    /\ t.val = s.val /\ t.weight = s.weight /\ t.sum = s.sum /\ t.falseW = s.falseW
    /\ t.head = s.head /\ t.change = s.change

SameBreak(s, t) == t.break = s.break /\ t.breakW = s.breakW

SameMake(s, t) == t.make = s.make /\ t.makeW = s.makeW /\ t.vars = s.vars

(* What AddBreak leaves, b, of s. *)
BrokenOne(s, b, u, c, d) ==
    /\ SameRest(s, b) /\ SameMake(s, b)
    /\ b.numTrue = s.numTrue /\ b.falses = s.falses /\ b.crit = s.crit
    /\ b.break = [s.break EXCEPT ![u] = @ + d * Unit]
    /\ b.breakW = [s.breakW EXCEPT ![u] = @ + d * s.weight[c]]

(* A break count goes up or down by one clause, and nothing else changes. *)
LEMMA AddBreakIs ==
    ASSUME NEW I, NEW s \in States(I), NEW u \in Indices, NEW c \in DOMAIN I,
           NEW d \in Int
    PROVE  /\ AddBreak(s, u, c, d) \in States(I)
           /\ BrokenOne(s, AddBreak(s, u, c, d), u, c, d)
<1> USE UnitType
<1> DEFINE b == AddBreak(s, u, c, d)
<1>1. BrokenOne(s, b, u, c, d)
  BY DEF AddBreak, States, SameRest, SameMake, BrokenOne
<1>2. b.break \in [Indices -> Int] /\ b.breakW \in [Indices -> Int]
  <2>1. d * Unit \in Int /\ d * s.weight[c] \in Int
    BY DEF States
  <2> QED BY <1>1, <2>1 DEF States, BrokenOne
<1>3. b \in States(I)
  BY <1>2 DEF AddBreak, States
<1> QED BY <1>1, <1>3

(* What AddMake leaves, m, of s. *)
MadeOne(s, m, u, c, d) ==
    /\ SameRest(s, m) /\ SameBreak(s, m)
    /\ m.numTrue = s.numTrue /\ m.falses = s.falses /\ m.crit = s.crit
    /\ m.make = [s.make EXCEPT ![u] = @ + d * Unit]
    /\ m.makeW = [s.makeW EXCEPT ![u] = @ + d * s.weight[c]]
    /\ m.vars = IF KeepsVars /\ d = 1 /\ m.make[u] = 1 THEN AddTo(s.vars, u)
                ELSE IF KeepsVars /\ d = -1 /\ m.make[u] = 0 THEN DropFrom(s.vars, u)
                ELSE s.vars

(* So does a make count, but for the list of variables. *)
LEMMA AddMakeIs ==
    ASSUME NEW I, NEW s \in States(I), NEW u \in Vars, NEW c \in DOMAIN I,
           NEW d \in {1, -1}, NEW m, m = AddMake(s, u, c, d)
    PROVE  /\ m \in States(I)
           /\ MadeOne(s, m, u, c, d)
<1> USE UnitType
<1> DEFINE made == [s EXCEPT !.make[u] = @ + d * Unit, !.makeW[u] = @ + d * s.weight[c]]
<1>1. u \in Indices
  BY DEF Indices, Vars
<1>2. /\ SameRest(s, made) /\ SameBreak(s, made) /\ made.numTrue = s.numTrue
      /\ made.falses = s.falses /\ made.crit = s.crit /\ made.vars = s.vars
      /\ made.make = [s.make EXCEPT ![u] = @ + d * Unit]
      /\ made.makeW = [s.makeW EXCEPT ![u] = @ + d * s.weight[c]]
  BY DEF States, SameRest, SameBreak
<1>3. made \in States(I)
  <2> DEFINE x == [s.make EXCEPT ![u] = @ + d * Unit]
             y == [s.makeW EXCEPT ![u] = @ + d * s.weight[c]]
  <2>1. d * Unit \in Int /\ d * s.weight[c] \in Int
    BY DEF States
  <2>2. s.make \in [Indices -> Int] /\ s.makeW \in [Indices -> Int]
    BY DEF States
  <2>3. x \in [Indices -> Int] /\ y \in [Indices -> Int]
    <3>1. \A f \in [Indices -> Int] : \A e \in Int :
             [f EXCEPT ![u] = @ + e] \in [Indices -> Int]
      BY <1>1
    <3> QED BY <2>1, <2>2, <3>1
  <2>4. made = [s EXCEPT !.make = x, !.makeW = y]
    BY DEF States
  <2> HIDE DEF x, y
  <2> QED BY <2>3, <2>4 DEF States
<1>4. AddTo(s.vars, u) \in Lists(Vars) /\ DropFrom(s.vars, u) \in Lists(Vars)
  BY ListTypes DEF States
<1>5. m = CASE KeepsVars /\ d = 1 /\ made.make[u] = 1  -> [made EXCEPT !.vars = AddTo(@, u)]
            [] KeepsVars /\ d = -1 /\ made.make[u] = 0 -> [made EXCEPT !.vars = DropFrom(@, u)]
            [] OTHER -> made
  BY DEF AddMake
<1> HIDE DEF made
<1>6. CASE KeepsVars /\ d = 1 /\ made.make[u] = 1
  <2>1. m = [made EXCEPT !.vars = AddTo(@, u)]
    BY <1>5, <1>6
  <2>2. m \in States(I) /\ SameRest(made, m) /\ SameBreak(made, m) /\ m.make = made.make
        /\ m.numTrue = made.numTrue /\ m.falses = made.falses /\ m.crit = made.crit
        /\ m.makeW = made.makeW /\ m.vars = AddTo(s.vars, u)
    BY <1>2, <1>3, <1>4, <2>1 DEF States, SameRest, SameBreak
  <2> QED BY <1>2, <1>6, <2>2 DEF SameRest, SameBreak, MadeOne
<1>7. CASE KeepsVars /\ d = -1 /\ made.make[u] = 0
  <2>1. m = [made EXCEPT !.vars = DropFrom(@, u)]
    BY <1>5, <1>7
  <2>2. m \in States(I) /\ SameRest(made, m) /\ SameBreak(made, m) /\ m.make = made.make
        /\ m.numTrue = made.numTrue /\ m.falses = made.falses /\ m.crit = made.crit
        /\ m.makeW = made.makeW /\ m.vars = DropFrom(s.vars, u)
    BY <1>2, <1>3, <1>4, <2>1 DEF States, SameRest, SameBreak
  <2>3. d # 1
    BY <1>7
  <2> QED BY <1>2, <1>7, <2>2, <2>3 DEF SameRest, SameBreak, MadeOne
<1>8. CASE /\ ~(KeepsVars /\ d = 1 /\ made.make[u] = 1)
           /\ ~(KeepsVars /\ d = -1 /\ made.make[u] = 0)
  <2>1. m = made
    BY <1>5, <1>8
  <2> QED BY <1>2, <1>3, <1>8, <2>1 DEF MadeOne
<1> QED BY <1>6, <1>7, <1>8

(* The states G that the make counts of a clause go through, literal by literal. *)
MakeTurns(I, s, c, d, G) ==
    /\ G \in [0..Len(I[c]) -> States(I)]
    /\ G[0] = s
    /\ \A k \in 1..Len(I[c]) : G[k] = AddMake(G[k - 1], Var(I[c][k]), c, d)
    /\ MakeAll(I, s, c, d) = G[Len(I[c])]

LEMMA MakeAllLoop ==
    ASSUME NEW I \in Formulas, NEW s \in States(I), NEW c \in DOMAIN I, NEW d \in {1, -1},
           NumVarAssumption
    PROVE  \E G : MakeTurns(I, s, c, d, G)
<1> DEFINE n == Len(I[c])
           A == States(I)
           base == s
           each == I[c]
           Turn(t, e) == AddMake(t, Var(e), c, d)
           turn == [k \in 1..n |-> [t \in A |-> Turn(t, each[k])]]
           it == CHOOSE g : g = [t \in SUBSET (1..n) |-> IF t = {} THEN base
                                        ELSE Turn(g[t \ {Max(t)}], each[Max(t)])]
<1>1. n \in Nat /\ base \in A /\ DOMAIN each = 1..n
  BY FormulaType
<1>2. turn \in Turns(n, A)
  <2> SUFFICES ASSUME NEW k \in 1..n, NEW t \in A PROVE Turn(t, each[k]) \in A
    BY DEF Turns
  <2>1. Var(each[k]) \in Vars
    BY FormulaType, LiteralType
  <2> HIDE DEF each, n
  <2> QED BY <2>1, AddMakeIs
<1>3. MakeAll(I, s, c, d) = it[1..n]
  BY <1>1, Zenon DEF MakeAll, FoldLeft, MapThenFoldSet
<1> HIDE DEF n, A, base, each, Turn
<1>4. 1..n \subseteq Nat /\ IsFiniteSet(1..n)
  BY <1>1, FS_Interval
<1>5. \A t \in SUBSET (1..n) : t # {} => Max(t) \in 1..n
  BY <1>4, FS_Subset, MaxUpTo
<1>6. it = [t \in SUBSET (1..n) |-> IF t = {} THEN base
                                  ELSE Turn(it[t \ {Max(t)}], each[Max(t)])]
  <2>1. PICK g : IsLoop(g, n, A, base, turn)
    <3> HIDE DEF turn
    <3> QED BY <1>1, <1>2, LoopExists
  <2>2. g = [t \in SUBSET (1..n) |-> IF t = {} THEN base
                                    ELSE Turn(g[t \ {Max(t)}], each[Max(t)])]
    BY <1>5, <2>1 DEF IsLoop
  <2> QED BY <2>2
<1> HIDE DEF it
<1>7. Iterates(it, n, A, base, turn)
  BY <1>5, <1>6 DEF Iterates
<1>8. PICK G : Values(G, n, A, base, turn) /\ G[n] = it[1..n]
  <2> HIDE DEF turn
  <2> QED BY <1>1, <1>2, <1>7, LoopValues
<1>9. G \in [0..n -> A] /\ G[0] = base
  BY <1>8 DEF Values
<1>10. \A k \in 1..n : G[k] = Turn(G[k - 1], each[k])
  <2> TAKE k \in 1..n
  <2>1. k - 1 \in 0..n
    BY <1>1
  <2>2. G[k - 1] \in A
    BY <1>9, <2>1
  <2>3. G[k] = turn[k][G[k - 1]]
    BY <1>8 DEF Values
  <2> QED BY <1>1, <2>2, <2>3
<1> HIDE DEF turn
<1>11. /\ G \in [0..Len(I[c]) -> States(I)]
       /\ G[0] = s
       /\ \A k \in 1..Len(I[c]) : G[k] = AddMake(G[k - 1], Var(I[c][k]), c, d)
       /\ MakeAll(I, s, c, d) = G[Len(I[c])]
  BY <1>3, <1>8, <1>9, <1>10 DEF n, A, base, each, Turn
<1> QED BY <1>11 DEF MakeTurns

(* The list of variables holds those that would make a clause. *)
VarsKept(s) == KeepsVars => Represents(s.vars, {u \in Vars : s.make[u] > 0})

(* The list of variables follows the make counts. *)
LEMMA AddMakeKeeps ==
    ASSUME NEW I, NEW s \in States(I), NEW u \in Vars, NEW c \in DOMAIN I,
           NEW d \in {1, -1}, VarsKept(s), KeepsVars => s.make[u] >= 0,
           KeepsVars /\ d = -1 => s.make[u] >= 1
    PROVE  VarsKept(AddMake(s, u, c, d))
<1> DEFINE m == AddMake(s, u, c, d)
           Made(t) == {x \in Vars : t.make[x] > 0}
<1> SUFFICES ASSUME KeepsVars PROVE Represents(m.vars, Made(m))
  BY DEF VarsKept
<1>0. m = AddMake(s, u, c, d)
  OBVIOUS
<1> HIDE DEF m
<1>1. /\ m.make = [s.make EXCEPT ![u] = @ + d * Unit]
      /\ m.vars = IF KeepsVars /\ d = 1 /\ m.make[u] = 1 THEN AddTo(s.vars, u)
                  ELSE IF KeepsVars /\ d = -1 /\ m.make[u] = 0 THEN DropFrom(s.vars, u)
                  ELSE s.vars
  <2>1. MadeOne(s, m, u, c, d)
    BY <1>0, AddMakeIs
  <2> QED BY <2>1 DEF MadeOne
<1>2. s.make \in [Indices -> Int] /\ s.vars \in Lists(Vars) /\ Vars \subseteq Indices
  <2>1. s.make \in [Indices -> Int] /\ s.vars \in Lists(Vars)
    BY DEF States
  <2>2. Vars \subseteq Indices
    BY DEF Indices, Vars
  <2> QED BY <2>1, <2>2
<1>3. Unit = 1 /\ Represents(s.vars, Made(s)) /\ s.make[u] \in Nat
  BY <1>2, UnitType DEF VarsKept
<1>4. /\ m.make[u] = s.make[u] + d
      /\ \A x \in Vars : x # u => m.make[x] = s.make[x]
  <2>1. d * Unit = d
    BY <1>3
  <2> QED BY <1>1, <1>2, <2>1
<1>5. CASE d = 1 /\ m.make[u] = 1
  <2>1. u \in Vars \ Made(s) /\ Made(s) \in SUBSET Vars
    BY <1>4, <1>5, <1>3
  <2>2. Made(m) = Made(s) \cup {u}
    BY <1>4, <1>5
  <2>3. m.vars = AddTo(s.vars, u)
    BY <1>1, <1>5
  <2> HIDE DEF Made
  <2> QED BY <1>2, <1>3, <2>1, <2>2, <2>3, Added
<1>6. CASE d = -1 /\ m.make[u] = 0
  <2>1. u \in Made(s) /\ Made(s) \in SUBSET Vars
    BY <1>3, <1>4, <1>6
  <2>2. Made(m) = Made(s) \ {u}
    BY <1>4, <1>6
  <2>3. m.vars = DropFrom(s.vars, u)
    BY <1>1, <1>6
  <2> HIDE DEF Made
  <2> QED BY <1>2, <1>3, <2>1, <2>2, <2>3, Dropped
<1>7. CASE ~(d = 1 /\ m.make[u] = 1) /\ ~(d = -1 /\ m.make[u] = 0)
  <2>1. s.make[u] > 0 /\ m.make[u] > 0
    BY <1>3, <1>4, <1>7
  <2>2. Made(m) = Made(s)
    BY <1>4, <2>1
  <2>3. m.vars = s.vars
    BY <1>1, <1>7
  <2> QED BY <1>3, <2>2, <2>3
<1> QED BY <1>5, <1>6, <1>7

(* One more term of a product. *)
LEMMA OnceMore ==
    ASSUME NEW y \in Int, NEW d \in {1, -1}, NEW w \in Int, NEW p \in Nat
    PROVE  y + d * (w * p) + d * w = y + d * (w * (p + 1))
<1> DEFINE q == w * p
<1>1. q \in Int /\ w * (p + 1) = q + w
  OBVIOUS
<1> HIDE DEF q
<1>2. CASE d = 1
  BY <1>1, <1>2
<1>3. CASE d = -1
  BY <1>1, <1>3
<1> QED BY <1>2, <1>3 DEF q

(* What MakeAll leaves, m, of s. *)
MadeAll(I, s, m, c, d) ==
    /\ SameRest(s, m) /\ SameBreak(s, m)
    /\ m.numTrue = s.numTrue /\ m.falses = s.falses /\ m.crit = s.crit
    /\ \A u \in Vars :
          /\ m.make[u] = s.make[u] + d * (Unit * VarTimes(I, c, u))
          /\ m.makeW[u] = s.makeW[u] + d * (s.weight[c] * VarTimes(I, c, u))

(* A clause that has become false, or true, for all of its literals. *)
LEMMA MakeAllIs ==
    ASSUME NumVarAssumption, NEW I \in Formulas, NEW s \in States(I), NEW c \in DOMAIN I,
           NEW d \in {1, -1}, VarsKept(s), \A u \in Vars : s.make[u] >= 0,
           d = -1 => \A u \in Vars : s.make[u] >= Unit * VarTimes(I, c, u)
    PROVE  /\ MakeAll(I, s, c, d) \in States(I)
           /\ MadeAll(I, s, MakeAll(I, s, c, d), c, d)
           /\ VarsKept(MakeAll(I, s, c, d))
<1>0. PICK G : MakeTurns(I, s, c, d, G)
  BY MakeAllLoop
<1>1. /\ G \in [0..Len(I[c]) -> States(I)]
      /\ G[0] = s
      /\ \A k \in 1..Len(I[c]) : G[k] = AddMake(G[k - 1], Var(I[c][k]), c, d)
      /\ MakeAll(I, s, c, d) = G[Len(I[c])]
  BY <1>0 DEF MakeTurns
<1> DEFINE n == Len(I[c])
           X(u) == {i \in DOMAIN I[c] : Var(I[c][i]) = u}
           P(k, u) == Cardinality(X(u) \cap 1..k)
           w == s.weight[c]
           Inv(k) == /\ SameRest(s, G[k]) /\ SameBreak(s, G[k])
                     /\ G[k].numTrue = s.numTrue /\ G[k].falses = s.falses
                     /\ G[k].crit = s.crit
                     /\ \A u \in Vars : /\ G[k].make[u] = s.make[u] + d * (Unit * P(k, u))
                                        /\ G[k].makeW[u] = s.makeW[u] + d * (w * P(k, u))
                     /\ VarsKept(G[k])
           T == {k \in 0..n : Inv(k)}
<1>2. n \in Nat /\ DOMAIN I[c] = 1..n
  BY FormulaType
<1>3. s.make \in [Indices -> Int] /\ s.makeW \in [Indices -> Int] /\ Vars \subseteq Indices
      /\ w \in Nat /\ Unit \in {0, 1} /\ (KeepsVars => Unit = 1)
  <2>1. s.make \in [Indices -> Int] /\ s.makeW \in [Indices -> Int] /\ w \in Nat
    BY DEF States
  <2>2. Vars \subseteq Indices
    BY DEF Indices, Vars
  <2> QED BY <2>1, <2>2, UnitType
<1>4. ASSUME NEW k \in 0..n, NEW u
      PROVE  /\ P(k, u) \in Nat /\ P(k, u) <= VarTimes(I, c, u)
             /\ k = n => P(k, u) = VarTimes(I, c, u)
  <2>1. IsFiniteSet(X(u)) /\ VarTimes(I, c, u) = Cardinality(X(u))
    BY TimesType DEF VarTimes
  <2>2. X(u) \cap 1..k \subseteq X(u)
    OBVIOUS
  <2>3. k = n => X(u) \cap 1..k = X(u)
    <3>1. X(u) \subseteq 1..n
      BY <1>2
    <3> HIDE DEF n, X
    <3> QED BY <3>1, Zenon
  <2> HIDE DEF X
  <2>4. Cardinality(X(u) \cap 1..k) \in Nat /\ Cardinality(X(u) \cap 1..k) <= Cardinality(X(u))
    BY <2>1, <2>2, FS_Subset, FS_CardinalityType
  <2> QED BY <2>1, <2>3, <2>4
<1>5. 0 \in T
  <2>1. \A u : X(u) \cap 1..0 = {}
    OBVIOUS
  <2>2. \A u : P(0, u) = 0
    BY <2>1, FS_EmptySet
  <2> HIDE DEF P
  <2>3. Inv(0)
    BY <1>1, <1>3, <2>2 DEF SameRest, SameBreak
  <2> QED BY <1>2, <2>3
<1>6. ASSUME NEW k \in 1..n, k - 1 \in T PROVE k \in T
  <2> DEFINE t == G[k - 1]
             v == Var(I[c][k])
  <2>1. k - 1 \in 0..n /\ k \in 0..n /\ k \in DOMAIN I[c] /\ k \in Nat /\ k # 0
    BY <1>2
  <2>2. t \in States(I) /\ Inv(k - 1) /\ G[k] = AddMake(t, v, c, d)
    BY <1>1, <1>6, <2>1
  <2>3. v \in Vars
    BY <2>1, FormulaType, LiteralType
  <2>4. ASSUME NEW u PROVE P(k, u) = P(k - 1, u) + (IF u = v THEN 1 ELSE 0)
    <3>1. k \in X(u) <=> u = v
      BY <2>1
    <3> HIDE DEF X, v
    <3> QED BY <2>1, <3>1, CountNext
  <2>5. \A u \in Vars : /\ t.make[u] = s.make[u] + d * (Unit * P(k - 1, u))
                        /\ t.makeW[u] = s.makeW[u] + d * (w * P(k - 1, u))
    BY <2>2
  <2>6. \A u \in Vars : P(k - 1, u) \in Nat /\ P(k, u) \in Nat /\ P(k, u) <= VarTimes(I, c, u)
                        /\ VarTimes(I, c, u) \in Nat
    BY <1>4, <2>1, TimesType
  <2>7. t.weight[c] = w
    BY <2>2 DEF SameRest
  <2> HIDE DEF P, X
  <2>8. KeepsVars => t.make[v] >= 0 /\ (d = -1 => t.make[v] >= 1)
    <3> HAVE KeepsVars
    <3>1. Unit = 1 /\ s.make[v] \in Int /\ s.make[v] >= 0 /\ t.make[v] = s.make[v] + d * P(k - 1, v)
      BY <1>3, <2>3, <2>5, <2>6
    <3>2. P(k - 1, v) + 1 <= VarTimes(I, c, v) /\ P(k - 1, v) \in Nat /\ VarTimes(I, c, v) \in Nat
      BY <2>3, <2>4, <2>6
    <3>3. CASE d = 1
      BY <3>1, <3>2, <3>3
    <3>4. CASE d = -1
      <4>1. s.make[v] >= VarTimes(I, c, v)
        <5>1. s.make[v] >= Unit * VarTimes(I, c, v)
          BY <2>3, <3>4
        <5> QED BY <3>1, <3>2, <5>1
      <4> QED BY <3>1, <3>2, <3>4, <4>1
    <3> QED BY <3>3, <3>4
  <2>9. VarsKept(G[k])
    <3>1. VarsKept(t)
      BY <2>2
    <3> HIDE DEF t, v
    <3> QED BY <2>2, <2>3, <2>8, <3>1, AddMakeKeeps
  <2>10. /\ SameRest(t, G[k]) /\ SameBreak(t, G[k])
         /\ G[k].numTrue = t.numTrue /\ G[k].falses = t.falses /\ G[k].crit = t.crit
         /\ G[k].make = [t.make EXCEPT ![v] = @ + d * Unit]
         /\ G[k].makeW = [t.makeW EXCEPT ![v] = @ + d * w]
    <3> HIDE DEF t, v, w
    <3>1. MadeOne(t, G[k], v, c, d)
      BY <2>2, <2>3, AddMakeIs
    <3> QED BY <2>7, <3>1 DEF MadeOne
  <2>11. t.make \in [Indices -> Int] /\ t.makeW \in [Indices -> Int]
    BY <2>2 DEF States
  <2>12. ASSUME NEW u \in Vars
         PROVE  /\ G[k].make[u] = s.make[u] + d * (Unit * P(k, u))
                /\ G[k].makeW[u] = s.makeW[u] + d * (w * P(k, u))
    <3> DEFINE p == P(k - 1, u)
    <3>1. /\ t.make[u] = s.make[u] + d * (Unit * p) /\ t.makeW[u] = s.makeW[u] + d * (w * p)
          /\ p \in Nat /\ s.make[u] \in Int /\ s.makeW[u] \in Int /\ u \in Indices
      BY <1>3, <2>5, <2>6
    <3>2. CASE u = v
      <4>1. P(k, u) = p + 1
        BY <2>4, <3>2
      <4>2. /\ G[k].make[u] = t.make[u] + d * Unit
            /\ G[k].makeW[u] = t.makeW[u] + d * w
        BY <2>10, <2>11, <3>1, <3>2
      <4> HIDE DEF p, t, w
      <4>3. /\ s.make[u] + d * (Unit * p) + d * Unit = s.make[u] + d * (Unit * (p + 1))
            /\ s.makeW[u] + d * (w * p) + d * w = s.makeW[u] + d * (w * (p + 1))
        <5>1. Unit \in Int /\ w \in Int
          BY <1>3
        <5>2. s.make[u] \in Int /\ s.makeW[u] \in Int /\ p \in Nat /\ d \in {1, -1}
          BY <3>1
        <5> DEFINE y == s.make[u]
                   z == s.makeW[u]
        <5>3. y \in Int /\ z \in Int
          BY <5>2
        <5> HIDE DEF y, z
        <5>4. y + d * (Unit * p) + d * Unit = y + d * (Unit * (p + 1))
          BY <5>1, <5>2, <5>3, OnceMore
        <5>5. z + d * (w * p) + d * w = z + d * (w * (p + 1))
          BY <5>1, <5>2, <5>3, OnceMore
        <5> QED BY <5>4, <5>5 DEF y, z
      <4> QED BY <3>1, <4>1, <4>2, <4>3
    <3>3. CASE u # v
      <4>1. P(k, u) = p
        BY <2>4, <3>1, <3>3
      <4>2. G[k].make[u] = t.make[u] /\ G[k].makeW[u] = t.makeW[u]
        BY <2>10, <2>11, <3>1, <3>3
      <4> QED BY <3>1, <4>1, <4>2
    <3> QED BY <3>2, <3>3
  <2>13. Inv(k)
    <3>1. /\ SameRest(s, G[k]) /\ SameBreak(s, G[k])
          /\ G[k].numTrue = s.numTrue /\ G[k].falses = s.falses /\ G[k].crit = s.crit
      BY <2>2, <2>10 DEF SameRest, SameBreak
    <3> HIDE DEF t, v, w
    <3> QED BY <2>9, <2>12, <3>1
  <2> QED BY <2>1, <2>13
<1>7. n \in T
  <2>1. n \in Nat /\ \A k \in 1..n : k - 1 \in T => k \in T
    BY <1>2, <1>6
  <2> HIDE DEF n, T
  <2>2. \A k \in 0..n : k \in T
    BY <1>5, <2>1, UpTo
  <2> QED BY <2>1, <2>2
<1>8. Inv(n) /\ n \in 0..n /\ MakeAll(I, s, c, d) = G[n] /\ G[n] \in States(I)
  BY <1>1, <1>2, <1>7
<1>9. \A u \in Vars : P(n, u) = VarTimes(I, c, u)
  BY <1>4, <1>8
<1> HIDE DEF P, n, X
<1> QED BY <1>8, <1>9 DEF MadeAll

-----------------------------------------------------------------------------
(* The first true literal. *)

(* The first true literal of a clause is one of its true literals, if any  *)
(* is.                                                                     *)
LEMMA FirstTrue ==
    ASSUME NumVarAssumption, NEW I \in Formulas, NEW val \in [Vars -> BOOLEAN],
           NEW c \in DOMAIN I
    PROVE  /\ NumTrueLit(I, val, c) \in Nat
           /\ IsFiniteSet({i \in DOMAIN I[c] : IsLitTrue(val, I[c][i])})
           /\ FirstTrueVar(I, val, c) \in Indices
           /\ NumTrueLit(I, val, c) = 0 <=> FirstTrueVar(I, val, c) = NoVar
           /\ NumTrueLit(I, val, c) # 0 =>
                 \E i \in DOMAIN I[c] : /\ IsLitTrue(val, I[c][i])
                                        /\ FirstTrueVar(I, val, c) = Var(I[c][i])
<1> DEFINE True == {i \in DOMAIN I[c] : IsLitTrue(val, I[c][i])}
<1>1. IsFiniteSet(True) /\ Cardinality(True) \in Nat
  BY FormulaType, FS_Subset, FS_CardinalityType
<1>2. FirstTrueVar(I, val, c) = IF True = {} THEN NoVar ELSE Var(I[c][Min(True)])
  BY DEF FirstTrueVar
<1>3. Cardinality(True) = 0 <=> True = {}
  BY <1>1, FS_EmptySet
<1>4. ASSUME True # {} PROVE Min(True) \in True
  <2>1. True \subseteq Nat
    BY FormulaType
  <2> HIDE DEF True
  <2> QED BY <1>4, <2>1, LeastNatural DEF Min
<1>5. \A i \in DOMAIN I[c] : Var(I[c][i]) \in Vars
  BY FormulaType, LiteralType
<1>6. Vars \subseteq Indices /\ NoVar \in Indices /\ NoVar \notin Vars
  BY DEF Vars, Indices, NoVar, NumVarAssumption
<1>7. NumTrueLit(I, val, c) = Cardinality(True)
  BY DEF NumTrueLit
<1>8. CASE True = {}
  BY <1>1, <1>2, <1>3, <1>6, <1>7, <1>8
<1>9. CASE True # {}
  <2>1. Min(True) \in DOMAIN I[c] /\ IsLitTrue(val, I[c][Min(True)])
    BY <1>4, <1>9
  <2>2. FirstTrueVar(I, val, c) = Var(I[c][Min(True)])
    BY <1>2, <1>9
  <2>3. Cardinality(True) # 0
    BY <1>3, <1>9
  <2> QED BY <1>1, <1>5, <1>6, <1>7, <2>1, <2>2, <2>3
<1> QED BY <1>8, <1>9

-----------------------------------------------------------------------------
(* The counts of a state, clause by clause: X are the clauses whose one    *)
(* true literal is about to be lost as well, and is nobody's.              *)

Credit(s, q, X, c, u) == IF s.numTrue[c] = 1 /\ s.crit[c] = u /\ c \notin X THEN q[c] ELSE 0
Demand(I, s, q, c, u) == IF s.numTrue[c] > 0 THEN 0 ELSE q[c] * VarTimes(I, c, u)

BreakOf(I, s, q, X, u) == Total([c \in DOMAIN I |-> Credit(s, q, X, c, u)])
MakeOf(I, s, q, u)     == Total([c \in DOMAIN I |-> Demand(I, s, q, c, u)])

Units(I) == [c \in DOMAIN I |-> Unit]

ListOK(I, s) ==
    /\ \A c \in DOMAIN I : s.numTrue[c] >= 0
    /\ Represents(s.falses, {c \in DOMAIN I : s.numTrue[c] = 0})

MakeOK(I, s) ==
    /\ \A u \in Vars : /\ s.make[u] = MakeOf(I, s, Units(I), u)
                       /\ s.makeW[u] = MakeOf(I, s, s.weight, u)
    /\ VarsKept(s)

(* Where a clause may hold a variable twice, a variable loses more than it *)
(* was credited with.                                                      *)
BreakOK(I, s, X) ==
    \A u \in Vars :
       /\ s.break[u] <= BreakOf(I, s, Units(I), X, u)
       /\ s.breakW[u] <= BreakOf(I, s, s.weight, X, u)
       /\ Simple(I) => /\ s.break[u] = BreakOf(I, s, Units(I), X, u)
                       /\ s.breakW[u] = BreakOf(I, s, s.weight, X, u)

WeightOK(I, s) == ~KeepsCrit => \A c \in DOMAIN I : s.weight[c] = 0

Consistent(I, s, X) ==
    ListOK(I, s) /\ MakeOK(I, s) /\ BreakOK(I, s, X) /\ WeightOK(I, s)

(* Only what is noted of clause c changes. *)
OnlyAt(I, s, t, c) ==
    /\ t.weight = s.weight
    /\ \A e \in DOMAIN I : e # c => t.numTrue[e] = s.numTrue[e] /\ t.crit[e] = s.crit[e]

SameBut(I, X, Y, c) == \A e \in DOMAIN I : e # c => (e \in X <=> e \in Y)

(* The counts of variables follow what is noted of clause c. *)
BreakMove(I, s, t, c, X, Y) ==
    \A u \in Vars :
       /\ t.break[u] <= s.break[u] + Credit(t, Units(I), Y, c, u)
                                   - Credit(s, Units(I), X, c, u)
       /\ t.breakW[u] <= s.breakW[u] + Credit(t, s.weight, Y, c, u)
                                     - Credit(s, s.weight, X, c, u)
       /\ Simple(I) =>
             /\ t.break[u] = s.break[u] + Credit(t, Units(I), Y, c, u)
                                        - Credit(s, Units(I), X, c, u)
             /\ t.breakW[u] = s.breakW[u] + Credit(t, s.weight, Y, c, u)
                                          - Credit(s, s.weight, X, c, u)

MakeMove(I, s, t, c) ==
    \A u \in Vars :
       /\ t.make[u] = s.make[u] + Demand(I, t, Units(I), c, u)
                                - Demand(I, s, Units(I), c, u)
       /\ t.makeW[u] = s.makeW[u] + Demand(I, t, s.weight, c, u)
                                  - Demand(I, s, s.weight, c, u)

(* What a clause adds to the counts of a variable is an integer. *)
LEMMA SumTypes ==
    ASSUME NEW I \in Formulas, NEW s \in States(I), NEW q \in [DOMAIN I -> Int], NEW X, NEW u
    PROVE  /\ \A c \in DOMAIN I : /\ Credit(s, q, X, c, u) \in Int
                                   /\ Demand(I, s, q, c, u) \in Int
           /\ BreakOf(I, s, q, X, u) \in Int
           /\ MakeOf(I, s, q, u) \in Int
<1>1. ASSUME NEW c \in DOMAIN I
      PROVE  Credit(s, q, X, c, u) \in Int /\ Demand(I, s, q, c, u) \in Int
  <2>1. VarTimes(I, c, u) \in Nat
    BY TimesType
  <2>2. q[c] * VarTimes(I, c, u) \in Int
    BY <2>1
  <2> QED BY <2>2 DEF Credit, Demand
<1>2. IsFiniteSet(DOMAIN I)
  BY FormulaType
<1>3. /\ [c \in DOMAIN I |-> Credit(s, q, X, c, u)] \in [DOMAIN I -> Int]
      /\ [c \in DOMAIN I |-> Demand(I, s, q, c, u)] \in [DOMAIN I -> Int]
  BY <1>1
<1> QED BY <1>1, <1>2, <1>3, TotalType DEF BreakOf, MakeOf

(* Where one clause changes, a break count changes by that clause. *)
LEMMA BreakMoves ==
    ASSUME NEW I \in Formulas, NEW s \in States(I), NEW t \in States(I), NEW c \in DOMAIN I,
           NEW q \in [DOMAIN I -> Int], OnlyAt(I, s, t, c), NEW X, NEW Y, NEW u,
           SameBut(I, X, Y, c)
    PROVE  BreakOf(I, t, q, Y, u)
              = BreakOf(I, s, q, X, u) + Credit(t, q, Y, c, u) - Credit(s, q, X, c, u)
<1> DEFINE f == [e \in DOMAIN I |-> Credit(s, q, X, e, u)]
           g == [e \in DOMAIN I |-> Credit(t, q, Y, e, u)]
<1>1. f \in [DOMAIN I -> Int] /\ g \in [DOMAIN I -> Int]
  BY SumTypes
<1>2. \A e \in DOMAIN I : e # c => g[e] = f[e]
  BY DEF Credit, OnlyAt, SameBut
<1>3. f[c] = Credit(s, q, X, c, u) /\ g[c] = Credit(t, q, Y, c, u)
  OBVIOUS
<1>4. BreakOf(I, s, q, X, u) = Total(f) /\ BreakOf(I, t, q, Y, u) = Total(g)
  BY DEF BreakOf
<1>5. IsFiniteSet(DOMAIN I)
  BY FormulaType
<1> HIDE DEF f, g
<1>6. Total(g) = Total(f) + g[c] - f[c]
  BY <1>1, <1>2, <1>5, TotalPoint
<1> QED BY <1>3, <1>4, <1>6

(* And so does a make count. *)
LEMMA MakeMoves ==
    ASSUME NEW I \in Formulas, NEW s \in States(I), NEW t \in States(I), NEW c \in DOMAIN I,
           NEW q \in [DOMAIN I -> Int], OnlyAt(I, s, t, c), NEW u
    PROVE  MakeOf(I, t, q, u)
              = MakeOf(I, s, q, u) + Demand(I, t, q, c, u) - Demand(I, s, q, c, u)
<1> DEFINE f == [e \in DOMAIN I |-> Demand(I, s, q, e, u)]
           g == [e \in DOMAIN I |-> Demand(I, t, q, e, u)]
<1>1. f \in [DOMAIN I -> Int] /\ g \in [DOMAIN I -> Int]
  BY SumTypes
<1>2. \A e \in DOMAIN I : e # c => g[e] = f[e]
  BY DEF Demand, OnlyAt
<1>3. f[c] = Demand(I, s, q, c, u) /\ g[c] = Demand(I, t, q, c, u)
  OBVIOUS
<1>4. MakeOf(I, s, q, u) = Total(f) /\ MakeOf(I, t, q, u) = Total(g)
  BY DEF MakeOf
<1>5. IsFiniteSet(DOMAIN I)
  BY FormulaType
<1> HIDE DEF f, g
<1>6. Total(g) = Total(f) + g[c] - f[c]
  BY <1>1, <1>2, <1>5, TotalPoint
<1> QED BY <1>3, <1>4, <1>6

(* A make count is at least what each of the false clauses adds to it. *)
LEMMA MakeAtLeast ==
    ASSUME NEW I \in Formulas, NEW s \in States(I), NEW c \in DOMAIN I,
           NEW q \in [DOMAIN I -> Nat], NEW u
    PROVE  MakeOf(I, s, q, u) >= Demand(I, s, q, c, u) /\ Demand(I, s, q, c, u) >= 0
<1> DEFINE f == [e \in DOMAIN I |-> Demand(I, s, q, e, u)]
           g == [e \in DOMAIN I |-> IF e = c THEN f[e] ELSE 0]
           z == [e \in DOMAIN I |-> 0]
<1>1. ASSUME NEW e \in DOMAIN I PROVE f[e] \in Int /\ f[e] >= 0
  <2>1. VarTimes(I, e, u) \in Nat
    BY TimesType
  <2>2. q[e] * VarTimes(I, e, u) \in Nat
    BY <2>1
  <2> QED BY <2>2 DEF Demand
<1>2. f \in [DOMAIN I -> Int] /\ g \in [DOMAIN I -> Int] /\ z \in [DOMAIN I -> Int]
  BY <1>1
<1>3. IsFiniteSet(DOMAIN I)
  BY FormulaType
<1>4. /\ \A e \in DOMAIN I : g[e] <= f[e]
      /\ \A e \in DOMAIN I : e # c => g[e] = z[e]
      /\ \A e \in DOMAIN I : z[e] = 0
      /\ g[c] = f[c]
  BY <1>1
<1>5. f[c] = Demand(I, s, q, c, u) /\ MakeOf(I, s, q, u) = Total(f)
  BY DEF MakeOf
<1>6. f[c] >= 0 /\ f[c] \in Int
  BY <1>1
<1> HIDE DEF f, g, z
<1>7. Total(z) = 0
  BY <1>2, <1>3, <1>4, TotalZero
<1>8. Total(g) = Total(z) + g[c] - z[c]
  BY <1>2, <1>3, <1>4, TotalPoint
<1>9. Total(g) <= Total(f) /\ Total(f) \in Int
  BY <1>2, <1>3, <1>4, TotalOrder, TotalType
<1>10. z[c] = 0
  BY <1>4
<1>11. Total(g) = f[c]
  BY <1>4, <1>6, <1>7, <1>8, <1>10
<1> QED BY <1>5, <1>6, <1>9, <1>11

(* A clause counts one unit, and its weight. *)
LEMMA UnitsType ==
    ASSUME NEW I, NEW s \in States(I)
    PROVE  Units(I) \in [DOMAIN I -> Nat] /\ s.weight \in [DOMAIN I -> Nat]
           /\ Units(I) \in [DOMAIN I -> Int] /\ s.weight \in [DOMAIN I -> Int]
           /\ \A c \in DOMAIN I : Units(I)[c] = Unit
BY UnitType DEF Units, States

(* No make count is negative, nor less than what one clause adds to it. *)
LEMMA MakeNatural ==
    ASSUME NEW I \in Formulas, NEW s \in States(I), MakeOK(I, s), NEW c \in DOMAIN I
    PROVE  \A u \in Vars : /\ s.make[u] >= 0
                           /\ s.make[u] >= Demand(I, s, Units(I), c, u)
<1> TAKE u \in Vars
<1>1. s.make[u] = MakeOf(I, s, Units(I), u)
  BY DEF MakeOK
<1>2. MakeOf(I, s, Units(I), u) >= Demand(I, s, Units(I), c, u)
      /\ Demand(I, s, Units(I), c, u) >= 0
  BY UnitsType, MakeAtLeast
<1>3. Demand(I, s, Units(I), c, u) \in Int /\ MakeOf(I, s, Units(I), u) \in Int
  BY UnitsType, SumTypes
<1> QED BY <1>1, <1>2, <1>3

(* Break counts that change with their clause remain sums. *)
LEMMA BreakStep ==
    ASSUME NEW I \in Formulas, NEW s \in States(I), NEW t \in States(I), NEW c \in DOMAIN I,
           OnlyAt(I, s, t, c), NEW X, NEW Y, BreakOK(I, s, X),
           SameBut(I, X, Y, c), BreakMove(I, s, t, c, X, Y)
    PROVE  BreakOK(I, t, Y)
<1> SUFFICES ASSUME NEW u \in Vars
             PROVE  /\ t.break[u] <= BreakOf(I, t, Units(I), Y, u)
                    /\ t.breakW[u] <= BreakOf(I, t, t.weight, Y, u)
                    /\ Simple(I) => /\ t.break[u] = BreakOf(I, t, Units(I), Y, u)
                                    /\ t.breakW[u] = BreakOf(I, t, t.weight, Y, u)
  BY DEF BreakOK
<1>1. Units(I) \in [DOMAIN I -> Int] /\ s.weight \in [DOMAIN I -> Int] /\ t.weight = s.weight
  BY UnitsType DEF OnlyAt
<1>2. /\ BreakOf(I, t, Units(I), Y, u)
            = BreakOf(I, s, Units(I), X, u) + Credit(t, Units(I), Y, c, u)
                                            - Credit(s, Units(I), X, c, u)
      /\ BreakOf(I, t, s.weight, Y, u)
            = BreakOf(I, s, s.weight, X, u) + Credit(t, s.weight, Y, c, u)
                                            - Credit(s, s.weight, X, c, u)
  BY <1>1, BreakMoves
<1>3. /\ BreakOf(I, s, Units(I), X, u) \in Int /\ BreakOf(I, s, s.weight, X, u) \in Int
      /\ s.break[u] \in Int /\ t.break[u] \in Int /\ s.breakW[u] \in Int /\ t.breakW[u] \in Int
      /\ Credit(t, Units(I), Y, c, u) \in Int /\ Credit(s, Units(I), X, c, u) \in Int
      /\ Credit(t, s.weight, Y, c, u) \in Int /\ Credit(s, s.weight, X, c, u) \in Int
  <2>1. u \in Indices
    BY DEF Vars, Indices
  <2>2. s.break[u] \in Int /\ t.break[u] \in Int /\ s.breakW[u] \in Int /\ t.breakW[u] \in Int
    BY <2>1 DEF States
  <2> QED BY <1>1, <2>2, SumTypes DEF Credit
<1> QED BY <1>1, <1>2, <1>3 DEF BreakOK, BreakMove

(* So do make counts, and the list of variables with them. *)
LEMMA MakeStep ==
    ASSUME NEW I \in Formulas, NEW s \in States(I), NEW t \in States(I), NEW c \in DOMAIN I,
           OnlyAt(I, s, t, c), MakeOK(I, s), VarsKept(t),
           MakeMove(I, s, t, c)
    PROVE  MakeOK(I, t)
<1> SUFFICES ASSUME NEW u \in Vars
             PROVE  /\ t.make[u] = MakeOf(I, t, Units(I), u)
                    /\ t.makeW[u] = MakeOf(I, t, t.weight, u)
  BY DEF MakeOK
<1>1. Units(I) \in [DOMAIN I -> Int] /\ s.weight \in [DOMAIN I -> Int] /\ t.weight = s.weight
  BY UnitsType DEF OnlyAt
<1>2. /\ MakeOf(I, t, Units(I), u)
            = MakeOf(I, s, Units(I), u) + Demand(I, t, Units(I), c, u)
                                        - Demand(I, s, Units(I), c, u)
      /\ MakeOf(I, t, s.weight, u)
            = MakeOf(I, s, s.weight, u) + Demand(I, t, s.weight, c, u)
                                        - Demand(I, s, s.weight, c, u)
  BY <1>1, MakeMoves
<1> QED BY <1>1, <1>2 DEF MakeOK, MakeMove

-----------------------------------------------------------------------------
(* One clause of the occurrence lists. *)

(* The counts of a clause remain counts. *)
LEMMA MakeAllType ==
    ASSUME NumVarAssumption, NEW I \in Formulas, NEW s \in States(I), NEW c \in DOMAIN I,
           NEW d \in {1, -1}
    PROVE  MakeAll(I, s, c, d) \in States(I)
<1>0. PICK G : MakeTurns(I, s, c, d, G)
  BY MakeAllLoop
<1>1. G \in [0..Len(I[c]) -> States(I)] /\ MakeAll(I, s, c, d) = G[Len(I[c])]
  BY <1>0 DEF MakeTurns
<1>2. Len(I[c]) \in 0..Len(I[c])
  BY FormulaType
<1> QED BY <1>1, <1>2

(* The number of true literals of c becomes n, the list of false clauses   *)
(* fs.                                                                     *)
Numbered(s, b, c, n, fs) ==
    /\ SameRest(s, b) /\ SameBreak(s, b) /\ SameMake(s, b) /\ b.crit = s.crit
    /\ b.numTrue = [s.numTrue EXCEPT ![c] = n]
    /\ b.falses = fs

(* A new number of true literals, and the list that goes with it. *)
LEMMA NumberedIs ==
    ASSUME NEW I, NEW s \in States(I), NEW c \in DOMAIN I, NEW n \in Int
    PROVE  LET t == [s EXCEPT !.numTrue[c] = n] IN
           /\ t \in States(I) /\ Numbered(s, t, c, n, s.falses)
           /\ [t EXCEPT !.falses = AddTo(@, c)] \in States(I)
           /\ Numbered(s, [t EXCEPT !.falses = AddTo(@, c)], c, n, AddTo(s.falses, c))
           /\ [t EXCEPT !.falses = DropFrom(@, c)] \in States(I)
           /\ Numbered(s, [t EXCEPT !.falses = DropFrom(@, c)], c, n, DropFrom(s.falses, c))
<1> DEFINE t == [s EXCEPT !.numTrue[c] = n]
           x == [s.numTrue EXCEPT ![c] = n]
<1>1. s.falses \in Lists(DOMAIN I) /\ s.numTrue \in [DOMAIN I -> Int]
  BY DEF States
<1>2. AddTo(s.falses, c) \in Lists(DOMAIN I) /\ DropFrom(s.falses, c) \in Lists(DOMAIN I)
  BY <1>1, ListTypes
<1>3. x \in [DOMAIN I -> Int]
  BY <1>1
<1>4. t = [s EXCEPT !.numTrue = x]
  BY DEF States
<1> HIDE DEF x
<1>5. t \in States(I) /\ Numbered(s, t, c, n, s.falses)
  BY <1>3, <1>4 DEF States, Numbered, SameRest, SameBreak, SameMake, x
<1>6. t.falses = s.falses
  BY DEF States
<1>7. ASSUME NEW fs \in Lists(DOMAIN I)
      PROVE  [t EXCEPT !.falses = fs] \in States(I) /\ Numbered(s, [t EXCEPT !.falses = fs], c, n, fs)
  BY <1>3, <1>4 DEF States, Numbered, SameRest, SameBreak, SameMake, x
<1> QED BY <1>2, <1>5, <1>6, <1>7

(* What NewCritical leaves, t, of s, if u is the variable found. *)
CriticalAt(s, t, c, u) ==
    /\ ~(KeepsCrit /\ u # NoVar) => t = s
    /\ KeepsCrit /\ u # NoVar =>
          /\ SameRest(s, t) /\ SameMake(s, t)
          /\ t.numTrue = s.numTrue /\ t.falses = s.falses
          /\ t.crit = [s.crit EXCEPT ![c] = u]
          /\ t.break = [s.break EXCEPT ![u] = @ + 1 * Unit]
          /\ t.breakW = [s.breakW EXCEPT ![u] = @ + 1 * s.weight[c]]

(* The search for the critical variable of a clause. *)
LEMMA NewCriticalIs ==
    ASSUME NumVarAssumption, NEW I \in Formulas, NEW s \in States(I), NEW c \in DOMAIN I,
           NEW t, t = NewCritical(I, s, c)
    PROVE  t \in States(I) /\ CriticalAt(s, t, c, FirstTrueVar(I, s.val, c))
<1> DEFINE u == FirstTrueVar(I, s.val, c)
<1>1. CASE ~(KeepsCrit /\ u # NoVar)
  BY <1>1 DEF NewCritical, CriticalAt
<1>2. CASE KeepsCrit /\ u # NoVar
  <2> DEFINE b == AddBreak(s, u, c, 1)
             x == [s.crit EXCEPT ![c] = u]
  <2>1. u \in Indices
    BY FirstTrue DEF States
  <2>2. b \in States(I) /\ BrokenOne(s, b, u, c, 1)
    BY <2>1, AddBreakIs
  <2>3. t = [b EXCEPT !.crit[c] = u]
    BY <1>2 DEF NewCritical
  <2> HIDE DEF b
  <2>4. x \in [DOMAIN I -> Indices]
    BY <2>1 DEF States
  <2>5. t = [b EXCEPT !.crit = x]
    BY <2>2, <2>3 DEF BrokenOne
  <2> HIDE DEF x
  <2>6. t \in States(I) /\ SameRest(b, t) /\ SameMake(b, t) /\ SameBreak(b, t)
        /\ t.numTrue = b.numTrue /\ t.falses = b.falses /\ t.crit = x
    BY <2>2, <2>4, <2>5 DEF States, SameRest, SameMake, SameBreak
  <2> QED BY <1>2, <2>2, <2>6 DEF SameRest, SameMake, SameBreak, BrokenOne, CriticalAt, x
<1> QED BY <1>1, <1>2

(* A clause that loses a true literal leaves a state. *)
LEMMA LoseType ==
    ASSUME NumVarAssumption, NEW I \in Formulas, NEW s \in States(I), NEW c \in DOMAIN I,
           NEW v \in Vars
    PROVE  LoseTrueLit(I, s, v, c) \in States(I)
<1> DEFINE n == s.numTrue[c] - 1
           t == [s EXCEPT !.numTrue[c] = n]
           b == [t EXCEPT !.falses = AddTo(@, c)]
           g == AddBreak(b, v, c, -1)
<1>1. n \in Int /\ v \in Indices
  <2>1. s.numTrue[c] \in Int
    BY DEF States
  <2> QED BY <2>1 DEF Vars, Indices
<1>2. t \in States(I) /\ b \in States(I)
  BY <1>1, NumberedIs
<1>3. LoseTrueLit(I, s, v, c) = CASE n = 0 -> MakeAll(I, g, c, 1)
                                  [] n = 1 -> NewCritical(I, t, c)
                                  [] OTHER -> t
  BY DEF LoseTrueLit
<1> HIDE DEF n, t, b
<1>4. g \in States(I)
  BY <1>1, <1>2, AddBreakIs
<1> HIDE DEF g
<1>5. MakeAll(I, g, c, 1) \in States(I)
  BY <1>4, MakeAllType
<1>6. NewCritical(I, t, c) \in States(I)
  BY <1>2, NewCriticalIs
<1> QED BY <1>2, <1>3, <1>5, <1>6

(* So does one that gains one. *)
LEMMA GainType ==
    ASSUME NumVarAssumption, NEW I \in Formulas, NEW s \in States(I), NEW c \in DOMAIN I,
           NEW v \in Vars
    PROVE  GainTrueLit(I, s, v, c) \in States(I)
<1> DEFINE n == s.numTrue[c] + 1
           t == [s EXCEPT !.numTrue[c] = n]
           b == [t EXCEPT !.falses = DropFrom(@, c)]
           m == MakeAll(I, b, c, -1)
           u == AddBreak(m, v, c, 1)
<1>1. n \in Int /\ v \in Indices
  <2>1. s.numTrue[c] \in Int
    BY DEF States
  <2> QED BY <2>1 DEF Vars, Indices
<1>2. t \in States(I) /\ b \in States(I)
  BY <1>1, NumberedIs
<1>3. GainTrueLit(I, s, v, c) =
        CASE n = 1 -> IF KeepsCrit THEN [u EXCEPT !.crit[c] = v] ELSE u
          [] n = 2 /\ KeepsCrit -> AddBreak(t, t.crit[c], c, -1)
          [] OTHER -> t
  BY DEF GainTrueLit
<1> HIDE DEF n, t, b
<1>4. m \in States(I)
  BY <1>2, MakeAllType
<1> HIDE DEF m
<1>5. u \in States(I)
  BY <1>1, <1>4, AddBreakIs
<1> HIDE DEF u
<1>6. [u EXCEPT !.crit[c] = v] \in States(I)
  <2> DEFINE x == [u.crit EXCEPT ![c] = v]
  <2>1. x \in [DOMAIN I -> Indices]
    BY <1>1, <1>5 DEF States
  <2>2. [u EXCEPT !.crit[c] = v] = [u EXCEPT !.crit = x]
    OBVIOUS
  <2> HIDE DEF x
  <2> QED BY <1>5, <2>1, <2>2 DEF States
<1>7. AddBreak(t, t.crit[c], c, -1) \in States(I)
  <2>1. t.crit[c] \in Indices
    BY <1>2 DEF States
  <2> QED BY <1>2, <2>1, AddBreakIs
<1> QED BY <1>2, <1>3, <1>5, <1>6, <1>7

(* What LoseTrueLit does to the numbers and critical variables. *)
Lost(I, s, t, c) ==
    /\ SameRest(s, t)
    /\ t.numTrue = [s.numTrue EXCEPT ![c] = @ - 1]
    /\ t.crit = IF s.numTrue[c] = 2 /\ KeepsCrit /\ FirstTrueVar(I, s.val, c) # NoVar
                THEN [s.crit EXCEPT ![c] = FirstTrueVar(I, s.val, c)] ELSE s.crit

(* Nothing that the counts depend on has changed but at c. *)
LEMMA OnlyAtIs ==
    ASSUME NEW I, NEW s \in States(I), NEW t \in States(I), NEW c \in DOMAIN I, NEW n,
           SameRest(s, t), t.numTrue = [s.numTrue EXCEPT ![c] = n],
           \A e \in DOMAIN I : e # c => t.crit[e] = s.crit[e]
    PROVE  OnlyAt(I, s, t, c) /\ t.numTrue[c] = n
BY DEF OnlyAt, SameRest, States

(* The counts of a variable are integers. *)
LEMMA CountTypes ==
    ASSUME NEW I, NEW s \in States(I), NEW u \in Vars
    PROVE  /\ s.break[u] \in Int /\ s.breakW[u] \in Int /\ s.make[u] \in Int
           /\ s.makeW[u] \in Int /\ u \in Indices
           /\ s.break \in [Indices -> Int] /\ s.breakW \in [Indices -> Int]
<1>1. u \in Indices
  BY DEF Vars, Indices
<1>2. /\ s.break \in [Indices -> Int] /\ s.breakW \in [Indices -> Int]
      /\ s.make \in [Indices -> Int] /\ s.makeW \in [Indices -> Int]
  BY DEF States
<1> QED BY <1>1, <1>2

(* The list of false clauses follows the clause that changes. *)
LEMMA ListStep ==
    ASSUME NEW I \in Formulas, NEW s \in States(I), NEW t \in States(I), NEW c \in DOMAIN I,
           ListOK(I, s), OnlyAt(I, s, t, c), t.numTrue[c] >= 0,
           \/ s.numTrue[c] # 0 /\ t.numTrue[c] = 0 /\ t.falses = AddTo(s.falses, c)
           \/ s.numTrue[c] = 0 /\ t.numTrue[c] # 0 /\ t.falses = DropFrom(s.falses, c)
           \/ s.numTrue[c] # 0 /\ t.numTrue[c] # 0 /\ t.falses = s.falses
    PROVE  ListOK(I, t)
<1> DEFINE Old == {e \in DOMAIN I : s.numTrue[e] = 0}
           New == {e \in DOMAIN I : t.numTrue[e] = 0}
<1>1. Represents(s.falses, Old) /\ s.falses \in Lists(DOMAIN I) /\ Old \in SUBSET DOMAIN I
  BY DEF ListOK, States
<1>2. \A e \in DOMAIN I : t.numTrue[e] >= 0
  BY DEF ListOK, OnlyAt
<1>3. CASE s.numTrue[c] # 0 /\ t.numTrue[c] = 0 /\ t.falses = AddTo(s.falses, c)
  <2>1. New = Old \cup {c} /\ c \in DOMAIN I \ Old
    BY <1>3 DEF OnlyAt
  <2> HIDE DEF Old, New
  <2>2. Represents(t.falses, New)
    BY <1>1, <1>3, <2>1, Added
  <2> QED BY <1>2, <2>2 DEF ListOK, New
<1>4. CASE s.numTrue[c] = 0 /\ t.numTrue[c] # 0 /\ t.falses = DropFrom(s.falses, c)
  <2>1. New = Old \ {c} /\ c \in Old
    BY <1>4 DEF OnlyAt
  <2> HIDE DEF Old, New
  <2>2. Represents(t.falses, New)
    BY <1>1, <1>4, <2>1, Dropped
  <2> QED BY <1>2, <2>2 DEF ListOK, New
<1>5. CASE s.numTrue[c] # 0 /\ t.numTrue[c] # 0 /\ t.falses = s.falses
  <2>1. New = Old
    BY <1>5 DEF OnlyAt
  <2> HIDE DEF Old, New
  <2>2. Represents(t.falses, New)
    BY <1>1, <1>5, <2>1
  <2> QED BY <1>2, <2>2 DEF ListOK, New
<1> QED BY <1>3, <1>4, <1>5

(* The last true literal of a clause is lost. *)
LEMMA LoseLast ==
    ASSUME NumVarAssumption, NEW I \in Formulas, NEW s \in States(I), NEW c \in DOMAIN I,
           NEW v \in Vars, NEW X, NEW Y, Consistent(I, s, X), s.numTrue[c] = 1,
           KeepsCrit => c \in X \/ s.crit[c] = v,
           Simple(I) => c \notin X,
           SameBut(I, X, Y, c),
           NEW t, t = LoseTrueLit(I, s, v, c)
    PROVE  Consistent(I, t, Y) /\ Lost(I, s, t, c)
<1> DEFINE n == s.numTrue[c] - 1
           o == [s EXCEPT !.numTrue[c] = n]
           b == [o EXCEPT !.falses = AddTo(@, c)]
           g == AddBreak(b, v, c, -1)
           w == s.weight[c]
<1>1. n = 0 /\ n \in Int /\ v \in Indices
  BY DEF Vars, Indices
<1>2. t = MakeAll(I, g, c, 1)
  BY <1>1 DEF LoseTrueLit
<1> HIDE DEF n
<1>3. b \in States(I) /\ Numbered(s, b, c, n, AddTo(s.falses, c))
  BY <1>1, NumberedIs
<1> HIDE DEF o, b
<1>4. g \in States(I) /\ BrokenOne(b, g, v, c, -1)
  BY <1>1, <1>3, AddBreakIs
<1> HIDE DEF g
<1>5. SameMake(s, g) /\ VarsKept(s) /\ (\A u \in Vars : s.make[u] >= 0) /\ MakeOK(I, s)
  BY <1>3, <1>4, MakeNatural DEF Consistent, MakeOK, Numbered, BrokenOne, SameMake
<1>6. VarsKept(g) /\ \A u \in Vars : g.make[u] >= 0
  BY <1>5 DEF SameMake, VarsKept
<1>7. t \in States(I) /\ MadeAll(I, g, t, c, 1) /\ VarsKept(t)
  BY <1>2, <1>4, <1>6, MakeAllIs
<1>8. /\ SameRest(s, t) /\ t.numTrue = [s.numTrue EXCEPT ![c] = 0]
      /\ t.falses = AddTo(s.falses, c) /\ t.crit = s.crit
      /\ t.break = [s.break EXCEPT ![v] = @ + (-1) * Unit]
      /\ t.breakW = [s.breakW EXCEPT ![v] = @ + (-1) * w]
      /\ \A u \in Vars : /\ t.make[u] = s.make[u] + 1 * (Unit * VarTimes(I, c, u))
                         /\ t.makeW[u] = s.makeW[u] + 1 * (w * VarTimes(I, c, u))
  <2>1. /\ SameRest(s, g) /\ g.numTrue = [s.numTrue EXCEPT ![c] = 0]
        /\ g.falses = AddTo(s.falses, c) /\ g.crit = s.crit
        /\ g.break = [s.break EXCEPT ![v] = @ + (-1) * Unit]
        /\ g.breakW = [s.breakW EXCEPT ![v] = @ + (-1) * w]
    <3>1. /\ SameRest(s, b) /\ b.numTrue = [s.numTrue EXCEPT ![c] = 0]
          /\ b.falses = AddTo(s.falses, c) /\ b.crit = s.crit
          /\ b.break = s.break /\ b.breakW = s.breakW /\ b.weight[c] = w
      BY <1>1, <1>3 DEF Numbered, SameRest, SameBreak
    <3>2. SameRest(s, g)
      BY <1>4, <3>1 DEF BrokenOne, SameRest
    <3>3. /\ g.numTrue = b.numTrue /\ g.falses = b.falses /\ g.crit = b.crit
          /\ g.break = [b.break EXCEPT ![v] = @ + (-1) * Unit]
          /\ g.breakW = [b.breakW EXCEPT ![v] = @ + (-1) * b.weight[c]]
      BY <1>4 DEF BrokenOne
    <3> QED BY <3>1, <3>2, <3>3
  <2>2. g.make = s.make /\ g.makeW = s.makeW /\ g.weight[c] = w
    BY <1>5, <2>1 DEF SameMake, SameRest
  <2>3. SameRest(g, t) /\ SameBreak(g, t)
        /\ t.numTrue = g.numTrue /\ t.falses = g.falses /\ t.crit = g.crit
    BY <1>7 DEF MadeAll
  <2>4. SameRest(s, t) /\ t.break = g.break /\ t.breakW = g.breakW
    BY <2>1, <2>3 DEF SameRest, SameBreak
  <2>5. \A u \in Vars : /\ t.make[u] = s.make[u] + 1 * (Unit * VarTimes(I, c, u))
                        /\ t.makeW[u] = s.makeW[u] + 1 * (w * VarTimes(I, c, u))
    BY <1>7, <2>2 DEF MadeAll
  <2> QED BY <2>1, <2>3, <2>4, <2>5
<1>9. OnlyAt(I, s, t, c) /\ t.numTrue[c] = 0
  BY <1>7, <1>8, OnlyAtIs, SMTT(30)
<1>10. ListOK(I, t)
  BY <1>7, <1>8, <1>9, ListStep DEF Consistent
<1>11. /\ Units(I)[c] = Unit /\ Unit \in {0, 1} /\ w \in Nat
       /\ ~KeepsCrit => Unit = 0 /\ w = 0
  BY UnitsType, UnitType DEF Consistent, WeightOK
<1>12. MakeOK(I, t)
  <2>1. ASSUME NEW u \in Vars
        PROVE  /\ t.make[u] = s.make[u] + Demand(I, t, Units(I), c, u)
                                        - Demand(I, s, Units(I), c, u)
               /\ t.makeW[u] = s.makeW[u] + Demand(I, t, s.weight, c, u)
                                          - Demand(I, s, s.weight, c, u)
    <3>1. /\ Demand(I, t, Units(I), c, u) = Unit * VarTimes(I, c, u)
          /\ Demand(I, s, Units(I), c, u) = 0
          /\ Demand(I, t, s.weight, c, u) = w * VarTimes(I, c, u)
          /\ Demand(I, s, s.weight, c, u) = 0
      BY <1>9, <1>11 DEF Demand
    <3>2. VarTimes(I, c, u) \in Nat
      BY TimesType
    <3>3. Unit * VarTimes(I, c, u) \in Int /\ w * VarTimes(I, c, u) \in Int
      BY <1>11, <3>2
    <3>4. s.make[u] \in Int /\ s.makeW[u] \in Int
      BY CountTypes
    <3> QED BY <1>8, <3>1, <3>3, <3>4
  <2>2. MakeMove(I, s, t, c)
    BY <2>1 DEF MakeMove
  <2> QED BY <1>5, <1>7, <1>9, <2>2, MakeStep
<1>13. BreakOK(I, t, Y)
  <2>1. ASSUME NEW u \in Vars
        PROVE  /\ t.break[u] <= s.break[u] + Credit(t, Units(I), Y, c, u)
                                           - Credit(s, Units(I), X, c, u)
               /\ t.breakW[u] <= s.breakW[u] + Credit(t, s.weight, Y, c, u)
                                             - Credit(s, s.weight, X, c, u)
               /\ Simple(I) =>
                     /\ t.break[u] = s.break[u] + Credit(t, Units(I), Y, c, u)
                                                - Credit(s, Units(I), X, c, u)
                     /\ t.breakW[u] = s.breakW[u] + Credit(t, s.weight, Y, c, u)
                                                  - Credit(s, s.weight, X, c, u)
    <3>1. /\ Credit(t, Units(I), Y, c, u) = 0
          /\ Credit(t, s.weight, Y, c, u) = 0
          /\ Credit(s, Units(I), X, c, u) = IF s.crit[c] = u /\ c \notin X THEN Unit ELSE 0
          /\ Credit(s, s.weight, X, c, u) = IF s.crit[c] = u /\ c \notin X THEN w ELSE 0
      BY <1>9, <1>11 DEF Credit
    <3>2. s.break[u] \in Int /\ s.breakW[u] \in Int
      BY CountTypes
    <3>3. /\ t.break[u] = s.break[u] - (IF u = v THEN Unit ELSE 0)
          /\ t.breakW[u] = s.breakW[u] - (IF u = v THEN w ELSE 0)
      <4>1. s.break \in [Indices -> Int] /\ s.breakW \in [Indices -> Int] /\ u \in Indices
        BY CountTypes
      <4>2. (-1) * Unit = -Unit /\ (-1) * w = -w /\ Unit \in Int /\ w \in Int
        BY <1>11
      <4> QED BY <1>8, <4>1, <4>2
    <3>4. CASE ~KeepsCrit
      BY <1>11, <3>1, <3>2, <3>3, <3>4
    <3>5. CASE KeepsCrit /\ c \notin X
      BY <1>11, <3>1, <3>2, <3>3, <3>5
    <3>6. CASE KeepsCrit /\ c \in X
      BY <1>11, <3>1, <3>2, <3>3, <3>6
    <3> QED BY <3>4, <3>5, <3>6
  <2>2. BreakOK(I, s, X)
    BY DEF Consistent
  <2>3. BreakMove(I, s, t, c, X, Y)
    BY <2>1 DEF BreakMove
  <2> QED BY <1>7, <1>9, <2>2, <2>3, BreakStep
<1>14. WeightOK(I, t)
  BY <1>8 DEF Consistent, WeightOK, SameRest
<1>15. Lost(I, s, t, c)
  BY <1>8 DEF Lost
<1> QED BY <1>10, <1>12, <1>13, <1>14, <1>15 DEF Consistent

(* The last but one is lost. *)
LEMMA LoseOfTwo ==
    ASSUME NumVarAssumption, NEW I \in Formulas, NEW s \in States(I), NEW c \in DOMAIN I,
           NEW v \in Vars, NEW X, NEW Y, Consistent(I, s, X), s.numTrue[c] = 2,
           SameBut(I, X, Y, c),
           c \in Y <=> FirstTrueVar(I, s.val, c) = NoVar,
           NEW t, t = LoseTrueLit(I, s, v, c)
    PROVE  Consistent(I, t, Y) /\ Lost(I, s, t, c)
<1> DEFINE n == s.numTrue[c] - 1
           o == [s EXCEPT !.numTrue[c] = n]
           w == s.weight[c]
           x == FirstTrueVar(I, s.val, c)
           new == KeepsCrit /\ x # NoVar
<1>1. n = 1 /\ n \in Int
  OBVIOUS
<1>2. t = NewCritical(I, o, c)
  BY <1>1 DEF LoseTrueLit
<1> HIDE DEF n
<1>3. o \in States(I) /\ Numbered(s, o, c, n, s.falses)
  BY <1>1, NumberedIs
<1> HIDE DEF o
<1>4. t \in States(I) /\ CriticalAt(o, t, c, FirstTrueVar(I, o.val, c))
  BY <1>2, <1>3, NewCriticalIs
<1>5. o.val = s.val
  BY <1>3 DEF Numbered, SameRest
<1>6. CriticalAt(o, t, c, x)
  BY <1>4, <1>5
<1> HIDE DEF x
<1>7. /\ SameRest(s, o) /\ o.numTrue = [s.numTrue EXCEPT ![c] = 1]
      /\ o.falses = s.falses /\ o.crit = s.crit /\ SameMake(s, o)
      /\ o.break = s.break /\ o.breakW = s.breakW /\ o.weight[c] = w
  BY <1>1, <1>3 DEF Numbered, SameRest, SameBreak
<1>8. /\ SameRest(s, t) /\ SameMake(s, t) /\ t.numTrue = [s.numTrue EXCEPT ![c] = 1]
      /\ t.falses = s.falses
      /\ t.crit = IF new THEN [s.crit EXCEPT ![c] = x] ELSE s.crit
  BY <1>6, <1>7 DEF CriticalAt, SameRest, SameMake
<1>9. /\ t.break = IF new THEN [s.break EXCEPT ![x] = @ + 1 * Unit] ELSE s.break
      /\ t.breakW = IF new THEN [s.breakW EXCEPT ![x] = @ + 1 * w] ELSE s.breakW
  BY <1>6, <1>7 DEF CriticalAt
<1>10. OnlyAt(I, s, t, c) /\ t.numTrue[c] = 1
  <2>1. \A e \in DOMAIN I : e # c => t.crit[e] = s.crit[e]
    BY <1>8 DEF States
  <2> QED BY <1>8, <2>1 DEF SameRest, OnlyAt, States
<1>11. ListOK(I, t)
  BY <1>4, <1>8, <1>10, ListStep DEF Consistent
<1>12. /\ Units(I)[c] = Unit /\ Unit \in {0, 1} /\ w \in Nat
       /\ ~KeepsCrit => Unit = 0 /\ w = 0
  BY UnitsType, UnitType DEF Consistent, WeightOK
<1>13. MakeOK(I, t)
  <2>1. ASSUME NEW u \in Vars
        PROVE  /\ t.make[u] = s.make[u] + Demand(I, t, Units(I), c, u)
                                        - Demand(I, s, Units(I), c, u)
               /\ t.makeW[u] = s.makeW[u] + Demand(I, t, s.weight, c, u)
                                          - Demand(I, s, s.weight, c, u)
    <3>1. /\ Demand(I, t, Units(I), c, u) = 0
          /\ Demand(I, s, Units(I), c, u) = 0
          /\ Demand(I, t, s.weight, c, u) = 0
          /\ Demand(I, s, s.weight, c, u) = 0
      BY <1>10 DEF Demand
    <3>2. s.make[u] \in Int /\ s.makeW[u] \in Int
      BY CountTypes
    <3> QED BY <1>8, <3>1, <3>2 DEF SameMake
  <2>2. MakeOK(I, s) /\ VarsKept(t)
    BY <1>8 DEF Consistent, MakeOK, SameMake, VarsKept
  <2>3. MakeMove(I, s, t, c)
    BY <2>1 DEF MakeMove
  <2> QED BY <1>4, <1>10, <2>2, <2>3, MakeStep
<1>14. BreakOK(I, t, Y)
  <2>1. ASSUME NEW u \in Vars
        PROVE  /\ t.break[u] <= s.break[u] + Credit(t, Units(I), Y, c, u)
                                           - Credit(s, Units(I), X, c, u)
               /\ t.breakW[u] <= s.breakW[u] + Credit(t, s.weight, Y, c, u)
                                             - Credit(s, s.weight, X, c, u)
               /\ Simple(I) =>
                     /\ t.break[u] = s.break[u] + Credit(t, Units(I), Y, c, u)
                                                - Credit(s, Units(I), X, c, u)
                     /\ t.breakW[u] = s.breakW[u] + Credit(t, s.weight, Y, c, u)
                                                  - Credit(s, s.weight, X, c, u)
    <3>1. /\ Credit(s, Units(I), X, c, u) = 0
          /\ Credit(s, s.weight, X, c, u) = 0
          /\ Credit(t, Units(I), Y, c, u) = IF t.crit[c] = u /\ c \notin Y THEN Unit ELSE 0
          /\ Credit(t, s.weight, Y, c, u) = IF t.crit[c] = u /\ c \notin Y THEN w ELSE 0
      BY <1>10, <1>12 DEF Credit
    <3>2. s.break[u] \in Int /\ s.breakW[u] \in Int /\ u \in Indices
          /\ s.break \in [Indices -> Int] /\ s.breakW \in [Indices -> Int]
      BY CountTypes
    <3>3. CASE ~KeepsCrit
      BY <1>9, <1>12, <3>1, <3>2, <3>3
    <3>4. CASE KeepsCrit /\ x = NoVar
      <4>1. c \in Y
        BY <3>4 DEF x
      <4> QED BY <1>9, <1>12, <3>1, <3>2, <3>4, <4>1
    <3>5. CASE new
      <4>1. c \notin Y
        BY <3>5 DEF x
      <4>2. t.crit[c] = x
        BY <1>8, <3>5 DEF States
      <4>3. 1 * Unit = Unit /\ 1 * w = w /\ Unit \in Int /\ w \in Int
        BY <1>12
      <4>4. /\ t.break[u] = s.break[u] + (IF u = x THEN Unit ELSE 0)
            /\ t.breakW[u] = s.breakW[u] + (IF u = x THEN w ELSE 0)
        BY <1>9, <3>2, <3>5, <4>3
      <4> QED BY <3>1, <3>2, <4>1, <4>2, <4>3, <4>4
    <3> QED BY <3>3, <3>4, <3>5
  <2>2. BreakOK(I, s, X)
    BY DEF Consistent
  <2>3. BreakMove(I, s, t, c, X, Y)
    BY <2>1 DEF BreakMove
  <2> QED BY <1>4, <1>10, <2>2, <2>3, BreakStep
<1>15. WeightOK(I, t)
  BY <1>8 DEF Consistent, WeightOK, SameRest
<1>16. Lost(I, s, t, c)
  BY <1>8 DEF Lost, x
<1> QED BY <1>11, <1>13, <1>14, <1>15, <1>16 DEF Consistent

(* A clause with more true literals, before and after: nothing follows. *)
LEMMA ManyTrue ==
    ASSUME NumVarAssumption, NEW I \in Formulas, NEW s \in States(I), NEW c \in DOMAIN I,
           NEW X, NEW Y, Consistent(I, s, X), NEW n \in Int,
           s.numTrue[c] > 0, n > 0,
           KeepsCrit => s.numTrue[c] > 1 /\ n > 1,
           SameBut(I, X, Y, c),
           NEW t \in States(I), Numbered(s, t, c, n, s.falses)
    PROVE  Consistent(I, t, Y)
<1>2. /\ SameRest(s, t) /\ t.numTrue = [s.numTrue EXCEPT ![c] = n] /\ t.falses = s.falses
      /\ t.crit = s.crit /\ SameMake(s, t) /\ SameBreak(s, t)
  BY DEF Numbered
<1>3. OnlyAt(I, s, t, c) /\ t.numTrue[c] = n
  BY <1>2 DEF SameRest, OnlyAt, States
<1>4. s.numTrue[c] \in Int /\ s.numTrue[c] # 0 /\ n # 0 /\ n >= 0
  BY DEF States
<1>5. ListOK(I, t)
  BY <1>2, <1>3, <1>4, ListStep DEF Consistent
<1>6. MakeOK(I, t)
  <2>1. ASSUME NEW u \in Vars
        PROVE  /\ t.make[u] = s.make[u] + Demand(I, t, Units(I), c, u)
                                        - Demand(I, s, Units(I), c, u)
               /\ t.makeW[u] = s.makeW[u] + Demand(I, t, s.weight, c, u)
                                          - Demand(I, s, s.weight, c, u)
    <3>1. /\ Demand(I, t, Units(I), c, u) = 0
          /\ Demand(I, s, Units(I), c, u) = 0
          /\ Demand(I, t, s.weight, c, u) = 0
          /\ Demand(I, s, s.weight, c, u) = 0
      BY <1>3 DEF Demand
    <3>2. s.make[u] \in Int /\ s.makeW[u] \in Int
      BY CountTypes
    <3> QED BY <1>2, <3>1, <3>2 DEF SameMake
  <2>2. MakeOK(I, s) /\ VarsKept(t)
    BY <1>2 DEF Consistent, MakeOK, SameMake, VarsKept
  <2>3. MakeMove(I, s, t, c)
    BY <2>1 DEF MakeMove
  <2> QED BY <1>3, <2>2, <2>3, MakeStep
<1>7. BreakOK(I, t, Y)
  <2>1. ASSUME NEW u \in Vars
        PROVE  /\ t.break[u] <= s.break[u] + Credit(t, Units(I), Y, c, u)
                                           - Credit(s, Units(I), X, c, u)
               /\ t.breakW[u] <= s.breakW[u] + Credit(t, s.weight, Y, c, u)
                                             - Credit(s, s.weight, X, c, u)
               /\ Simple(I) =>
                     /\ t.break[u] = s.break[u] + Credit(t, Units(I), Y, c, u)
                                                - Credit(s, Units(I), X, c, u)
                     /\ t.breakW[u] = s.breakW[u] + Credit(t, s.weight, Y, c, u)
                                                  - Credit(s, s.weight, X, c, u)
    <3>1. ~KeepsCrit => Units(I)[c] = 0 /\ s.weight[c] = 0
      BY UnitsType, UnitType DEF Consistent, WeightOK
    <3>2. /\ Credit(t, Units(I), Y, c, u) = 0 /\ Credit(s, Units(I), X, c, u) = 0
          /\ Credit(t, s.weight, Y, c, u) = 0 /\ Credit(s, s.weight, X, c, u) = 0
      BY <1>3, <1>4, <3>1 DEF Credit
    <3>3. s.break[u] \in Int /\ s.breakW[u] \in Int
      BY CountTypes
    <3> QED BY <1>2, <3>2, <3>3 DEF SameBreak
  <2>2. BreakOK(I, s, X)
    BY DEF Consistent
  <2>3. BreakMove(I, s, t, c, X, Y)
    BY <2>1 DEF BreakMove
  <2> QED BY <1>3, <2>2, <2>3, BreakStep
<1>8. WeightOK(I, t)
  BY <1>2 DEF Consistent, WeightOK, SameRest
<1> QED BY <1>5, <1>6, <1>7, <1>8 DEF Consistent

(* A clause that loses a true literal keeps all counts consistent. *)
LEMMA LoseKeeps ==
    ASSUME NumVarAssumption, NEW I \in Formulas, NEW s \in States(I), NEW c \in DOMAIN I,
           NEW v \in Vars, NEW X, NEW Y, Consistent(I, s, X), s.numTrue[c] >= 1,
           KeepsCrit /\ s.numTrue[c] = 1 => c \in X \/ s.crit[c] = v,
           Simple(I) => c \notin X,
           SameBut(I, X, Y, c),
           s.numTrue[c] = 2 => (c \in Y <=> FirstTrueVar(I, s.val, c) = NoVar),
           NEW t, t = LoseTrueLit(I, s, v, c)
    PROVE  Consistent(I, t, Y) /\ Lost(I, s, t, c)
<1>1. s.numTrue[c] \in Int
  BY DEF States
<1>2. CASE s.numTrue[c] = 1
  BY <1>2, LoseLast
<1>3. CASE s.numTrue[c] = 2
  BY <1>3, LoseOfTwo
<1>4. CASE s.numTrue[c] > 2
  <2> DEFINE n == s.numTrue[c] - 1
             o == [s EXCEPT !.numTrue[c] = n]
  <2>1. n \in Int /\ n > 0 /\ n > 1 /\ s.numTrue[c] > 0 /\ s.numTrue[c] > 1
    BY <1>1, <1>4
  <2>2. t = o
    BY <2>1 DEF LoseTrueLit
  <2>3. o \in States(I) /\ Numbered(s, o, c, n, s.falses)
    BY <2>1, NumberedIs
  <2>4. Lost(I, s, t, c)
    BY <1>4, <2>2, <2>3 DEF Numbered, Lost
  <2> HIDE DEF n, o
  <2>5. KeepsCrit => s.numTrue[c] > 1 /\ n > 1
    BY <2>1
  <2>6. Consistent(I, o, Y)
    BY <2>1, <2>3, <2>5, ManyTrue
  <2> QED BY <2>2, <2>4, <2>6
<1> QED BY <1>1, <1>2, <1>3, <1>4

(* What GainTrueLit does to them. *)
Gained(s, t, v, c) ==
    /\ SameRest(s, t)
    /\ t.numTrue = [s.numTrue EXCEPT ![c] = @ + 1]
    /\ t.crit = IF s.numTrue[c] = 0 /\ KeepsCrit THEN [s.crit EXCEPT ![c] = v] ELSE s.crit

(* A false clause becomes true. *)
LEMMA GainFirst ==
    ASSUME NumVarAssumption, NEW I \in Formulas, NEW s \in States(I), NEW c \in DOMAIN I,
           NEW v \in Vars, Consistent(I, s, {}), s.numTrue[c] = 0,
           NEW t, t = GainTrueLit(I, s, v, c)
    PROVE  Consistent(I, t, {}) /\ Gained(s, t, v, c)
<1> DEFINE n == s.numTrue[c] + 1
           o == [s EXCEPT !.numTrue[c] = n]
           b == [o EXCEPT !.falses = DropFrom(@, c)]
           m == MakeAll(I, b, c, -1)
           g == AddBreak(m, v, c, 1)
           w == s.weight[c]
           X == {}
<1>1. n = 1 /\ n \in Int /\ v \in Indices
  BY DEF Vars, Indices
<1>2. t = IF KeepsCrit THEN [g EXCEPT !.crit[c] = v] ELSE g
  BY <1>1 DEF GainTrueLit
<1> HIDE DEF n
<1>3. b \in States(I) /\ Numbered(s, b, c, n, DropFrom(s.falses, c))
  BY <1>1, NumberedIs
<1> HIDE DEF o, b
<1>4. /\ VarsKept(b) /\ b.make = s.make /\ b.makeW = s.makeW /\ MakeOK(I, s)
      /\ SameRest(s, b) /\ b.numTrue = [s.numTrue EXCEPT ![c] = 1]
      /\ b.falses = DropFrom(s.falses, c) /\ b.crit = s.crit
      /\ b.break = s.break /\ b.breakW = s.breakW /\ b.weight[c] = w
  BY <1>1, <1>3 DEF Consistent, MakeOK, Numbered, SameMake, SameBreak, SameRest, VarsKept
<1>5. \A u \in Vars : b.make[u] >= 0 /\ b.make[u] >= Unit * VarTimes(I, c, u)
  <2> TAKE u \in Vars
  <2>1. Demand(I, s, Units(I), c, u) = Unit * VarTimes(I, c, u)
    BY UnitsType DEF Demand
  <2> QED BY <1>4, <2>1, MakeNatural
<1>6. m \in States(I) /\ MadeAll(I, b, m, c, -1) /\ VarsKept(m)
  BY <1>3, <1>4, <1>5, MakeAllIs
<1> HIDE DEF m
<1>7. g \in States(I) /\ BrokenOne(m, g, v, c, 1)
  BY <1>1, <1>6, AddBreakIs
<1> HIDE DEF g
<1>8. /\ SameRest(s, g) /\ g.numTrue = [s.numTrue EXCEPT ![c] = 1]
      /\ g.falses = DropFrom(s.falses, c) /\ g.crit = s.crit
      /\ g.break = [s.break EXCEPT ![v] = @ + 1 * Unit]
      /\ g.breakW = [s.breakW EXCEPT ![v] = @ + 1 * w]
      /\ \A u \in Vars : /\ g.make[u] = s.make[u] + (-1) * (Unit * VarTimes(I, c, u))
                         /\ g.makeW[u] = s.makeW[u] + (-1) * (w * VarTimes(I, c, u))
      /\ VarsKept(g)
  <2>1. /\ SameRest(s, m) /\ m.numTrue = [s.numTrue EXCEPT ![c] = 1]
        /\ m.falses = DropFrom(s.falses, c) /\ m.crit = s.crit
        /\ m.break = s.break /\ m.breakW = s.breakW /\ m.weight[c] = w
    BY <1>4, <1>6 DEF MadeAll, SameRest, SameBreak
  <2>2. \A u \in Vars : /\ m.make[u] = s.make[u] + (-1) * (Unit * VarTimes(I, c, u))
                        /\ m.makeW[u] = s.makeW[u] + (-1) * (w * VarTimes(I, c, u))
    BY <1>4, <1>6 DEF MadeAll
  <2>3. /\ SameRest(m, g) /\ SameMake(m, g)
        /\ g.numTrue = m.numTrue /\ g.falses = m.falses /\ g.crit = m.crit
        /\ g.break = [m.break EXCEPT ![v] = @ + 1 * Unit]
        /\ g.breakW = [m.breakW EXCEPT ![v] = @ + 1 * m.weight[c]]
    BY <1>7 DEF BrokenOne
  <2>4. SameRest(s, g)
    BY <2>1, <2>3 DEF SameRest
  <2>5. g.make = m.make /\ g.makeW = m.makeW /\ VarsKept(g)
    BY <1>6, <2>3 DEF SameMake, VarsKept
  <2>6. /\ g.numTrue = [s.numTrue EXCEPT ![c] = 1]
        /\ g.falses = DropFrom(s.falses, c) /\ g.crit = s.crit
        /\ g.break = [s.break EXCEPT ![v] = @ + 1 * Unit]
        /\ g.breakW = [s.breakW EXCEPT ![v] = @ + 1 * w]
    BY <2>1, <2>3
  <2> QED BY <2>2, <2>4, <2>5, <2>6
<1>9. /\ t \in States(I) /\ SameRest(g, t) /\ SameBreak(g, t) /\ SameMake(g, t)
      /\ t.numTrue = g.numTrue /\ t.falses = g.falses
      /\ t.crit = IF KeepsCrit THEN [g.crit EXCEPT ![c] = v] ELSE g.crit
  <2> DEFINE x == [g.crit EXCEPT ![c] = v]
  <2>1. x \in [DOMAIN I -> Indices]
    BY <1>1, <1>7 DEF States
  <2>2. [g EXCEPT !.crit[c] = v] = [g EXCEPT !.crit = x]
    OBVIOUS
  <2>3. t = IF KeepsCrit THEN [g EXCEPT !.crit = x] ELSE g
    BY <1>2, <2>2
  <2> HIDE DEF x
  <2>4. CASE KeepsCrit
    <3>1. t = [g EXCEPT !.crit = x]
      BY <2>3, <2>4
    <3>2. t \in States(I)
      BY <1>7, <2>1, <3>1 DEF States
    <3>3. SameRest(g, t) /\ SameBreak(g, t) /\ SameMake(g, t)
          /\ t.numTrue = g.numTrue /\ t.falses = g.falses /\ t.crit = x
      BY <1>7, <3>1 DEF States, SameRest, SameBreak, SameMake
    <3> QED BY <2>4, <3>2, <3>3 DEF x
  <2>5. CASE ~KeepsCrit
    BY <1>7, <2>3, <2>5 DEF SameRest, SameBreak, SameMake
  <2> QED BY <2>4, <2>5
<1>10. /\ SameRest(s, t) /\ t.numTrue = [s.numTrue EXCEPT ![c] = 1]
       /\ t.falses = DropFrom(s.falses, c)
       /\ t.crit = IF KeepsCrit THEN [s.crit EXCEPT ![c] = v] ELSE s.crit
       /\ t.break = [s.break EXCEPT ![v] = @ + 1 * Unit]
       /\ t.breakW = [s.breakW EXCEPT ![v] = @ + 1 * w]
       /\ \A u \in Vars : /\ t.make[u] = s.make[u] + (-1) * (Unit * VarTimes(I, c, u))
                          /\ t.makeW[u] = s.makeW[u] + (-1) * (w * VarTimes(I, c, u))
       /\ VarsKept(t)
  <2>1. SameRest(s, t)
    BY <1>8, <1>9 DEF SameRest
  <2>2. t.make = g.make /\ t.makeW = g.makeW /\ t.break = g.break /\ t.breakW = g.breakW
        /\ VarsKept(t)
    BY <1>8, <1>9 DEF SameMake, SameBreak, VarsKept
  <2> QED BY <1>8, <1>9, <2>1, <2>2
<1>11. OnlyAt(I, s, t, c) /\ t.numTrue[c] = 1 /\ (KeepsCrit => t.crit[c] = v)
  BY <1>10 DEF SameRest, OnlyAt, States
<1>12. ListOK(I, t)
  BY <1>9, <1>10, <1>11, ListStep DEF Consistent
<1>13. /\ Units(I)[c] = Unit /\ Unit \in {0, 1} /\ w \in Nat
       /\ ~KeepsCrit => Unit = 0 /\ w = 0
  BY UnitsType, UnitType DEF Consistent, WeightOK
<1>14. MakeOK(I, t)
  <2>1. ASSUME NEW u \in Vars
        PROVE  /\ t.make[u] = s.make[u] + Demand(I, t, Units(I), c, u)
                                        - Demand(I, s, Units(I), c, u)
               /\ t.makeW[u] = s.makeW[u] + Demand(I, t, s.weight, c, u)
                                          - Demand(I, s, s.weight, c, u)
    <3>1. /\ Demand(I, t, Units(I), c, u) = 0
          /\ Demand(I, s, Units(I), c, u) = Unit * VarTimes(I, c, u)
          /\ Demand(I, t, s.weight, c, u) = 0
          /\ Demand(I, s, s.weight, c, u) = w * VarTimes(I, c, u)
      BY <1>11, <1>13 DEF Demand
    <3>2. VarTimes(I, c, u) \in Nat
      BY TimesType
    <3>3. Unit * VarTimes(I, c, u) \in Int /\ w * VarTimes(I, c, u) \in Int
      BY <1>13, <3>2
    <3>4. s.make[u] \in Int /\ s.makeW[u] \in Int
      BY CountTypes
    <3> QED BY <1>10, <3>1, <3>3, <3>4
  <2>2. MakeMove(I, s, t, c)
    BY <2>1 DEF MakeMove
  <2> QED BY <1>4, <1>9, <1>10, <1>11, <2>2, MakeStep
<1>15. BreakOK(I, t, X)
  <2>1. ASSUME NEW u \in Vars
        PROVE  /\ t.break[u] <= s.break[u] + Credit(t, Units(I), X, c, u)
                                           - Credit(s, Units(I), X, c, u)
               /\ t.breakW[u] <= s.breakW[u] + Credit(t, s.weight, X, c, u)
                                             - Credit(s, s.weight, X, c, u)
               /\ Simple(I) =>
                     /\ t.break[u] = s.break[u] + Credit(t, Units(I), X, c, u)
                                                - Credit(s, Units(I), X, c, u)
                     /\ t.breakW[u] = s.breakW[u] + Credit(t, s.weight, X, c, u)
                                                  - Credit(s, s.weight, X, c, u)
    <3>1. /\ Credit(s, Units(I), X, c, u) = 0
          /\ Credit(s, s.weight, X, c, u) = 0
          /\ Credit(t, Units(I), X, c, u) = IF t.crit[c] = u THEN Unit ELSE 0
          /\ Credit(t, s.weight, X, c, u) = IF t.crit[c] = u THEN w ELSE 0
      BY <1>11, <1>13 DEF Credit
    <3>2. s.break[u] \in Int /\ s.breakW[u] \in Int /\ u \in Indices
          /\ s.break \in [Indices -> Int] /\ s.breakW \in [Indices -> Int]
      BY CountTypes
    <3>3. /\ t.break[u] = s.break[u] + (IF u = v THEN Unit ELSE 0)
          /\ t.breakW[u] = s.breakW[u] + (IF u = v THEN w ELSE 0)
      <4>1. 1 * Unit = Unit /\ 1 * w = w /\ Unit \in Int /\ w \in Int
        BY <1>13
      <4> QED BY <1>10, <3>2, <4>1
    <3>4. CASE ~KeepsCrit
      BY <1>13, <3>1, <3>2, <3>3, <3>4
    <3>5. CASE KeepsCrit
      <4>1. t.crit[c] = v
        BY <1>11, <3>5
      <4> QED BY <1>13, <3>1, <3>2, <3>3, <4>1
    <3> QED BY <3>4, <3>5
  <2>2. BreakOK(I, s, X)
    BY DEF Consistent
  <2>3. BreakMove(I, s, t, c, X, X) /\ SameBut(I, X, X, c)
    BY <2>1 DEF BreakMove, SameBut
  <2> HIDE DEF X
  <2> QED BY <1>9, <1>11, <2>2, <2>3, BreakStep
<1>16. WeightOK(I, t)
  BY <1>10 DEF Consistent, WeightOK, SameRest
<1>17. Gained(s, t, v, c)
  BY <1>10 DEF Gained
<1> QED BY <1>12, <1>14, <1>15, <1>16, <1>17 DEF Consistent

(* A second literal becomes true. *)
LEMMA GainSecond ==
    ASSUME NumVarAssumption, NEW I \in Formulas, NEW s \in States(I), NEW c \in DOMAIN I,
           NEW v \in Vars, Consistent(I, s, {}), s.numTrue[c] = 1, KeepsCrit,
           NEW t, t = GainTrueLit(I, s, v, c)
    PROVE  Consistent(I, t, {}) /\ Gained(s, t, v, c)
<1> DEFINE n == s.numTrue[c] + 1
           o == [s EXCEPT !.numTrue[c] = n]
           w == s.weight[c]
           x == s.crit[c]
           X == {}
<1>1. n = 2 /\ n \in Int /\ x \in Indices
  BY DEF States
<1>2. t = AddBreak(o, o.crit[c], c, -1)
  BY <1>1 DEF GainTrueLit
<1> HIDE DEF n
<1>3. o \in States(I) /\ Numbered(s, o, c, n, s.falses)
  BY <1>1, NumberedIs
<1> HIDE DEF o, x
<1>4. o.crit[c] = x
  BY <1>3 DEF Numbered, x
<1>5. t \in States(I) /\ BrokenOne(o, t, x, c, -1)
  BY <1>1, <1>2, <1>3, <1>4, AddBreakIs
<1>6. /\ SameRest(s, o) /\ o.numTrue = [s.numTrue EXCEPT ![c] = 2]
      /\ o.falses = s.falses /\ o.crit = s.crit /\ SameMake(s, o)
      /\ o.break = s.break /\ o.breakW = s.breakW /\ o.weight[c] = w
  BY <1>1, <1>3 DEF Numbered, SameRest, SameBreak
<1>7. /\ SameRest(s, t) /\ SameMake(s, t) /\ t.numTrue = [s.numTrue EXCEPT ![c] = 2]
      /\ t.falses = s.falses /\ t.crit = s.crit
      /\ t.break = [s.break EXCEPT ![x] = @ + (-1) * Unit]
      /\ t.breakW = [s.breakW EXCEPT ![x] = @ + (-1) * w]
  <2>1. /\ SameRest(o, t) /\ SameMake(o, t) /\ t.numTrue = o.numTrue
        /\ t.falses = o.falses /\ t.crit = o.crit
        /\ t.break = [o.break EXCEPT ![x] = @ + (-1) * Unit]
        /\ t.breakW = [o.breakW EXCEPT ![x] = @ + (-1) * o.weight[c]]
    BY <1>5 DEF BrokenOne
  <2>2. SameRest(s, t) /\ SameMake(s, t)
    BY <1>6, <2>1 DEF SameRest, SameMake
  <2> QED BY <1>6, <2>1, <2>2
<1>8. OnlyAt(I, s, t, c) /\ t.numTrue[c] = 2
  BY <1>7 DEF SameRest, OnlyAt, States
<1>9. ListOK(I, t)
  BY <1>5, <1>7, <1>8, ListStep DEF Consistent
<1>10. Units(I)[c] = Unit /\ Unit \in {0, 1} /\ w \in Nat
  BY UnitsType, UnitType
<1>11. MakeOK(I, t)
  <2>1. ASSUME NEW u \in Vars
        PROVE  /\ t.make[u] = s.make[u] + Demand(I, t, Units(I), c, u)
                                        - Demand(I, s, Units(I), c, u)
               /\ t.makeW[u] = s.makeW[u] + Demand(I, t, s.weight, c, u)
                                          - Demand(I, s, s.weight, c, u)
    <3>1. /\ Demand(I, t, Units(I), c, u) = 0
          /\ Demand(I, s, Units(I), c, u) = 0
          /\ Demand(I, t, s.weight, c, u) = 0
          /\ Demand(I, s, s.weight, c, u) = 0
      BY <1>8 DEF Demand
    <3>2. s.make[u] \in Int /\ s.makeW[u] \in Int
      BY CountTypes
    <3> QED BY <1>7, <3>1, <3>2 DEF SameMake
  <2>2. MakeOK(I, s) /\ VarsKept(t)
    BY <1>7 DEF Consistent, MakeOK, SameMake, VarsKept
  <2>3. MakeMove(I, s, t, c)
    BY <2>1 DEF MakeMove
  <2> QED BY <1>5, <1>8, <2>2, <2>3, MakeStep
<1>12. BreakOK(I, t, X)
  <2>1. ASSUME NEW u \in Vars
        PROVE  /\ t.break[u] <= s.break[u] + Credit(t, Units(I), X, c, u)
                                           - Credit(s, Units(I), X, c, u)
               /\ t.breakW[u] <= s.breakW[u] + Credit(t, s.weight, X, c, u)
                                             - Credit(s, s.weight, X, c, u)
               /\ Simple(I) =>
                     /\ t.break[u] = s.break[u] + Credit(t, Units(I), X, c, u)
                                                - Credit(s, Units(I), X, c, u)
                     /\ t.breakW[u] = s.breakW[u] + Credit(t, s.weight, X, c, u)
                                                  - Credit(s, s.weight, X, c, u)
    <3>1. /\ Credit(t, Units(I), X, c, u) = 0
          /\ Credit(t, s.weight, X, c, u) = 0
          /\ Credit(s, Units(I), X, c, u) = IF x = u THEN Unit ELSE 0
          /\ Credit(s, s.weight, X, c, u) = IF x = u THEN w ELSE 0
      BY <1>8, <1>10 DEF Credit, x
    <3>2. s.break[u] \in Int /\ s.breakW[u] \in Int /\ u \in Indices
          /\ s.break \in [Indices -> Int] /\ s.breakW \in [Indices -> Int]
      BY CountTypes
    <3>3. /\ t.break[u] = s.break[u] - (IF u = x THEN Unit ELSE 0)
          /\ t.breakW[u] = s.breakW[u] - (IF u = x THEN w ELSE 0)
      <4>1. (-1) * Unit = -Unit /\ (-1) * w = -w /\ Unit \in Int /\ w \in Int
        BY <1>10
      <4> QED BY <1>7, <3>2, <4>1
    <3> QED BY <1>10, <3>1, <3>2, <3>3
  <2>2. BreakOK(I, s, X)
    BY DEF Consistent
  <2>3. BreakMove(I, s, t, c, X, X) /\ SameBut(I, X, X, c)
    BY <2>1 DEF BreakMove, SameBut
  <2> HIDE DEF X
  <2> QED BY <1>5, <1>8, <2>2, <2>3, BreakStep
<1>13. WeightOK(I, t)
  BY <1>7 DEF Consistent, WeightOK, SameRest
<1>14. Gained(s, t, v, c)
  BY <1>7 DEF Gained
<1> QED BY <1>9, <1>11, <1>12, <1>13, <1>14 DEF Consistent

(* And so does one that gains one, now that no clause is left behind. *)
LEMMA GainKeeps ==
    ASSUME NumVarAssumption, NEW I \in Formulas, NEW s \in States(I), NEW c \in DOMAIN I,
           NEW v \in Vars, Consistent(I, s, {}),
           NEW t, t = GainTrueLit(I, s, v, c)
    PROVE  Consistent(I, t, {}) /\ Gained(s, t, v, c)
<1>1. s.numTrue[c] \in Int /\ s.numTrue[c] >= 0
  BY DEF States, Consistent, ListOK
<1>2. CASE s.numTrue[c] = 0
  BY <1>2, GainFirst
<1>3. CASE s.numTrue[c] = 1 /\ KeepsCrit
  BY <1>3, GainSecond
<1>4. CASE s.numTrue[c] > 1 \/ (s.numTrue[c] = 1 /\ ~KeepsCrit)
  <2> DEFINE n == s.numTrue[c] + 1
             o == [s EXCEPT !.numTrue[c] = n]
  <2>1. n \in Int /\ n > 0 /\ n > 1 /\ s.numTrue[c] > 0
    BY <1>1, <1>4
  <2>2. t = o
    <3>1. ~(n = 1) /\ ~(n = 2 /\ KeepsCrit)
      BY <1>1, <1>4
    <3> QED BY <3>1 DEF GainTrueLit
  <2>3. o \in States(I) /\ Numbered(s, o, c, n, s.falses)
    BY <2>1, NumberedIs
  <2>4. Gained(s, t, v, c)
    BY <1>4, <2>2, <2>3 DEF Numbered, Gained
  <2>5. KeepsCrit => s.numTrue[c] > 1 /\ n > 1
    BY <1>4, <2>1
  <2> HIDE DEF n, o
  <2>6. SameBut(I, {}, {}, c)
    BY DEF SameBut
  <2>7. Consistent(I, o, {})
    BY <2>1, <2>3, <2>5, <2>6, ManyTrue
  <2> QED BY <2>2, <2>4, <2>7
<1> QED BY <1>1, <1>2, <1>3, <1>4

-----------------------------------------------------------------------------
(* All clauses of an occurrence list. *)

(* The clauses of the literal that becomes false, one after the other. *)
LEMMA LoseLoop ==
    ASSUME NumVarAssumption, NEW I \in Formulas, NEW s \in States(I), NEW v \in Vars,
           NEW occ \in Seq(DOMAIN I)
    PROVE  \E G \in [0..Len(occ) -> States(I)] :
              /\ G[0] = s
              /\ \A k \in 1..Len(occ) : G[k] = LoseTrueLit(I, G[k - 1], v, occ[k])
              /\ LoseAll(I, s, v, occ) = G[Len(occ)]
<1> DEFINE n == Len(occ)
           A == States(I)
           base == s
           each == occ
           Turn(t, e) == LoseTrueLit(I, t, v, e)
           turn == [k \in 1..n |-> [t \in A |-> Turn(t, each[k])]]
           it == CHOOSE g : g = [t \in SUBSET (1..n) |-> IF t = {} THEN base
                                        ELSE Turn(g[t \ {Max(t)}], each[Max(t)])]
<1>1. n \in Nat /\ base \in A /\ DOMAIN each = 1..n
  OBVIOUS
<1>2. turn \in Turns(n, A)
  <2> SUFFICES ASSUME NEW k \in 1..n, NEW t \in A PROVE Turn(t, each[k]) \in A
    BY DEF Turns
  <2>1. each[k] \in DOMAIN I
    OBVIOUS
  <2> HIDE DEF each, n
  <2> QED BY <2>1, LoseType
<1>3. LoseAll(I, s, v, occ) = it[1..n]
  BY <1>1, Zenon DEF LoseAll, FoldLeft, MapThenFoldSet
<1> HIDE DEF n, A, base, each, Turn
<1>4. 1..n \subseteq Nat /\ IsFiniteSet(1..n)
  BY <1>1, FS_Interval
<1>5. \A t \in SUBSET (1..n) : t # {} => Max(t) \in 1..n
  BY <1>4, FS_Subset, MaxUpTo
<1>6. it = [t \in SUBSET (1..n) |-> IF t = {} THEN base
                                  ELSE Turn(it[t \ {Max(t)}], each[Max(t)])]
  <2>1. PICK g : IsLoop(g, n, A, base, turn)
    <3> HIDE DEF turn
    <3> QED BY <1>1, <1>2, LoopExists
  <2>2. g = [t \in SUBSET (1..n) |-> IF t = {} THEN base
                                    ELSE Turn(g[t \ {Max(t)}], each[Max(t)])]
    BY <1>5, <2>1 DEF IsLoop
  <2> QED BY <2>2
<1> HIDE DEF it
<1>7. Iterates(it, n, A, base, turn)
  BY <1>5, <1>6 DEF Iterates
<1>8. PICK G : Values(G, n, A, base, turn) /\ G[n] = it[1..n]
  <2> HIDE DEF turn
  <2> QED BY <1>1, <1>2, <1>7, LoopValues
<1>9. G \in [0..n -> A] /\ G[0] = base
  BY <1>8 DEF Values
<1>10. \A k \in 1..n : G[k] = Turn(G[k - 1], each[k])
  <2> TAKE k \in 1..n
  <2>1. k - 1 \in 0..n
    BY <1>1
  <2>2. G[k - 1] \in A
    BY <1>9, <2>1
  <2>3. G[k] = turn[k][G[k - 1]]
    BY <1>8 DEF Values
  <2> QED BY <1>1, <2>2, <2>3
<1> HIDE DEF turn
<1> QED BY <1>3, <1>8, <1>9, <1>10 DEF n, A, base, each, Turn

(* The clauses of the literal that becomes true, one after the other. *)
LEMMA GainLoop ==
    ASSUME NumVarAssumption, NEW I \in Formulas, NEW s \in States(I), NEW v \in Vars,
           NEW occ \in Seq(DOMAIN I)
    PROVE  \E G \in [0..Len(occ) -> States(I)] :
              /\ G[0] = s
              /\ \A k \in 1..Len(occ) : G[k] = GainTrueLit(I, G[k - 1], v, occ[k])
              /\ GainAll(I, s, v, occ) = G[Len(occ)]
<1> DEFINE n == Len(occ)
           A == States(I)
           base == s
           each == occ
           Turn(t, e) == GainTrueLit(I, t, v, e)
           turn == [k \in 1..n |-> [t \in A |-> Turn(t, each[k])]]
           it == CHOOSE g : g = [t \in SUBSET (1..n) |-> IF t = {} THEN base
                                        ELSE Turn(g[t \ {Max(t)}], each[Max(t)])]
<1>1. n \in Nat /\ base \in A /\ DOMAIN each = 1..n
  OBVIOUS
<1>2. turn \in Turns(n, A)
  <2> SUFFICES ASSUME NEW k \in 1..n, NEW t \in A PROVE Turn(t, each[k]) \in A
    BY DEF Turns
  <2>1. each[k] \in DOMAIN I
    OBVIOUS
  <2> HIDE DEF each, n
  <2> QED BY <2>1, GainType
<1>3. GainAll(I, s, v, occ) = it[1..n]
  BY <1>1, Zenon DEF GainAll, FoldLeft, MapThenFoldSet
<1> HIDE DEF n, A, base, each, Turn
<1>4. 1..n \subseteq Nat /\ IsFiniteSet(1..n)
  BY <1>1, FS_Interval
<1>5. \A t \in SUBSET (1..n) : t # {} => Max(t) \in 1..n
  BY <1>4, FS_Subset, MaxUpTo
<1>6. it = [t \in SUBSET (1..n) |-> IF t = {} THEN base
                                  ELSE Turn(it[t \ {Max(t)}], each[Max(t)])]
  <2>1. PICK g : IsLoop(g, n, A, base, turn)
    <3> HIDE DEF turn
    <3> QED BY <1>1, <1>2, LoopExists
  <2>2. g = [t \in SUBSET (1..n) |-> IF t = {} THEN base
                                    ELSE Turn(g[t \ {Max(t)}], each[Max(t)])]
    BY <1>5, <2>1 DEF IsLoop
  <2> QED BY <2>2
<1> HIDE DEF it
<1>7. Iterates(it, n, A, base, turn)
  BY <1>5, <1>6 DEF Iterates
<1>8. PICK G : Values(G, n, A, base, turn) /\ G[n] = it[1..n]
  <2> HIDE DEF turn
  <2> QED BY <1>1, <1>2, <1>7, LoopValues
<1>9. G \in [0..n -> A] /\ G[0] = base
  BY <1>8 DEF Values
<1>10. \A k \in 1..n : G[k] = Turn(G[k - 1], each[k])
  <2> TAKE k \in 1..n
  <2>1. k - 1 \in 0..n
    BY <1>1
  <2>2. G[k - 1] \in A
    BY <1>9, <2>1
  <2>3. G[k] = turn[k][G[k - 1]]
    BY <1>8 DEF Values
  <2> QED BY <1>1, <2>2, <2>3
<1> HIDE DEF turn
<1> QED BY <1>3, <1>8, <1>9, <1>10 DEF n, A, base, each, Turn

-----------------------------------------------------------------------------
(* The literals of a variable before and after it is flipped. *)

TrueAt(I, val, c) == {i \in DOMAIN I[c] : IsLitTrue(val, I[c][i])}
LitAt(I, c, l)    == {i \in DOMAIN I[c] : I[c][i] = l}

(* A literal is true when its sign is that of the variable's value. *)
LEMMA LitTrue ==
    ASSUME NumVarAssumption, NEW val \in [Vars -> BOOLEAN], NEW l \in Literals
    PROVE  IsLitTrue(val, l) <=> (l > 0 <=> val[Var(l)])
<1> DEFINE b == val[Var(l)]
<1>1. b \in BOOLEAN /\ l \in Int
  BY LiteralType
<1> HIDE DEF b
<1>2. ((l > 0) = b) <=> (l > 0 <=> b)
  BY <1>1, SMT
<1> QED BY <1>2 DEF IsLitTrue, b

(* A flip makes the true literal of the variable false and the other true. *)
LEMMA TurnedIs ==
    ASSUME NumVarAssumption, NEW val \in [Vars -> BOOLEAN], NEW v \in Vars,
           NEW l, l = TrueLit(val, v)
    PROVE  /\ Turned(val, v) \in [Vars -> BOOLEAN]
           /\ l \in Literals /\ -l \in Literals /\ l # -l /\ Var(l) = v /\ Var(-l) = v
           /\ FalseLit(val, v) = -l
           /\ IsLitTrue(val, l) /\ ~IsLitTrue(val, -l)
           /\ IsLitTrue(Turned(val, v), -l) /\ ~IsLitTrue(Turned(val, v), l)
           /\ \A x \in Literals :
                 /\ Var(x) = v => x = l \/ x = -l
                 /\ Var(x) # v => (IsLitTrue(Turned(val, v), x) <=> IsLitTrue(val, x))
<1> DEFINE new == Turned(val, v)
<1>1. v \in Int /\ v > 0 /\ v <= NumVar /\ NumVar \in Int
  BY DEF Vars, NumVarAssumption
<1>2. new \in [Vars -> BOOLEAN] /\ new[v] = ~val[v] /\ \A u \in Vars : u # v => new[u] = val[u]
  BY DEF Turned
<1> HIDE DEF new
<1>3. l = IF val[v] THEN v ELSE -v
  BY DEF TrueLit
<1>4. l \in Literals /\ -l \in Literals /\ l # -l /\ Var(l) = v /\ Var(-l) = v
  BY <1>1, <1>3 DEF Literals, Var
<1>5. (l > 0 <=> val[v]) /\ (-l > 0 <=> ~val[v])
  BY <1>1, <1>3
<1>6. IsLitTrue(val, l) /\ ~IsLitTrue(val, -l)
  BY <1>4, <1>5, LitTrue
<1>7. IsLitTrue(new, -l) /\ ~IsLitTrue(new, l)
  BY <1>2, <1>4, <1>5, LitTrue
<1>8. ASSUME NEW x \in Literals
      PROVE  /\ Var(x) = v => x = l \/ x = -l
             /\ Var(x) # v => (IsLitTrue(new, x) <=> IsLitTrue(val, x))
  <2>1. Var(x) \in Vars
    BY LiteralType
  <2>2. Var(x) = v => x = l \/ x = -l
    BY <1>1, <1>3 DEF Var, Literals
  <2>3. Var(x) # v => (IsLitTrue(new, x) <=> IsLitTrue(val, x))
    BY <1>2, <2>1 DEF IsLitTrue
  <2> QED BY <2>2, <2>3
<1>9. FalseLit(val, v) = -l
  BY DEF FalseLit
<1> QED BY <1>2, <1>4, <1>6, <1>7, <1>8, <1>9 DEF new

(* The true literals of a clause, and what a flip of v does to them: l was *)
(* true.                                                                   *)
LEMMA TurnedCounts ==
    ASSUME NumVarAssumption, NEW I \in Formulas, NEW c \in DOMAIN I,
           NEW val \in [Vars -> BOOLEAN], NEW v \in Vars, NEW l, l = TrueLit(val, v),
           NEW new, new = Turned(val, v)
    PROVE  /\ NumTrueLit(I, new, c) = NumTrueLit(I, val, c) - Times(I, c, l) + Times(I, c, -l)
           /\ Times(I, c, l) <= NumTrueLit(I, val, c)
           /\ NumTrueLit(I, val, c) = Times(I, c, l) /\ Times(I, c, l) # 0 =>
                 FirstTrueVar(I, val, c) = v
           /\ NumTrueLit(I, val, c) = Times(I, c, l) =>
                 FirstTrueVar(I, new, c) \in {v, NoVar}
           /\ NumTrueLit(I, new, c) = Times(I, c, -l) /\ Times(I, c, -l) # 0 =>
                 FirstTrueVar(I, new, c) = v
           /\ Times(I, c, l) = 0 /\ Times(I, c, -l) = 0 =>
                 FirstTrueVar(I, new, c) = FirstTrueVar(I, val, c)
<1> DEFINE A == LitAt(I, c, l)
           N == LitAt(I, c, -l)
           B == {i \in TrueAt(I, val, c) : Var(I[c][i]) # v}
<1>1. /\ new \in [Vars -> BOOLEAN]
      /\ l \in Literals /\ -l \in Literals /\ l # -l /\ Var(l) = v /\ Var(-l) = v
      /\ IsLitTrue(val, l) /\ ~IsLitTrue(val, -l)
      /\ IsLitTrue(new, -l) /\ ~IsLitTrue(new, l)
      /\ \A x \in Literals :
            /\ Var(x) = v => x = l \/ x = -l
            /\ Var(x) # v => (IsLitTrue(new, x) <=> IsLitTrue(val, x))
  BY TurnedIs
<1>2. \A i \in DOMAIN I[c] : I[c][i] \in Literals
  BY FormulaType
<1>3. /\ TrueAt(I, val, c) = A \cup B /\ A \cap B = {}
      /\ TrueAt(I, new, c) = N \cup B /\ N \cap B = {}
  <2>1. TrueAt(I, val, c) = A \cup B
    BY <1>1, <1>2 DEF TrueAt, LitAt
  <2>2. TrueAt(I, new, c) = N \cup B
    BY <1>1, <1>2 DEF TrueAt, LitAt
  <2>3. A \cap B = {} /\ N \cap B = {}
    BY <1>1 DEF LitAt
  <2> QED BY <2>1, <2>2, <2>3
<1>4. /\ IsFiniteSet(A) /\ IsFiniteSet(N) /\ IsFiniteSet(B)
      /\ Times(I, c, l) = Cardinality(A) /\ Times(I, c, -l) = Cardinality(N)
      /\ NumTrueLit(I, val, c) = Cardinality(TrueAt(I, val, c))
      /\ NumTrueLit(I, new, c) = Cardinality(TrueAt(I, new, c))
  <2>1. IsFiniteSet(DOMAIN I[c])
    BY FormulaType
  <2>2. A \subseteq DOMAIN I[c] /\ N \subseteq DOMAIN I[c] /\ B \subseteq DOMAIN I[c]
    BY DEF LitAt, TrueAt
  <2>3. IsFiniteSet(A) /\ IsFiniteSet(N) /\ IsFiniteSet(B)
    <3> HIDE DEF A, N, B
    <3> QED BY <2>1, <2>2, FS_Subset
  <2> QED BY <2>3 DEF Times, NumTrueLit, LitAt, TrueAt
<1> HIDE DEF A, N, B
<1>5. /\ Cardinality(A) \in Nat /\ Cardinality(N) \in Nat /\ Cardinality(B) \in Nat
      /\ NumTrueLit(I, val, c) = Cardinality(A) + Cardinality(B)
      /\ NumTrueLit(I, new, c) = Cardinality(N) + Cardinality(B)
  <2>1. Cardinality(A) \in Nat /\ Cardinality(N) \in Nat /\ Cardinality(B) \in Nat
    BY <1>4, FS_CardinalityType
  <2>2. Cardinality(A \cup B) = Cardinality(A) + Cardinality(B) - Cardinality(A \cap B)
    BY <1>4, FS_Union
  <2>3. Cardinality(N \cup B) = Cardinality(N) + Cardinality(B) - Cardinality(N \cap B)
    BY <1>4, FS_Union
  <2>4. Cardinality(A \cap B) = 0 /\ Cardinality(N \cap B) = 0
    BY <1>3, FS_EmptySet
  <2> QED BY <1>3, <1>4, <2>1, <2>2, <2>3, <2>4
<1>6. ASSUME Cardinality(B) = 0
      PROVE  /\ NumTrueLit(I, val, c) # 0 => FirstTrueVar(I, val, c) = v
             /\ NumTrueLit(I, new, c) # 0 => FirstTrueVar(I, new, c) = v
  <2>1. B = {}
    BY <1>4, <1>6, FS_EmptySet
  <2>2. \A i \in TrueAt(I, val, c) \cup TrueAt(I, new, c) : Var(I[c][i]) = v
    BY <1>1, <1>3, <2>1 DEF A, N, LitAt
  <2>3. ASSUME NumTrueLit(I, val, c) # 0 PROVE FirstTrueVar(I, val, c) = v
    <3>1. PICK i \in DOMAIN I[c] : /\ IsLitTrue(val, I[c][i])
                                   /\ FirstTrueVar(I, val, c) = Var(I[c][i])
      BY <2>3, FirstTrue
    <3> QED BY <2>2, <3>1 DEF TrueAt
  <2>4. ASSUME NumTrueLit(I, new, c) # 0 PROVE FirstTrueVar(I, new, c) = v
    <3>1. PICK i \in DOMAIN I[c] : /\ IsLitTrue(new, I[c][i])
                                   /\ FirstTrueVar(I, new, c) = Var(I[c][i])
      BY <1>1, <2>4, FirstTrue, ZenonT(40)
    <3> QED BY <2>2, <3>1 DEF TrueAt
  <2> QED BY <2>3, <2>4
<1>7. NumTrueLit(I, new, c) = 0 => FirstTrueVar(I, new, c) = NoVar
  BY <1>1, FirstTrue
<1>8. ASSUME Cardinality(A) = 0, Cardinality(N) = 0
      PROVE  FirstTrueVar(I, new, c) = FirstTrueVar(I, val, c)
  <2>1. A = {} /\ N = {}
    BY <1>4, <1>8, FS_EmptySet
  <2>2. TrueAt(I, new, c) = TrueAt(I, val, c)
    BY <1>3, <2>1
  <2> QED BY <2>2 DEF FirstTrueVar, TrueAt
<1> QED BY <1>4, <1>5, <1>6, <1>7, <1>8

-----------------------------------------------------------------------------
(* How often a clause has come up in the first j turns of a list. *)

Seen(occ, c, j) == Cardinality(OccursAt(occ, c) \cap 1..j)

(* What has been seen of a clause grows from nothing to all. *)
LEMMA SeenType ==
    ASSUME NEW D, NEW occ \in Seq(D), NEW c
    PROVE  /\ \A j \in 0..Len(occ) : /\ Seen(occ, c, j) \in Nat
                                     /\ Seen(occ, c, j) <= Cardinality(OccursAt(occ, c))
           /\ Seen(occ, c, 0) = 0
           /\ Seen(occ, c, Len(occ)) = Cardinality(OccursAt(occ, c))
           /\ Cardinality(OccursAt(occ, c)) \in Nat
<1> DEFINE S == OccursAt(occ, c)
<1>1. S \subseteq 1..Len(occ) /\ Len(occ) \in Nat
  BY DEF OccursAt
<1>2. IsFiniteSet(S) /\ Cardinality(S) \in Nat
  <2>1. IsFiniteSet(1..Len(occ))
    BY <1>1, FS_Interval
  <2> QED BY <1>1, <2>1, FS_Subset, FS_CardinalityType
<1>3. S \cap 1..Len(occ) = S
  BY <1>1, Zenon
<1>4. S \cap 1..0 = {}
  OBVIOUS
<1> HIDE DEF S
<1>5. ASSUME NEW j \in 0..Len(occ)
      PROVE  Cardinality(S \cap 1..j) \in Nat /\ Cardinality(S \cap 1..j) <= Cardinality(S)
  BY <1>2, FS_Subset, FS_CardinalityType
<1>6. Cardinality(S \cap 1..0) = 0
  BY <1>4, FS_EmptySet
<1> QED BY <1>2, <1>3, <1>5, <1>6 DEF Seen, S

(* It grows with the clause itself. *)
LEMMA SeenNext ==
    ASSUME NEW D, NEW occ \in Seq(D), NEW c, NEW k \in 1..Len(occ)
    PROVE  Seen(occ, c, k) = Seen(occ, c, k - 1) + (IF occ[k] = c THEN 1 ELSE 0)
<1> DEFINE S == OccursAt(occ, c)
           A == S \cap 1..(k - 1)
<1>1. k \in Nat /\ k \notin A /\ S \subseteq 1..Len(occ) /\ (k \in S <=> occ[k] = c)
  BY DEF OccursAt
<1>2. IsFiniteSet(A)
  <2>1. IsFiniteSet(1..(k - 1))
    BY <1>1, FS_Interval
  <2>2. A \subseteq 1..(k - 1)
    OBVIOUS
  <2> QED BY <2>1, <2>2, FS_Subset
<1>3. S \cap 1..k = IF k \in S THEN A \cup {k} ELSE A
  BY <1>1
<1> HIDE DEF A, S
<1>4. Cardinality(A \cup {k}) = Cardinality(A) + 1 /\ Cardinality(A) \in Nat
  BY <1>1, <1>2, FS_AddElement, FS_CardinalityType
<1>5. Cardinality(S \cap 1..k) = Cardinality(A) + (IF k \in S THEN 1 ELSE 0)
  <2>1. CASE k \in S
    BY <1>3, <1>4, <2>1
  <2>2. CASE k \notin S
    <3>1. S \cap 1..k = A
      BY <1>3, <2>2
    <3>2. Cardinality(S \cap 1..k) = Cardinality(A)
      BY <3>1
    <3> QED BY <1>4, <2>2, <3>2
  <2> QED BY <2>1, <2>2
<1> QED BY <1>1, <1>5 DEF Seen, A, S

(* Which clauses are set apart matters for those with one true literal. *)
LEMMA ConsistentSwap ==
    ASSUME NEW I \in Formulas, NEW s \in States(I), NEW X, NEW Y, Consistent(I, s, X),
           \A c \in DOMAIN I : s.numTrue[c] = 1 => (c \in X <=> c \in Y)
    PROVE  Consistent(I, s, Y)
<1>1. ASSUME NEW q, NEW u PROVE BreakOf(I, s, q, X, u) = BreakOf(I, s, q, Y, u)
  <2>1. \A c \in DOMAIN I : Credit(s, q, X, c, u) = Credit(s, q, Y, c, u)
    BY DEF Credit
  <2>2. [c \in DOMAIN I |-> Credit(s, q, X, c, u)] = [c \in DOMAIN I |-> Credit(s, q, Y, c, u)]
    BY <2>1
  <2> QED BY <2>2 DEF BreakOf
<1>2. BreakOK(I, s, Y)
  BY <1>1 DEF Consistent, BreakOK
<1> QED BY <1>2 DEF Consistent

-----------------------------------------------------------------------------
(* A flip of v: val is the assignment before it.  The clauses of the list  *)
(* occ lose their true literal first.  Until all have, a clause that holds *)
(* it twice may have one true literal left, and none that is to stay.      *)

Doomed(I, new, occ, j) ==
    {c \in DOMAIN I : Seen(occ, c, j) >= 1 /\ FirstTrueVar(I, new, c) = NoVar}

Losing(I, val, occ, s, t, j) ==
    /\ SameRest(s, t)
    /\ Consistent(I, t, Doomed(I, s.val, occ, j))
    /\ \A c \in DOMAIN I :
          /\ t.numTrue[c] = NumTrueLit(I, val, c) - Seen(occ, c, j)
          /\ KeepsCrit /\ t.numTrue[c] = 1 =>
                /\ Seen(occ, c, j) = 0 => t.crit[c] = FirstTrueVar(I, val, c)
                /\ Seen(occ, c, j) # 0 /\ FirstTrueVar(I, s.val, c) # NoVar =>
                      t.crit[c] = FirstTrueVar(I, s.val, c)

(* The list is that of the literal that v makes true in val. *)
FlipOf(I, val, new, v, l, occ) ==
    /\ l = TrueLit(val, v) /\ new = Turned(val, v)
    /\ occ = Occurrences(I, l)

(* A simple clause has a variable once, with one sign. *)
LEMMA SimpleTimes ==
    ASSUME NumVarAssumption, NEW I \in Formulas, NEW c \in DOMAIN I, NEW l \in Literals,
           Simple(I)
    PROVE  Times(I, c, l) + Times(I, c, -l) <= 1
<1> DEFINE A == LitAt(I, c, l)
           B == LitAt(I, c, -l)
<1>1. Times(I, c, l) = Cardinality(A) /\ Times(I, c, -l) = Cardinality(B)
  BY DEF Times, LitAt
<1>2. IsFiniteSet(A) /\ IsFiniteSet(B)
  BY TimesType DEF LitAt
<1>3. \A i, j \in A \cup B : i = j
  <2>1. Var(-l) = Var(l)
    BY LiteralType
  <2> QED BY <2>1 DEF LitAt, Simple
<1>4. A \cap B = {}
  BY LiteralType DEF LitAt
<1> HIDE DEF A, B
<1>5. Cardinality(A \cup B) = Cardinality(A) + Cardinality(B) - Cardinality(A \cap B)
  BY <1>2, FS_Union
<1>6. Cardinality(A \cap B) = 0
  BY <1>4, FS_EmptySet
<1>7. Cardinality(A \cup B) <= 1
  <2>1. CASE A \cup B = {}
    BY <2>1, FS_EmptySet
  <2>2. CASE A \cup B # {}
    <3>1. PICK i : A \cup B = {i}
      BY <1>3, <2>2
    <3>2. Cardinality({i}) = 1
      BY FS_Singleton
    <3> QED BY <3>1, <3>2
  <2> QED BY <2>1, <2>2
<1>8. Cardinality(A) \in Nat /\ Cardinality(B) \in Nat
  BY <1>2, FS_CardinalityType
<1> QED BY <1>1, <1>5, <1>6, <1>7, <1>8

(* The next clause of the literal that becomes false keeps the invariant. *)
LEMMA LosingNext ==
    ASSUME NumVarAssumption, NEW I \in Formulas, NEW val \in [Vars -> BOOLEAN],
           NEW v \in Vars, NEW l, NEW occ, NEW s \in States(I), NEW r \in States(I),
           FlipOf(I, val, s.val, v, l, occ), NEW k \in 1..Len(occ),
           Losing(I, val, occ, s, r, k - 1), NEW t, t = LoseTrueLit(I, r, v, occ[k])
    PROVE  t \in States(I) /\ Losing(I, val, occ, s, t, k)
<1> DEFINE c == occ[k]
           new == s.val
           X == Doomed(I, new, occ, k - 1)
           Y == Doomed(I, new, occ, k)
           before == Seen(occ, c, k - 1)
<1>1. occ \in Seq(DOMAIN I) /\ k - 1 \in 0..Len(occ) /\ k \in 0..Len(occ) /\ c \in DOMAIN I
  <2>1. occ \in Seq(DOMAIN I)
    BY OccurrencesAre DEF FlipOf
  <2> QED BY <2>1
<1>2. /\ l = TrueLit(val, v) /\ new = Turned(val, v) /\ l \in Literals /\ -l \in Literals
      /\ \A e \in DOMAIN I : Cardinality(OccursAt(occ, e)) = Times(I, e, l)
  BY TurnedIs, OccurrencesAre DEF FlipOf
<1>3. \A e \in DOMAIN I :
         /\ Times(I, e, l) \in Nat /\ Times(I, e, -l) \in Nat
         /\ NumTrueLit(I, val, e) \in Nat
         /\ Times(I, e, l) <= NumTrueLit(I, val, e)
         /\ NumTrueLit(I, val, e) = Times(I, e, l) /\ Times(I, e, l) # 0 =>
               FirstTrueVar(I, val, e) = v
         /\ NumTrueLit(I, val, e) = Times(I, e, l) => FirstTrueVar(I, new, e) \in {v, NoVar}
  <2> TAKE e \in DOMAIN I
  <2>1. Times(I, e, l) \in Nat /\ Times(I, e, -l) \in Nat
    BY TimesType
  <2>2. NumTrueLit(I, val, e) \in Nat
    BY FirstTrue
  <2>3. /\ Times(I, e, l) <= NumTrueLit(I, val, e)
        /\ NumTrueLit(I, val, e) = Times(I, e, l) /\ Times(I, e, l) # 0 =>
              FirstTrueVar(I, val, e) = v
        /\ NumTrueLit(I, val, e) = Times(I, e, l) => FirstTrueVar(I, new, e) \in {v, NoVar}
    <3> HIDE DEF new
    <3> QED BY <1>2, TurnedCounts
  <2> QED BY <2>1, <2>2, <2>3
<1>4. /\ \A e \in DOMAIN I : /\ Seen(occ, e, k) \in Nat /\ Seen(occ, e, k - 1) \in Nat
                              /\ Seen(occ, e, k) <= Times(I, e, l)
      /\ \A e \in DOMAIN I : e # c => Seen(occ, e, k) = Seen(occ, e, k - 1)
      /\ Seen(occ, c, k) = before + 1
  <2>1. \A e \in DOMAIN I : /\ Seen(occ, e, k) \in Nat /\ Seen(occ, e, k - 1) \in Nat
                             /\ Seen(occ, e, k) <= Times(I, e, l)
    BY <1>1, <1>2, SeenType
  <2>2. \A e \in DOMAIN I :
           Seen(occ, e, k) = Seen(occ, e, k - 1) + (IF occ[k] = e THEN 1 ELSE 0)
    BY <1>1, SeenNext
  <2> QED BY <1>1, <2>1, <2>2, SMTT(30)
<1>5. /\ SameRest(s, r) /\ Consistent(I, r, X) /\ r.val = new
      /\ \A e \in DOMAIN I : r.numTrue[e] = NumTrueLit(I, val, e) - Seen(occ, e, k - 1)
      /\ \A e \in DOMAIN I : KeepsCrit /\ r.numTrue[e] = 1 =>
            /\ Seen(occ, e, k - 1) = 0 => r.crit[e] = FirstTrueVar(I, val, e)
            /\ Seen(occ, e, k - 1) # 0 /\ FirstTrueVar(I, new, e) # NoVar =>
                  r.crit[e] = FirstTrueVar(I, new, e)
  BY DEF Losing, SameRest
<1>6. \A e \in DOMAIN I :
         /\ e \in X <=> Seen(occ, e, k - 1) >= 1 /\ FirstTrueVar(I, new, e) = NoVar
         /\ e \in Y <=> Seen(occ, e, k) >= 1 /\ FirstTrueVar(I, new, e) = NoVar
  BY DEF Doomed
<1> HIDE DEF c, new, X, Y, before
<1>7. r.numTrue[c] >= 1 /\ before + 1 <= Times(I, c, l) /\ before = Seen(occ, c, k - 1)
      /\ before \in Nat /\ r.numTrue[c] = NumTrueLit(I, val, c) - before
  <2>1. before = Seen(occ, c, k - 1) /\ before \in Nat /\ before + 1 <= Times(I, c, l)
    <3>1. Seen(occ, c, k) = before + 1 /\ Seen(occ, c, k) <= Times(I, c, l)
      BY <1>1, <1>4
    <3>2. Seen(occ, c, k - 1) \in Nat
      BY <1>1, <1>4
    <3> QED BY <3>1, <3>2 DEF before
  <2>2. Times(I, c, l) \in Nat /\ NumTrueLit(I, val, c) \in Nat
        /\ Times(I, c, l) <= NumTrueLit(I, val, c)
    BY <1>1, <1>3
  <2>3. r.numTrue[c] = NumTrueLit(I, val, c) - before
    BY <1>1, <1>5, <2>1
  <2> QED BY <2>1, <2>2, <2>3
<1>8. KeepsCrit /\ r.numTrue[c] = 1 => c \in X \/ r.crit[c] = v
  <2> SUFFICES ASSUME KeepsCrit, r.numTrue[c] = 1 PROVE c \in X \/ r.crit[c] = v
    OBVIOUS
  <2>0. r.numTrue[c] = 1
    OBVIOUS
  <2>1. NumTrueLit(I, val, c) = Times(I, c, l) /\ Times(I, c, l) # 0
    <3>1. Times(I, c, l) \in Nat /\ NumTrueLit(I, val, c) \in Nat
          /\ Times(I, c, l) <= NumTrueLit(I, val, c)
      BY <1>1, <1>3
    <3> QED BY <1>7, <2>0, <3>1
  <2>2. CASE before = 0
    BY <1>1, <1>3, <1>5, <1>7, <2>1, <2>2
  <2>3. CASE before # 0
    <3>1. FirstTrueVar(I, new, c) \in {v, NoVar}
      BY <1>1, <1>3, <2>1
    <3>2. CASE FirstTrueVar(I, new, c) = NoVar
      BY <1>1, <1>6, <1>7, <2>3, <3>2
    <3>3. CASE FirstTrueVar(I, new, c) # NoVar
      BY <1>1, <1>5, <1>7, <2>3, <3>1, <3>3
    <3> QED BY <3>2, <3>3
  <2> QED BY <2>2, <2>3
<1>9. Simple(I) => c \notin X
  <2> SUFFICES ASSUME Simple(I) PROVE c \notin X
    OBVIOUS
  <2>1. Times(I, c, l) + Times(I, c, -l) <= 1
    BY <1>1, <1>2, SimpleTimes
  <2> QED BY <1>1, <1>3, <1>6, <1>7, <2>1
<1>10. SameBut(I, X, Y, c)
  BY <1>4, <1>6 DEF SameBut
<1>11. r.numTrue[c] = 2 => (c \in Y <=> FirstTrueVar(I, r.val, c) = NoVar)
  BY <1>1, <1>4, <1>5, <1>6, <1>7
<1>12. Consistent(I, t, Y) /\ Lost(I, r, t, c)
  <2>1. t = LoseTrueLit(I, r, v, c)
    BY DEF c
  <2> QED BY <1>1, <1>5, <1>7, <1>8, <1>9, <1>10, <1>11, <2>1, LoseKeeps
<1>13. t \in States(I)
  BY <1>1, LoseType DEF c
<1>14. SameRest(s, t)
  BY <1>5, <1>12 DEF Lost, SameRest
<1>15. ASSUME NEW e \in DOMAIN I
       PROVE  /\ t.numTrue[e] = NumTrueLit(I, val, e) - Seen(occ, e, k)
              /\ KeepsCrit /\ t.numTrue[e] = 1 =>
                    /\ Seen(occ, e, k) = 0 => t.crit[e] = FirstTrueVar(I, val, e)
                    /\ Seen(occ, e, k) # 0 /\ FirstTrueVar(I, new, e) # NoVar =>
                          t.crit[e] = FirstTrueVar(I, new, e)
  <2>0. /\ t.numTrue = [r.numTrue EXCEPT ![c] = @ - 1]
        /\ t.crit = IF r.numTrue[c] = 2 /\ KeepsCrit /\ FirstTrueVar(I, new, c) # NoVar
                    THEN [r.crit EXCEPT ![c] = FirstTrueVar(I, new, c)] ELSE r.crit
        /\ r.numTrue \in [DOMAIN I -> Int] /\ r.crit \in [DOMAIN I -> Indices]
    BY <1>5, <1>12 DEF Lost, States
  <2>1. CASE e # c
    <3>1. t.numTrue[e] = r.numTrue[e] /\ t.crit[e] = r.crit[e]
      BY <2>0, <2>1
    <3> QED BY <1>4, <1>5, <2>1, <3>1
  <2>2. CASE e = c
    <3>1. t.numTrue[c] = r.numTrue[c] - 1
      BY <1>1, <2>0
    <3>2. t.numTrue[c] = NumTrueLit(I, val, c) - Seen(occ, c, k)
      BY <1>1, <1>3, <1>4, <1>7, <3>1
    <3>3. Seen(occ, c, k) # 0
      BY <1>4, <1>7
    <3>4. KeepsCrit /\ t.numTrue[c] = 1 /\ FirstTrueVar(I, new, c) # NoVar =>
             t.crit[c] = FirstTrueVar(I, new, c)
      BY <1>1, <2>0, <3>1
    <3> QED BY <2>2, <3>2, <3>3, <3>4
  <2> QED BY <2>1, <2>2
<1> QED BY <1>12, <1>13, <1>14, <1>15 DEF Losing, new, Y

(* Every clause that held the literal has lost it. *)
LEMMA LoseAllKeeps ==
    ASSUME NumVarAssumption, NEW I \in Formulas, NEW val \in [Vars -> BOOLEAN],
           NEW v \in Vars, NEW l, NEW occ, NEW s \in States(I),
           FlipOf(I, val, s.val, v, l, occ), Losing(I, val, occ, s, s, 0),
           NEW t, t = LoseAll(I, s, v, occ)
    PROVE  t \in States(I) /\ Losing(I, val, occ, s, t, Len(occ))
<1>1. occ \in Seq(DOMAIN I) /\ Len(occ) \in Nat
  <2>1. occ \in Seq(DOMAIN I)
    BY OccurrencesAre DEF FlipOf
  <2> QED BY <2>1
<1>2. PICK G \in [0..Len(occ) -> States(I)] :
         /\ G[0] = s
         /\ \A k \in 1..Len(occ) : G[k] = LoseTrueLit(I, G[k - 1], v, occ[k])
         /\ LoseAll(I, s, v, occ) = G[Len(occ)]
  BY <1>1, LoseLoop
<1> DEFINE n == Len(occ)
           T == {k \in 0..n : Losing(I, val, occ, s, G[k], k)}
<1>3. 0 \in T
  BY <1>1, <1>2
<1>4. ASSUME NEW k \in 1..n, k - 1 \in T PROVE k \in T
  <2>1. k - 1 \in 0..n /\ k \in 0..n
    BY <1>1
  <2>2. G[k - 1] \in States(I) /\ G[k] = LoseTrueLit(I, G[k - 1], v, occ[k])
    BY <1>2, <2>1
  <2>3. Losing(I, val, occ, s, G[k - 1], k - 1)
    BY <1>4
  <2>4. Losing(I, val, occ, s, G[k], k)
    BY <2>2, <2>3, LosingNext
  <2> QED BY <2>1, <2>4
<1>5. n \in T
  <2> HIDE DEF n, T
  <2>1. n \in Nat
    BY <1>1 DEF n
  <2>2. \A k \in 0..n : k \in T
    BY <1>3, <1>4, <2>1, UpTo
  <2> QED BY <2>1, <2>2
<1> QED BY <1>1, <1>2, <1>5

(* Then those that hold the negated literal gain it; s is what was left. *)
Gaining(I, occ, s, t, v, j) ==
    /\ SameRest(s, t)
    /\ Consistent(I, t, {})
    /\ \A c \in DOMAIN I :
          /\ t.numTrue[c] = s.numTrue[c] + Seen(occ, c, j)
          /\ KeepsCrit /\ t.numTrue[c] = 1 =>
                t.crit[c] = IF Seen(occ, c, j) = 0 THEN s.crit[c] ELSE v

(* The next clause of the literal that becomes true keeps the invariant. *)
LEMMA GainingNext ==
    ASSUME NumVarAssumption, NEW I \in Formulas, NEW v \in Vars, NEW occ \in Seq(DOMAIN I),
           NEW s \in States(I), NEW r \in States(I), NEW k \in 1..Len(occ),
           Gaining(I, occ, s, r, v, k - 1), NEW t, t = GainTrueLit(I, r, v, occ[k])
    PROVE  t \in States(I) /\ Gaining(I, occ, s, t, v, k)
<1> DEFINE c == occ[k]
<1>1. k - 1 \in 0..Len(occ) /\ k \in 0..Len(occ) /\ c \in DOMAIN I
  OBVIOUS
<1>2. \A e \in DOMAIN I :
         /\ Seen(occ, e, k) \in Nat /\ Seen(occ, e, k - 1) \in Nat
         /\ Seen(occ, e, k) = Seen(occ, e, k - 1) + (IF c = e THEN 1 ELSE 0)
  <2> TAKE e \in DOMAIN I
  <2>1. Seen(occ, e, k) \in Nat /\ Seen(occ, e, k - 1) \in Nat
    BY <1>1, SeenType
  <2>2. Seen(occ, e, k) = Seen(occ, e, k - 1) + (IF c = e THEN 1 ELSE 0)
    BY SeenNext
  <2> QED BY <2>1, <2>2
<1> HIDE DEF c
<1>3. /\ SameRest(s, r) /\ Consistent(I, r, {})
      /\ \A e \in DOMAIN I :
            /\ r.numTrue[e] = s.numTrue[e] + Seen(occ, e, k - 1)
            /\ KeepsCrit /\ r.numTrue[e] = 1 =>
                  r.crit[e] = IF Seen(occ, e, k - 1) = 0 THEN s.crit[e] ELSE v
  BY DEF Gaining
<1>4. t \in States(I)
  BY <1>1, GainType DEF c
<1>5. Consistent(I, t, {}) /\ Gained(r, t, v, c)
  <2>1. t = GainTrueLit(I, r, v, c)
    BY DEF c
  <2> QED BY <1>1, <1>3, <2>1, GainKeeps
<1>6. SameRest(s, t)
  BY <1>3, <1>5 DEF Gained, SameRest
<1>7. ASSUME NEW e \in DOMAIN I
      PROVE  /\ t.numTrue[e] = s.numTrue[e] + Seen(occ, e, k)
             /\ KeepsCrit /\ t.numTrue[e] = 1 =>
                   t.crit[e] = IF Seen(occ, e, k) = 0 THEN s.crit[e] ELSE v
  <2>0. /\ t.numTrue = [r.numTrue EXCEPT ![c] = @ + 1]
        /\ t.crit = IF r.numTrue[c] = 0 /\ KeepsCrit THEN [r.crit EXCEPT ![c] = v]
                    ELSE r.crit
        /\ r.numTrue \in [DOMAIN I -> Int] /\ r.crit \in [DOMAIN I -> Indices]
        /\ s.numTrue \in [DOMAIN I -> Int]
    BY <1>5 DEF Gained, States
  <2>1. CASE e # c
    <3>1. t.numTrue[e] = r.numTrue[e] /\ t.crit[e] = r.crit[e]
      BY <2>0, <2>1
    <3>2. Seen(occ, e, k) = Seen(occ, e, k - 1)
      BY <1>2, <2>1
    <3> QED BY <1>3, <3>1, <3>2
  <2>2. CASE e = c
    <3>1. t.numTrue[e] = r.numTrue[e] + 1 /\ r.numTrue[e] \in Int /\ s.numTrue[e] \in Int
      BY <1>1, <2>0, <2>2
    <3>2. /\ Seen(occ, e, k) = Seen(occ, e, k - 1) + 1 /\ Seen(occ, e, k - 1) \in Nat
          /\ r.numTrue[e] = s.numTrue[e] + Seen(occ, e, k - 1)
      BY <1>2, <1>3, <2>2
    <3>3. t.numTrue[e] = s.numTrue[e] + Seen(occ, e, k) /\ Seen(occ, e, k) # 0
      <4> DEFINE x == Seen(occ, e, k)
                 y == Seen(occ, e, k - 1)
      <4>1. x = y + 1 /\ y \in Nat /\ r.numTrue[e] = s.numTrue[e] + y
        BY <3>2
      <4> HIDE DEF x, y
      <4>2. t.numTrue[e] = s.numTrue[e] + x /\ x # 0
        BY <3>1, <4>1
      <4> QED BY <4>2 DEF x
    <3>4. KeepsCrit /\ t.numTrue[e] = 1 => t.crit[e] = v
      BY <2>0, <2>2, <3>1
    <3> QED BY <3>3, <3>4
  <2> QED BY <2>1, <2>2
<1> QED BY <1>4, <1>5, <1>6, <1>7 DEF Gaining

(* All clauses of the literal that becomes true have gained it. *)
LEMMA GainAllKeeps ==
    ASSUME NumVarAssumption, NEW I \in Formulas, NEW v \in Vars, NEW occ \in Seq(DOMAIN I),
           NEW s \in States(I), Consistent(I, s, {}), NEW t, t = GainAll(I, s, v, occ)
    PROVE  t \in States(I) /\ Gaining(I, occ, s, t, v, Len(occ))
<1>1. PICK G \in [0..Len(occ) -> States(I)] :
         /\ G[0] = s
         /\ \A k \in 1..Len(occ) : G[k] = GainTrueLit(I, G[k - 1], v, occ[k])
         /\ GainAll(I, s, v, occ) = G[Len(occ)]
  BY GainLoop
<1> DEFINE n == Len(occ)
           T == {k \in 0..n : Gaining(I, occ, s, G[k], v, k)}
<1>2. n \in Nat
  OBVIOUS
<1>3. 0 \in T
  <2>1. \A c \in DOMAIN I : Seen(occ, c, 0) = 0 /\ s.numTrue[c] \in Int
    BY SeenType DEF States
  <2>2. Gaining(I, occ, s, s, v, 0)
    BY <2>1 DEF Gaining, SameRest
  <2> QED BY <1>1, <1>2, <2>2
<1>4. ASSUME NEW k \in 1..n, k - 1 \in T PROVE k \in T
  <2>1. k - 1 \in 0..n /\ k \in 0..n
    BY <1>2
  <2>2. G[k - 1] \in States(I) /\ G[k] = GainTrueLit(I, G[k - 1], v, occ[k])
    BY <1>1, <2>1
  <2>3. Gaining(I, occ, s, G[k - 1], v, k - 1)
    BY <1>4
  <2>4. Gaining(I, occ, s, G[k], v, k)
    BY <2>2, <2>3, GainingNext
  <2> QED BY <2>1, <2>4
<1>5. n \in T
  <2> HIDE DEF n, T
  <2>1. \A k \in 0..n : k \in T
    BY <1>2, <1>3, <1>4, UpTo
  <2> QED BY <1>2, <2>1
<1> QED BY <1>1, <1>2, <1>5

-----------------------------------------------------------------------------
(* The state is what its assignment says. *)

CritOK(I, s) ==
    KeepsCrit => \A c \in DOMAIN I :
        s.numTrue[c] = 1 => s.crit[c] = FirstTrueVar(I, s.val, c)

Numbers(I, s) == \A c \in DOMAIN I : s.numTrue[c] = NumTrueLit(I, s.val, c)

Exact(I, s) == s \in States(I) /\ Numbers(I, s) /\ Consistent(I, s, {}) /\ CritOK(I, s)

(* What a flip leaves alone. *)
SameButVal(s, t) ==
    /\ t.weight = s.weight /\ t.sum = s.sum /\ t.falseW = s.falseW
    /\ t.head = s.head /\ t.change = s.change

(* The counts that a flip repairs clause by clause are those of the        *)
(* assignment it leads to.                                                 *)
THEOREM FlipKeepsExact ==
    ASSUME NumVarAssumption, NEW I \in Formulas, NEW s, Exact(I, s), NEW v \in Vars
    PROVE  /\ Exact(I, Flip(I, s, v))
           /\ Flip(I, s, v).val = Turned(s.val, v) /\ SameButVal(s, Flip(I, s, v))
<1> DEFINE val == s.val
           new == Turned(val, v)
           l == TrueLit(val, v)
           lits == Occurrences(I, l)
           negs == Occurrences(I, -l)
           a == [s EXCEPT !.val[v] = ~@]
           b == LoseAll(I, a, v, lits)
           t == GainAll(I, b, v, negs)
<1>1. s \in States(I) /\ Numbers(I, s) /\ Consistent(I, s, {}) /\ CritOK(I, s)
      /\ val \in [Vars -> BOOLEAN]
  BY DEF Exact, States
<1>2. /\ new \in [Vars -> BOOLEAN] /\ l \in Literals /\ -l \in Literals
      /\ FalseLit(val, v) = -l
  BY <1>1, TurnedIs
<1>3. Flip(I, s, v) = t
  <2>1. v # NoVar
    BY DEF Vars, NoVar
  <2> QED BY <1>2, <2>1 DEF Flip
<1>4. /\ a \in States(I) /\ a.val = new /\ SameButVal(s, a)
      /\ a.numTrue = s.numTrue /\ a.crit = s.crit
      /\ Consistent(I, a, {})
  <2>1. a = [s EXCEPT !.val = new]
    BY DEF Turned
  <2> HIDE DEF a
  <2>2. a \in States(I) /\ a.val = new
    BY <1>1, <1>2, <2>1 DEF States
  <2>3. SameButVal(s, a) /\ a.numTrue = s.numTrue /\ a.crit = s.crit
        /\ a.falses = s.falses /\ SameBreak(s, a) /\ SameMake(s, a)
    BY <2>1 DEF SameButVal, SameBreak, SameMake
  <2>4. \A q, u : BreakOf(I, a, q, {}, u) = BreakOf(I, s, q, {}, u)
                  /\ MakeOf(I, a, q, u) = MakeOf(I, s, q, u)
    BY <2>3 DEF BreakOf, MakeOf, Credit, Demand
  <2>5. Consistent(I, a, {})
    BY <1>1, <2>3, <2>4 DEF Consistent, ListOK, MakeOK, BreakOK, WeightOK, VarsKept,
       SameButVal, SameBreak, SameMake
  <2> QED BY <2>2, <2>3, <2>5
<1> HIDE DEF a, new
<1>5. FlipOf(I, val, a.val, v, l, lits)
  BY <1>4 DEF FlipOf, new
<1>6. lits \in Seq(DOMAIN I) /\ negs \in Seq(DOMAIN I)
      /\ \A c \in DOMAIN I : /\ Cardinality(OccursAt(lits, c)) = Times(I, c, l)
                             /\ Cardinality(OccursAt(negs, c)) = Times(I, c, -l)
  BY OccurrencesAre
<1>7. Losing(I, val, lits, a, a, 0)
  <2>1. \A c \in DOMAIN I : Seen(lits, c, 0) = 0
    BY <1>6, SeenType
  <2>2. Doomed(I, a.val, lits, 0) = {}
    BY <2>1 DEF Doomed
  <2>3. \A c \in DOMAIN I : NumTrueLit(I, val, c) \in Nat
    BY <1>1, FirstTrue
  <2> QED BY <1>1, <1>4, <2>1, <2>2, <2>3 DEF Losing, SameRest, Numbers, CritOK
<1>8. b \in States(I) /\ Losing(I, val, lits, a, b, Len(lits))
  <2> HIDE DEF l, lits
  <2> QED BY <1>1, <1>4, <1>5, <1>7, LoseAllKeeps
<1> HIDE DEF b
<1>9. /\ SameRest(a, b) /\ Consistent(I, b, Doomed(I, new, lits, Len(lits)))
      /\ \A c \in DOMAIN I :
            /\ b.numTrue[c] = NumTrueLit(I, val, c) - Times(I, c, l)
            /\ KeepsCrit /\ b.numTrue[c] = 1 =>
                  /\ Times(I, c, l) = 0 => b.crit[c] = FirstTrueVar(I, val, c)
                  /\ Times(I, c, l) # 0 /\ FirstTrueVar(I, new, c) # NoVar =>
                        b.crit[c] = FirstTrueVar(I, new, c)
  <2>1. \A c \in DOMAIN I : Seen(lits, c, Len(lits)) = Times(I, c, l)
    BY <1>6, SeenType
  <2> QED BY <1>4, <1>8, <2>1 DEF Losing
<1>10. \A c \in DOMAIN I :
          /\ Times(I, c, l) \in Nat /\ Times(I, c, -l) \in Nat
          /\ NumTrueLit(I, val, c) \in Nat /\ NumTrueLit(I, new, c) \in Nat
          /\ NumTrueLit(I, new, c) = 0 <=> FirstTrueVar(I, new, c) = NoVar
          /\ NumTrueLit(I, new, c) = NumTrueLit(I, val, c) - Times(I, c, l) + Times(I, c, -l)
          /\ Times(I, c, l) <= NumTrueLit(I, val, c)
          /\ NumTrueLit(I, new, c) = Times(I, c, -l) /\ Times(I, c, -l) # 0 =>
                FirstTrueVar(I, new, c) = v
          /\ Times(I, c, l) = 0 /\ Times(I, c, -l) = 0 =>
                FirstTrueVar(I, new, c) = FirstTrueVar(I, val, c)
  <2> TAKE c \in DOMAIN I
  <2>1. Times(I, c, l) \in Nat /\ Times(I, c, -l) \in Nat
    BY TimesType
  <2>2. /\ NumTrueLit(I, val, c) \in Nat /\ NumTrueLit(I, new, c) \in Nat
        /\ NumTrueLit(I, new, c) = 0 <=> FirstTrueVar(I, new, c) = NoVar
    BY <1>1, <1>2, FirstTrue
  <2>3. new = Turned(val, v)
    BY DEF new
  <2>4. /\ NumTrueLit(I, new, c) = NumTrueLit(I, val, c) - Times(I, c, l) + Times(I, c, -l)
        /\ Times(I, c, l) <= NumTrueLit(I, val, c)
        /\ NumTrueLit(I, new, c) = Times(I, c, -l) /\ Times(I, c, -l) # 0 =>
              FirstTrueVar(I, new, c) = v
        /\ Times(I, c, l) = 0 /\ Times(I, c, -l) = 0 =>
              FirstTrueVar(I, new, c) = FirstTrueVar(I, val, c)
    BY <1>1, <2>3, TurnedCounts
  <2> QED BY <2>1, <2>2, <2>4
<1> HIDE DEF l, lits, negs
<1>11. Consistent(I, b, {})
  <2>1. \A c \in DOMAIN I : b.numTrue[c] = 1 => c \notin Doomed(I, new, lits, Len(lits))
    <3> TAKE c \in DOMAIN I
    <3> HAVE b.numTrue[c] = 1
    <3>1. NumTrueLit(I, new, c) # 0
      BY <1>9, <1>10
    <3> QED BY <1>10, <3>1 DEF Doomed
  <2> QED BY <1>8, <1>9, <2>1, ConsistentSwap
<1>12. t \in States(I) /\ Gaining(I, negs, b, t, v, Len(negs))
  BY <1>6, <1>8, <1>11, GainAllKeeps
<1> HIDE DEF t
<1>13. /\ SameRest(b, t) /\ Consistent(I, t, {})
       /\ \A c \in DOMAIN I :
             /\ t.numTrue[c] = b.numTrue[c] + Times(I, c, -l)
             /\ KeepsCrit /\ t.numTrue[c] = 1 =>
                   t.crit[c] = IF Times(I, c, -l) = 0 THEN b.crit[c] ELSE v
  <2>1. \A c \in DOMAIN I : Seen(negs, c, Len(negs)) = Times(I, c, -l)
    BY <1>6, SeenType
  <2> QED BY <1>12, <2>1 DEF Gaining
<1>14. t.val = new /\ SameButVal(s, t)
  BY <1>4, <1>9, <1>13 DEF SameRest, SameButVal
<1>15. Numbers(I, t)
  <2>1. ASSUME NEW c \in DOMAIN I PROVE t.numTrue[c] = NumTrueLit(I, new, c)
    BY <1>9, <1>10, <1>13
  <2> QED BY <1>14, <2>1 DEF Numbers
<1>16. CritOK(I, t)
  <2>1. ASSUME KeepsCrit, NEW c \in DOMAIN I, t.numTrue[c] = 1
        PROVE  t.crit[c] = FirstTrueVar(I, new, c)
    <3>1. NumTrueLit(I, new, c) = 1
      BY <1>14, <1>15, <2>1 DEF Numbers
    <3>2. CASE Times(I, c, -l) = 0
      <4>1. b.numTrue[c] = 1 /\ t.crit[c] = b.crit[c]
        BY <1>9, <1>10, <1>13, <2>1, <3>2
      <4>2. FirstTrueVar(I, new, c) # NoVar
        BY <1>10, <3>1
      <4> QED BY <1>9, <1>10, <2>1, <3>2, <4>1, <4>2
    <3>3. CASE Times(I, c, -l) # 0
      <4>1. NumTrueLit(I, new, c) = Times(I, c, -l)
        BY <1>10, <3>1, <3>3
      <4> QED BY <1>10, <1>13, <2>1, <3>3, <4>1
    <3> QED BY <3>2, <3>3
  <2> QED BY <1>14, <2>1 DEF CritOK
<1> QED BY <1>3, <1>12, <1>13, <1>14, <1>15, <1>16 DEF Exact, new

-----------------------------------------------------------------------------
(* The state that InitStateInfo computes. *)

(* The counts that a run starts with are the sums. *)
LEMMA InitCountsAre ==
    ASSUME NEW I \in Formulas, NEW N \in [DOMAIN I -> Int], NEW C, NEW q \in [DOMAIN I -> Int],
           NEW t, t.numTrue = N, t.crit = C
    PROVE  /\ InitCounts(I, N, C, q).break \in [Indices -> Int]
           /\ InitCounts(I, N, C, q).make \in [Indices -> Int]
           /\ \A u \in Indices :
                 /\ InitCounts(I, N, C, q).break[u] = BreakOf(I, t, q, {}, u)
                 /\ InitCounts(I, N, C, q).make[u] = MakeOf(I, t, q, u)
<1> DEFINE f(u) == [c \in DOMAIN I |-> IF N[c] = 1 /\ C[c] = u THEN q[c] ELSE 0]
           g(u) == [c \in DOMAIN I |-> IF N[c] > 0 THEN 0 ELSE q[c] * VarTimes(I, c, u)]
           b == [u \in Indices |-> Total(f(u))]
           m == [u \in Indices |-> Total(g(u))]
<1>1. InitCounts(I, N, C, q).break = b /\ InitCounts(I, N, C, q).make = m
  BY DEF InitCounts
<1>2. IsFiniteSet(DOMAIN I)
  BY FormulaType
<1>3. ASSUME NEW u \in Indices
      PROVE  /\ f(u) \in [DOMAIN I -> Int] /\ g(u) \in [DOMAIN I -> Int]
             /\ Total(f(u)) = BreakOf(I, t, q, {}, u) /\ Total(g(u)) = MakeOf(I, t, q, u)
  <2>1. f(u) \in [DOMAIN I -> Int]
    OBVIOUS
  <2>2. g(u) \in [DOMAIN I -> Int]
    <3>1. \A c \in DOMAIN I : VarTimes(I, c, u) \in Nat
      BY TimesType
    <3>2. \A c \in DOMAIN I : q[c] * VarTimes(I, c, u) \in Int
      BY <3>1
    <3> QED BY <3>2
  <2>3. f(u) = [c \in DOMAIN I |-> Credit(t, q, {}, c, u)]
    BY DEF Credit
  <2>4. g(u) = [c \in DOMAIN I |-> Demand(I, t, q, c, u)]
    BY DEF Demand
  <2> HIDE DEF f, g
  <2> QED BY <2>1, <2>2, <2>3, <2>4 DEF BreakOf, MakeOf
<1>4. \A u \in Indices : Total(f(u)) \in Int /\ Total(g(u)) \in Int
  <2> HIDE DEF f, g
  <2> QED BY <1>2, <1>3, TotalType
<1> HIDE DEF f, g
<1>5. b \in [Indices -> Int] /\ m \in [Indices -> Int]
  BY <1>4
<1>6. \A u \in Indices : b[u] = BreakOf(I, t, q, {}, u) /\ m[u] = MakeOf(I, t, q, u)
  BY <1>3
<1> QED BY <1>1, <1>5, <1>6

(* The costs of a search: the weights of the clauses in q. *)
Weights(I) == [DOMAIN I -> Nat]

(* A clause is false when it has no true literal. *)
LEMMA FalseIs ==
    ASSUME NEW I \in Formulas, NEW val
    PROVE  FalseClauses(I, val) = {c \in DOMAIN I : NumTrueLit(I, val, c) = 0}
<1>1. ASSUME NEW c \in DOMAIN I
      PROVE  NumTrueLit(I, val, c) = 0 <=> \A i \in DOMAIN I[c] : ~IsLitTrue(val, I[c][i])
  <2> DEFINE S == {i \in DOMAIN I[c] : IsLitTrue(val, I[c][i])}
  <2>1. IsFiniteSet(S)
    BY FormulaType, FS_Subset
  <2>2. Cardinality(S) = 0 <=> S = {}
    <3> HIDE DEF S
    <3> QED BY <2>1, FS_EmptySet
  <2> QED BY <2>2 DEF NumTrueLit
<1> QED BY <1>1 DEF FalseClauses

(* What a run that starts anew computes is exact, with the weights and the *)
(* cost it was given.                                                      *)
THEOREM InitIsExact ==
    ASSUME NumVarAssumption, NEW I \in Formulas, NEW val \in [Vars -> BOOLEAN],
           NEW weight \in Weights(I), ~KeepsCrit => \A c \in DOMAIN I : weight[c] = 0,
           NEW t, t = InitState(I, val, weight)
    PROVE  /\ Exact(I, t) /\ t.val = val /\ t.weight = weight /\ t.sum = Total(weight)
           /\ t.head = NoVar
           /\ t.falseW = IF KeepsCost THEN WeightOf(weight, FalseClauses(I, val)) ELSE 0
<1> DEFINE N == [c \in DOMAIN I |-> NumTrueLit(I, val, c)]
           C == [c \in DOMAIN I |-> IF KeepsCrit /\ N[c] = 1 THEN FirstTrueVar(I, val, c)
                                    ELSE NoVar]
           U == Units(I)
           count == InitCounts(I, N, C, U)
           heavy == InitCounts(I, N, C, weight)
           falses == Listed({c \in DOMAIN I : N[c] = 0}, Len(I))
           listed == Listed({u \in Vars : KeepsVars /\ count.make[u] > 0}, NumVar)
           falseW == IF KeepsCost THEN WeightOf(weight, {c \in DOMAIN I : N[c] = 0}) ELSE 0
           change == [u \in Indices |-> IF KeepsChange /\ u # NoVar THEN -NumVar ELSE 0]
<1>1. t = [val |-> val, numTrue |-> N, falses |-> falses, crit |-> C,
           break |-> count.break, make |-> count.make,
           breakW |-> heavy.break, makeW |-> heavy.make, vars |-> listed,
           weight |-> weight, sum |-> Total(weight), falseW |-> falseW,
           head |-> NoVar, change |-> change]
  BY DEF InitState, Units
<1>2. /\ DOMAIN I = 1..Len(I) /\ Len(I) \in Nat /\ IsFiniteSet(DOMAIN I)
      /\ NumVar \in Nat /\ Vars = 1..NumVar
  BY FormulaType DEF Vars, NumVarAssumption
<1>3. \A c \in DOMAIN I : /\ NumTrueLit(I, val, c) \in Nat
                           /\ FirstTrueVar(I, val, c) \in Indices
  BY FirstTrue
<1>4. /\ N \in [DOMAIN I -> Int] /\ \A c \in DOMAIN I : N[c] = NumTrueLit(I, val, c)
      /\ C \in [DOMAIN I -> Indices]
      /\ KeepsCrit => \A c \in DOMAIN I : N[c] = 1 => C[c] = FirstTrueVar(I, val, c)
  <2>1. N \in [DOMAIN I -> Int] /\ \A c \in DOMAIN I : N[c] = NumTrueLit(I, val, c)
    BY <1>3
  <2> HIDE DEF N
  <2>2. NoVar \in Indices
    BY <1>2 DEF NoVar, Indices
  <2> QED BY <1>3, <2>1, <2>2
<1>5. U \in [DOMAIN I -> Int] /\ weight \in [DOMAIN I -> Int]
  BY UnitsType, UnitType DEF Units, Weights
<1> HIDE DEF N, C, U
<1>6. t.numTrue = N /\ t.crit = C
  BY <1>1
<1>7. /\ count.break \in [Indices -> Int] /\ count.make \in [Indices -> Int]
      /\ \A u \in Indices : /\ count.break[u] = BreakOf(I, t, U, {}, u)
                            /\ count.make[u] = MakeOf(I, t, U, u)
  BY <1>4, <1>5, <1>6, InitCountsAre
<1>8. /\ heavy.break \in [Indices -> Int] /\ heavy.make \in [Indices -> Int]
      /\ \A u \in Indices : /\ heavy.break[u] = BreakOf(I, t, weight, {}, u)
                            /\ heavy.make[u] = MakeOf(I, t, weight, u)
  BY <1>4, <1>5, <1>6, InitCountsAre
<1>9. falses \in Lists(DOMAIN I) /\ Represents(falses, {c \in DOMAIN I : N[c] = 0})
  BY <1>2, ListedIs
<1>10. /\ listed \in Lists(Vars)
       /\ Represents(listed, {u \in Vars : KeepsVars /\ count.make[u] > 0})
  BY <1>2, ListedIs
<1> HIDE DEF count, heavy, falses, listed
<1>11. Total(weight) \in Int /\ falseW \in Int
  <2>1. Total(weight) \in Int
    BY <1>2, <1>5, TotalType
  <2> DEFINE S == {c \in DOMAIN I : N[c] = 0}
             w == [c \in S |-> weight[c]]
  <2>2. S \subseteq DOMAIN I /\ w \in [S -> Int]
    BY <1>5
  <2> HIDE DEF S, w
  <2>3. Total(w) \in Int
    BY <1>2, <2>2, FS_Subset, TotalType
  <2> QED BY <2>1, <2>3 DEF WeightOf, S, w
<1>12. falseW = IF KeepsCost THEN WeightOf(weight, FalseClauses(I, val)) ELSE 0
  <2>1. {c \in DOMAIN I : N[c] = 0} = FalseClauses(I, val)
    BY <1>4, FalseIs
  <2> QED BY <2>1
<1>13. change \in [Indices -> Int]
  BY <1>2
<1> HIDE DEF falseW, change
<1>14. t \in States(I)
  <2>1. NoVar \in Indices
    BY <1>2 DEF NoVar, Indices
  <2> QED BY <1>1, <1>4, <1>7, <1>8, <1>9, <1>10, <1>11, <1>13, <2>1 DEF States, Weights
<1>15. /\ t.val = val /\ t.falses = falses /\ t.break = count.break /\ t.make = count.make
       /\ t.breakW = heavy.break /\ t.makeW = heavy.make /\ t.vars = listed
       /\ t.weight = weight /\ t.sum = Total(weight) /\ t.falseW = falseW /\ t.head = NoVar
  BY <1>1
<1>16. \A u \in Vars : u \in Indices
  BY <1>2 DEF Indices
<1>17. ListOK(I, t)
  BY <1>3, <1>4, <1>6, <1>9, <1>15 DEF ListOK
<1>18. MakeOK(I, t)
  <2>1. KeepsVars => {u \in Vars : KeepsVars /\ count.make[u] > 0} = {u \in Vars : t.make[u] > 0}
    BY <1>15
  <2>2. VarsKept(t)
    BY <1>10, <1>15, <2>1 DEF VarsKept
  <2> QED BY <1>7, <1>8, <1>15, <1>16, <2>2 DEF MakeOK, U
<1>19. BreakOK(I, t, {})
  <2>1. ASSUME NEW u \in Vars
        PROVE  /\ t.break[u] = BreakOf(I, t, Units(I), {}, u)
               /\ t.breakW[u] = BreakOf(I, t, t.weight, {}, u)
               /\ t.break[u] \in Int /\ t.breakW[u] \in Int
    BY <1>7, <1>8, <1>15, <1>16 DEF U
  <2> QED BY <2>1 DEF BreakOK
<1>20. Consistent(I, t, {})
  BY <1>15, <1>17, <1>18, <1>19 DEF Consistent, WeightOK
<1>21. Numbers(I, t) /\ CritOK(I, t)
  BY <1>4, <1>6, <1>15 DEF Numbers, CritOK
<1> QED BY <1>12, <1>14, <1>15, <1>20, <1>21 DEF Exact

-----------------------------------------------------------------------------
(* What the counts mean in a formula whose clauses hold no variable twice. *)

(* A variable occurs in its two literals. *)
LEMMA VarTimesIs ==
    ASSUME NumVarAssumption, NEW I \in Formulas, NEW c \in DOMAIN I, NEW l \in Literals
    PROVE  VarTimes(I, c, Var(l)) = Times(I, c, l) + Times(I, c, -l)
<1> DEFINE A == LitAt(I, c, l)
           B == LitAt(I, c, -l)
           C == {i \in DOMAIN I[c] : Var(I[c][i]) = Var(l)}
<1>1. /\ Times(I, c, l) = Cardinality(A) /\ Times(I, c, -l) = Cardinality(B)
      /\ VarTimes(I, c, Var(l)) = Cardinality(C)
  BY DEF Times, VarTimes, LitAt
<1>2. IsFiniteSet(A) /\ IsFiniteSet(B)
  BY TimesType DEF LitAt
<1>3. C = A \cup B
  <2>1. \A i \in DOMAIN I[c] : Var(I[c][i]) = Var(l) <=> I[c][i] = l \/ I[c][i] = -l
    <3> TAKE i \in DOMAIN I[c]
    <3>1. I[c][i] \in Literals
      BY FormulaType
    <3> QED BY <3>1 DEF Literals, Var, NumVarAssumption
  <2> QED BY <2>1 DEF LitAt
<1>4. A \cap B = {}
  BY LiteralType DEF LitAt
<1> HIDE DEF A, B, C
<1>5. Cardinality(A \cup B) = Cardinality(A) + Cardinality(B) - Cardinality(A \cap B)
  BY <1>2, FS_Union
<1>6. Cardinality(A \cap B) = 0 /\ Cardinality(A) \in Nat /\ Cardinality(B) \in Nat
  BY <1>2, <1>4, FS_EmptySet, FS_CardinalityType
<1> QED BY <1>1, <1>3, <1>5, <1>6

(* In a simple formula u makes the false clauses it is in, and breaks      *)
(* those it alone makes true.                                              *)
LEMMA MakesAndBreaks ==
    ASSUME NumVarAssumption, NEW I \in Formulas, Simple(I), NEW val \in [Vars -> BOOLEAN],
           NEW u \in Vars, NEW c \in DOMAIN I
    PROVE  /\ c \in Makes(I, val, u) <=> NumTrueLit(I, val, c) = 0 /\ VarTimes(I, c, u) = 1
           /\ VarTimes(I, c, u) \in {0, 1}
           /\ c \in Breaks(I, val, u)
                 <=> NumTrueLit(I, val, c) = 1 /\ FirstTrueVar(I, val, c) = u
<1> DEFINE l == TrueLit(val, u)
           new == Turned(val, u)
           a == NumTrueLit(I, val, c)
           b == NumTrueLit(I, new, c)
           m == Times(I, c, l)
           n == Times(I, c, -l)
<1>1. /\ l \in Literals /\ -l \in Literals /\ Var(l) = u
      /\ new \in [Vars -> BOOLEAN] /\ ~IsLitTrue(val, -l)
      /\ \A x \in Literals : Var(x) = u => x = l \/ x = -l
  BY TurnedIs
<1>2. b = a - m + n /\ m <= a
      /\ (a = m /\ m # 0 => FirstTrueVar(I, val, c) = u)
  BY TurnedCounts
<1>3. m + n <= 1 /\ VarTimes(I, c, u) = m + n
  BY <1>1, SimpleTimes, VarTimesIs
<1>4. m \in Nat /\ n \in Nat /\ a \in Nat
  BY <1>1, TimesType, FirstTrue
<1>5. /\ c \in FalseClauses(I, val) <=> a = 0
      /\ c \in FalseClauses(I, new) <=> b = 0
  BY FalseIs
<1>6. ASSUME a = 1, FirstTrueVar(I, val, c) = u PROVE m # 0
  <2>0. NumTrueLit(I, val, c) # 0 /\ FirstTrueVar(I, val, c) = u
    BY <1>6
  <2> HIDE DEF a, b, m, n, l, new
  <2>1. PICK i \in DOMAIN I[c] : /\ IsLitTrue(val, I[c][i])
                                 /\ FirstTrueVar(I, val, c) = Var(I[c][i])
    BY <2>0, FirstTrue
  <2>2. I[c][i] \in Literals
    BY FormulaType
  <2>3. I[c][i] = l
    BY <1>1, <2>0, <2>1, <2>2
  <2> DEFINE S == {j \in DOMAIN I[c] : I[c][j] = l}
  <2>4. i \in S /\ IsFiniteSet(S)
    <3>1. IsFiniteSet(S)
      BY FormulaType, FS_Subset
    <3> QED BY <2>3, <3>1
  <2>5. Cardinality(S) # 0
    <3> HIDE DEF S
    <3> QED BY <2>4, FS_EmptySet
  <2> QED BY <2>5 DEF Times, m
<1> HIDE DEF a, b, m, n, l, new
<1>7. VarTimes(I, c, u) \in {0, 1}
  BY <1>3, <1>4
<1>8. a = 0 /\ b # 0 <=> a = 0 /\ VarTimes(I, c, u) = 1
  BY <1>2, <1>3, <1>4
<1>9. b = 0 /\ a # 0 <=> a = 1 /\ FirstTrueVar(I, val, c) = u
  BY <1>2, <1>3, <1>4, <1>6
<1>10. c \in Makes(I, val, u) <=> a = 0 /\ b # 0
  BY <1>5 DEF Makes, new
<1>11. c \in Breaks(I, val, u) <=> b = 0 /\ a # 0
  BY <1>5 DEF Breaks, new
<1> QED BY <1>7, <1>8, <1>9, <1>10, <1>11 DEF a

(* Adding the same for every member counts them. *)
LEMMA TotalUnit ==
    ASSUME NEW S, IsFiniteSet(S), NEW C \in SUBSET S, NEW k \in Int,
           NEW f \in [S -> Int], \A y \in S : f[y] = IF y \in C THEN k ELSE 0
    PROVE  Total(f) = k * Cardinality(C)
<1> DEFINE z == [y \in S |-> 0]
           g == [y \in S |-> IF y \in C THEN 1 ELSE 0]
<1>1. z \in [S -> Int] /\ g \in [S -> Int]
  OBVIOUS
<1>2. \A y \in S : f[y] = z[y] + k * g[y]
  OBVIOUS
<1>3. \A y \in S : z[y] = 0 /\ g[y] = IF y \in C THEN 1 ELSE 0
  OBVIOUS
<1> HIDE DEF z, g
<1>4. Total(f) = Total(z) + k * Total(g)
  BY <1>1, <1>2, TotalLinear
<1>5. Total(z) = 0
  BY <1>1, <1>3, TotalZero
<1>6. Total(g) = Cardinality(C)
  BY <1>1, <1>3, TotalCount
<1>7. Cardinality(C) \in Nat
  BY FS_Subset, FS_CardinalityType
<1> QED BY <1>4, <1>5, <1>6, <1>7

(* The number of clauses that a flip of u makes, and breaks, where the     *)
(* algorithm keeps it, and their weights.                                  *)
CountsAre(I, s) ==
    /\ \A u \in Vars :
          /\ s.make[u]   = Unit * Cardinality(Makes(I, s.val, u))
          /\ s.break[u]  = Unit * Cardinality(Breaks(I, s.val, u))
          /\ s.makeW[u]  = WeightOf(s.weight, Makes(I, s.val, u))
          /\ s.breakW[u] = WeightOf(s.weight, Breaks(I, s.val, u))
    /\ KeepsVars => Represents(s.vars, {u \in Vars : Makes(I, s.val, u) # {}})

(* The sums of the counts are over the clauses that a flip makes and       *)
(* breaks.                                                                 *)
LEMMA SumsAre ==
    ASSUME NumVarAssumption, NEW I \in Formulas, NEW s, Exact(I, s), Simple(I), NEW u \in Vars,
           NEW q \in [DOMAIN I -> Int], ~KeepsCrit => \A c \in DOMAIN I : q[c] = 0
    PROVE  /\ \A c \in DOMAIN I :
                 /\ Demand(I, s, q, c, u) = IF c \in Makes(I, s.val, u) THEN q[c] ELSE 0
                 /\ Credit(s, q, {}, c, u) = IF c \in Breaks(I, s.val, u) THEN q[c] ELSE 0
           /\ MakeOf(I, s, q, u) = WeightOf(q, Makes(I, s.val, u))
           /\ BreakOf(I, s, q, {}, u) = WeightOf(q, Breaks(I, s.val, u))
<1> DEFINE M == Makes(I, s.val, u)
           B == Breaks(I, s.val, u)
           f == [c \in DOMAIN I |-> Demand(I, s, q, c, u)]
           g == [c \in DOMAIN I |-> Credit(s, q, {}, c, u)]
           onM == [c \in M |-> q[c]]
           onB == [c \in B |-> q[c]]
<1>1. s \in States(I) /\ Numbers(I, s) /\ CritOK(I, s) /\ s.val \in [Vars -> BOOLEAN]
  BY DEF Exact, States
<1>2. ASSUME NEW c \in DOMAIN I
      PROVE  /\ Demand(I, s, q, c, u) = IF c \in M THEN q[c] ELSE 0
             /\ Credit(s, q, {}, c, u) = IF c \in B THEN q[c] ELSE 0
  <2>1. /\ c \in M <=> NumTrueLit(I, s.val, c) = 0 /\ VarTimes(I, c, u) = 1
        /\ VarTimes(I, c, u) \in {0, 1}
        /\ c \in B <=> NumTrueLit(I, s.val, c) = 1 /\ FirstTrueVar(I, s.val, c) = u
    BY <1>1, MakesAndBreaks
  <2>2. NumTrueLit(I, s.val, c) \in Nat /\ s.numTrue[c] = NumTrueLit(I, s.val, c)
    BY <1>1, FirstTrue DEF Numbers
  <2>3. KeepsCrit /\ s.numTrue[c] = 1 => s.crit[c] = FirstTrueVar(I, s.val, c)
    BY <1>1 DEF CritOK
  <2> HIDE DEF M, B
  <2>4. Demand(I, s, q, c, u) = IF c \in M THEN q[c] ELSE 0
    BY <2>1, <2>2 DEF Demand
  <2>5. Credit(s, q, {}, c, u) = IF c \in B THEN q[c] ELSE 0
    BY <2>1, <2>2, <2>3 DEF Credit
  <2> QED BY <2>4, <2>5
<1>3. M \in SUBSET (DOMAIN I) /\ B \in SUBSET (DOMAIN I) /\ IsFiniteSet(DOMAIN I)
  BY FormulaType DEF Makes, Breaks, FalseClauses
<1>4. f \in [DOMAIN I -> Int] /\ g \in [DOMAIN I -> Int]
  BY <1>2
<1>5. onM \in [M -> Int] /\ onB \in [B -> Int]
  BY <1>3
<1>6. /\ \A c \in DOMAIN I : f[c] = IF c \in M THEN onM[c] ELSE 0
      /\ \A c \in DOMAIN I : g[c] = IF c \in B THEN onB[c] ELSE 0
  BY <1>2
<1>7. /\ MakeOf(I, s, q, u) = Total(f) /\ BreakOf(I, s, q, {}, u) = Total(g)
      /\ WeightOf(q, M) = Total(onM) /\ WeightOf(q, B) = Total(onB)
  BY DEF MakeOf, BreakOf, WeightOf
<1>8. Total(f) = Total(onM)
  <2> HIDE DEF f, onM, M
  <2> QED BY <1>3, <1>4, <1>5, <1>6, TotalWhere
<1>9. Total(g) = Total(onB)
  <2> HIDE DEF g, onB, B
  <2> QED BY <1>3, <1>4, <1>5, <1>6, TotalWhere
<1> QED BY <1>2, <1>7, <1>8, <1>9

(* Weighing with units is counting. *)
LEMMA WeightOfUnits ==
    ASSUME NEW I \in Formulas, NEW C \in SUBSET (DOMAIN I)
    PROVE  WeightOf(Units(I), C) = Unit * Cardinality(C)
<1> DEFINE w == [c \in C |-> Units(I)[c]]
<1>1. IsFiniteSet(C)
  BY FormulaType, FS_Subset
<1>2. Unit \in Int /\ \A c \in C : Units(I)[c] = Unit
  BY UnitType DEF Units
<1>3. w \in [C -> Int] /\ \A c \in C : w[c] = IF c \in C THEN Unit ELSE 0
  BY <1>2
<1> HIDE DEF w
<1>4. Total(w) = Unit * Cardinality(C)
  BY <1>1, <1>2, <1>3, TotalUnit
<1> QED BY <1>4 DEF WeightOf, w

(* What an exact state counts. *)
THEOREM ExactCounts ==
    ASSUME NumVarAssumption, NEW I \in Formulas, NEW s, Exact(I, s), Simple(I)
    PROVE  CountsAre(I, s)
<1>1. /\ s \in States(I) /\ MakeOK(I, s) /\ BreakOK(I, s, {}) /\ WeightOK(I, s)
      /\ Units(I) \in [DOMAIN I -> Int] /\ s.weight \in [DOMAIN I -> Int]
  BY UnitsType DEF Exact, Consistent
<1>2. ~KeepsCrit => \A c \in DOMAIN I : Units(I)[c] = 0 /\ s.weight[c] = 0
  BY <1>1, UnitsType, UnitType DEF WeightOK
<1>3. ASSUME NEW u \in Vars
      PROVE  /\ s.make[u]   = Unit * Cardinality(Makes(I, s.val, u))
             /\ s.break[u]  = Unit * Cardinality(Breaks(I, s.val, u))
             /\ s.makeW[u]  = WeightOf(s.weight, Makes(I, s.val, u))
             /\ s.breakW[u] = WeightOf(s.weight, Breaks(I, s.val, u))
  <2>1. /\ MakeOf(I, s, Units(I), u) = WeightOf(Units(I), Makes(I, s.val, u))
        /\ BreakOf(I, s, Units(I), {}, u) = WeightOf(Units(I), Breaks(I, s.val, u))
    BY <1>1, <1>2, SumsAre
  <2>2. /\ MakeOf(I, s, s.weight, u) = WeightOf(s.weight, Makes(I, s.val, u))
        /\ BreakOf(I, s, s.weight, {}, u) = WeightOf(s.weight, Breaks(I, s.val, u))
    BY <1>1, <1>2, SumsAre
  <2>3. Makes(I, s.val, u) \in SUBSET (DOMAIN I) /\ Breaks(I, s.val, u) \in SUBSET (DOMAIN I)
    BY DEF Makes, Breaks, FalseClauses
  <2>4. /\ WeightOf(Units(I), Makes(I, s.val, u)) = Unit * Cardinality(Makes(I, s.val, u))
        /\ WeightOf(Units(I), Breaks(I, s.val, u)) = Unit * Cardinality(Breaks(I, s.val, u))
    BY <2>3, WeightOfUnits
  <2> QED BY <1>1, <2>1, <2>2, <2>4 DEF MakeOK, BreakOK
<1>4. ASSUME KeepsVars PROVE Represents(s.vars, {u \in Vars : Makes(I, s.val, u) # {}})
  <2>1. Represents(s.vars, {u \in Vars : s.make[u] > 0})
    BY <1>1, <1>4 DEF MakeOK, VarsKept
  <2>2. ASSUME NEW u \in Vars PROVE s.make[u] > 0 <=> Makes(I, s.val, u) # {}
    <3> DEFINE M == Makes(I, s.val, u)
    <3>1. IsFiniteSet(M)
      <4>1. M \in SUBSET (DOMAIN I) /\ IsFiniteSet(DOMAIN I)
        BY FormulaType DEF Makes, FalseClauses
      <4> HIDE DEF M
      <4> QED BY <4>1, FS_Subset
    <3>2. s.make[u] = Unit * Cardinality(M) /\ Unit = 1
      BY <1>3, <1>4, UnitType
    <3> HIDE DEF M
    <3>3. Cardinality(M) \in Nat /\ (Cardinality(M) = 0 <=> M = {})
      BY <3>1, FS_EmptySet, FS_CardinalityType
    <3> QED BY <3>2, <3>3 DEF M
  <2>3. {u \in Vars : s.make[u] > 0} = {u \in Vars : Makes(I, s.val, u) # {}}
    BY <2>2
  <2> QED BY <2>1, <2>3
<1> QED BY <1>3, <1>4 DEF CountsAre

(* No score exceeds the number of clauses. *)
LEMMA ScoreBound ==
    ASSUME NumVarAssumption, NEW I \in Formulas, NEW s, Exact(I, s), NEW u \in Vars
    PROVE  s.break[u] - s.make[u] <= Len(I) /\ s.break[u] \in Int /\ s.make[u] \in Nat
<1> DEFINE f == [c \in DOMAIN I |-> Credit(s, Units(I), {}, c, u)]
           g == [c \in DOMAIN I |-> Demand(I, s, Units(I), c, u)]
           one == [c \in DOMAIN I |-> 1]
           zero == [c \in DOMAIN I |-> 0]
<1>1. s \in States(I) /\ MakeOK(I, s) /\ BreakOK(I, s, {}) /\ s.break[u] \in Int
  BY CountTypes DEF Exact, Consistent
<1>2. /\ s.break[u] <= Total(f) /\ s.make[u] = Total(g)
      /\ s.make[u] \in Int
  BY <1>1, CountTypes DEF BreakOK, MakeOK, BreakOf, MakeOf
<1>3. /\ Units(I) \in [DOMAIN I -> Int] /\ \A c \in DOMAIN I : Units(I)[c] \in {0, 1}
  BY <1>1, UnitsType, UnitType
<1>4. \A c \in DOMAIN I : Credit(s, Units(I), {}, c, u) \in {0, 1}
  BY <1>3 DEF Credit
<1>5. ASSUME NEW c \in DOMAIN I PROVE Demand(I, s, Units(I), c, u) \in Nat
  <2>1. VarTimes(I, c, u) \in Nat /\ Units(I)[c] \in {0, 1}
    BY <1>3, TimesType
  <2>2. Units(I)[c] * VarTimes(I, c, u) \in Nat
    BY <2>1
  <2> QED BY <2>2 DEF Demand
<1>6. /\ IsFiniteSet(DOMAIN I) /\ f \in [DOMAIN I -> Int] /\ g \in [DOMAIN I -> Int]
      /\ one \in [DOMAIN I -> Int] /\ zero \in [DOMAIN I -> Int]
      /\ \A c \in DOMAIN I : f[c] <= one[c] /\ zero[c] <= g[c] /\ zero[c] = 0
      /\ \A c \in DOMAIN I : one[c] = IF c \in DOMAIN I THEN 1 ELSE 0
  BY <1>4, <1>5, FormulaType
<1> HIDE DEF f, g, one, zero
<1>7. Total(f) <= Total(one) /\ Total(zero) <= Total(g) /\ Total(zero) = 0
  <2>1. Total(f) <= Total(one)
    BY <1>6, TotalOrder
  <2>2. Total(zero) <= Total(g)
    BY <1>6, TotalOrder
  <2>3. Total(zero) = 0
    BY <1>6, TotalZero
  <2> QED BY <2>1, <2>2, <2>3
<1>8. Total(one) = Len(I)
  <2>1. Total(one) = Cardinality(DOMAIN I)
    BY <1>6, TotalCount
  <2>2. Cardinality(1..Len(I)) = Len(I)
    <3> DEFINE n == Len(I)
    <3>1. n \in Nat
      OBVIOUS
    <3> HIDE DEF n
    <3>2. Cardinality(1..n) = IF 1 > n THEN 0 ELSE n - 1 + 1
      BY <3>1, FS_Interval
    <3> QED BY <3>1, <3>2 DEF n
  <2> QED BY <2>1, <2>2, FormulaType
<1>9. Total(f) \in Int /\ Total(g) \in Int
  BY <1>6, TotalType
<1> QED BY <1>1, <1>2, <1>7, <1>8, <1>9

-----------------------------------------------------------------------------
(* The penalties of SAPS. *)

(* One turn of MakeMore. *)
More(t, l, d) == [t EXCEPT !.makeW[Var(l)] = @ + d]

(* A make weight that grows remains one. *)
LEMMA MoreType ==
    ASSUME NumVarAssumption, NEW I, NEW t \in States(I), NEW l \in Literals, NEW d \in Int
    PROVE  More(t, l, d) \in States(I)
<1> DEFINE x == [t.makeW EXCEPT ![Var(l)] = @ + d]
<1>1. Var(l) \in Indices
  BY LiteralType DEF Vars, Indices, NumVarAssumption
<1>2. x \in [Indices -> Int]
  BY <1>1 DEF States
<1>3. More(t, l, d) = [t EXCEPT !.makeW = x]
  BY DEF More
<1> HIDE DEF x
<1> QED BY <1>2, <1>3 DEF States

(* The make weights of a clause grow literal by literal. *)
LEMMA MakeMoreLoop ==
    ASSUME NumVarAssumption, NEW I \in Formulas, NEW s \in States(I), NEW c \in DOMAIN I,
           NEW d \in Int
    PROVE  \E G \in [0..Len(I[c]) -> States(I)] :
              /\ G[0] = s
              /\ \A k \in 1..Len(I[c]) : G[k] = More(G[k - 1], I[c][k], d)
              /\ MakeMore(I, s, c, d) = G[Len(I[c])]
<1> DEFINE n == Len(I[c])
           A == States(I)
           base == s
           each == I[c]
           Turn(t, e) == More(t, e, d)
           turn == [k \in 1..n |-> [t \in A |-> Turn(t, each[k])]]
           it == CHOOSE g : g = [t \in SUBSET (1..n) |-> IF t = {} THEN base
                                        ELSE Turn(g[t \ {Max(t)}], each[Max(t)])]
<1>1. n \in Nat /\ base \in A /\ DOMAIN each = 1..n
  BY FormulaType
<1>2. turn \in Turns(n, A)
  <2> SUFFICES ASSUME NEW k \in 1..n, NEW t \in A PROVE Turn(t, each[k]) \in A
    BY DEF Turns
  <2>1. each[k] \in Literals
    BY FormulaType
  <2> HIDE DEF each, n
  <2> QED BY <2>1, MoreType
<1>3. MakeMore(I, s, c, d) = it[1..n]
  BY <1>1, Zenon DEF MakeMore, More, FoldLeft, MapThenFoldSet
<1> HIDE DEF n, A, base, each, Turn
<1>4. 1..n \subseteq Nat /\ IsFiniteSet(1..n)
  BY <1>1, FS_Interval
<1>5. \A t \in SUBSET (1..n) : t # {} => Max(t) \in 1..n
  BY <1>4, FS_Subset, MaxUpTo
<1>6. it = [t \in SUBSET (1..n) |-> IF t = {} THEN base
                                  ELSE Turn(it[t \ {Max(t)}], each[Max(t)])]
  <2>1. PICK g : IsLoop(g, n, A, base, turn)
    <3> HIDE DEF turn
    <3> QED BY <1>1, <1>2, LoopExists
  <2>2. g = [t \in SUBSET (1..n) |-> IF t = {} THEN base
                                    ELSE Turn(g[t \ {Max(t)}], each[Max(t)])]
    BY <1>5, <2>1 DEF IsLoop
  <2> QED BY <2>2
<1> HIDE DEF it
<1>7. Iterates(it, n, A, base, turn)
  BY <1>5, <1>6 DEF Iterates
<1>8. PICK G : Values(G, n, A, base, turn) /\ G[n] = it[1..n]
  <2> HIDE DEF turn
  <2> QED BY <1>1, <1>2, <1>7, LoopValues
<1>9. G \in [0..n -> A] /\ G[0] = base
  BY <1>8 DEF Values
<1>10. \A k \in 1..n : G[k] = Turn(G[k - 1], each[k])
  <2> TAKE k \in 1..n
  <2>1. k - 1 \in 0..n
    BY <1>1
  <2>2. G[k - 1] \in A
    BY <1>9, <2>1
  <2>3. G[k] = turn[k][G[k - 1]]
    BY <1>8 DEF Values
  <2> QED BY <1>1, <2>2, <2>3
<1> HIDE DEF turn
<1> QED BY <1>3, <1>8, <1>9, <1>10 DEF n, A, base, each, Turn

(* Only the penalties that the variables make and break change. *)
SameButWeights(s, t) ==
    /\ t.val = s.val /\ t.numTrue = s.numTrue /\ t.falses = s.falses /\ t.crit = s.crit
    /\ t.break = s.break /\ t.make = s.make /\ t.vars = s.vars /\ t.weight = s.weight
    /\ t.sum = s.sum /\ t.falseW = s.falseW /\ t.head = s.head /\ t.change = s.change

(* They grow once for each occurrence of the variable. *)
LEMMA MakeMoreIs ==
    ASSUME NumVarAssumption, NEW I \in Formulas, NEW s \in States(I), NEW c \in DOMAIN I,
           NEW d \in Int, NEW t, t = MakeMore(I, s, c, d)
    PROVE  /\ t \in States(I) /\ SameButWeights(s, t) /\ t.breakW = s.breakW
           /\ \A u \in Vars : t.makeW[u] = s.makeW[u] + d * VarTimes(I, c, u)
<1>1. PICK G \in [0..Len(I[c]) -> States(I)] :
         /\ G[0] = s
         /\ \A k \in 1..Len(I[c]) : G[k] = More(G[k - 1], I[c][k], d)
         /\ MakeMore(I, s, c, d) = G[Len(I[c])]
  BY MakeMoreLoop
<1> DEFINE n == Len(I[c])
           X(u) == {i \in DOMAIN I[c] : Var(I[c][i]) = u}
           P(k, u) == Cardinality(X(u) \cap 1..k)
           Inv(k) == /\ SameButWeights(s, G[k]) /\ G[k].breakW = s.breakW
                     /\ \A u \in Vars : G[k].makeW[u] = s.makeW[u] + d * P(k, u)
           T == {k \in 0..n : Inv(k)}
<1>2. n \in Nat /\ DOMAIN I[c] = 1..n
  BY FormulaType
<1>3. s.makeW \in [Indices -> Int] /\ Vars \subseteq Indices
  <2>1. s.makeW \in [Indices -> Int]
    BY DEF States
  <2>2. Vars \subseteq Indices
    BY DEF Indices, Vars
  <2> QED BY <2>1, <2>2
<1>4. ASSUME NEW k \in 0..n, NEW u
      PROVE  P(k, u) \in Nat /\ (k = n => P(k, u) = VarTimes(I, c, u))
  <2>1. IsFiniteSet(X(u)) /\ VarTimes(I, c, u) = Cardinality(X(u))
    BY TimesType DEF VarTimes
  <2>2. X(u) \cap 1..k \subseteq X(u)
    OBVIOUS
  <2>3. k = n => X(u) \cap 1..k = X(u)
    <3>1. X(u) \subseteq 1..n
      BY <1>2
    <3> HIDE DEF n, X
    <3> QED BY <3>1, Zenon
  <2> HIDE DEF X
  <2>4. Cardinality(X(u) \cap 1..k) \in Nat
    BY <2>1, <2>2, FS_Subset, FS_CardinalityType
  <2> QED BY <2>1, <2>3, <2>4
<1>5. 0 \in T
  <2>1. \A u : X(u) \cap 1..0 = {}
    OBVIOUS
  <2>2. \A u : P(0, u) = 0
    BY <2>1, FS_EmptySet
  <2> HIDE DEF P
  <2>3. Inv(0)
    BY <1>1, <1>3, <2>2 DEF SameButWeights
  <2> QED BY <1>2, <2>3
<1>6. ASSUME NEW k \in 1..n, k - 1 \in T PROVE k \in T
  <2> DEFINE r == G[k - 1]
             v == Var(I[c][k])
  <2>1. k - 1 \in 0..n /\ k \in 0..n /\ k \in DOMAIN I[c] /\ k \in Nat /\ k # 0
    BY <1>2
  <2>2. r \in States(I) /\ Inv(k - 1) /\ G[k] = [r EXCEPT !.makeW[v] = @ + d]
    BY <1>1, <1>6, <2>1 DEF More
  <2>3. v \in Vars
    BY <2>1, FormulaType, LiteralType
  <2>4. ASSUME NEW u PROVE P(k, u) = P(k - 1, u) + (IF u = v THEN 1 ELSE 0)
    <3>1. k \in X(u) <=> u = v
      BY <2>1
    <3> HIDE DEF X, v
    <3> QED BY <2>1, <3>1, CountNext
  <2>5. \A u \in Vars : P(k - 1, u) \in Nat
    BY <1>4, <2>1
  <2>6. /\ SameButWeights(s, r) /\ r.breakW = s.breakW
        /\ \A u \in Vars : r.makeW[u] = s.makeW[u] + d * P(k - 1, u)
    BY <2>2
  <2> HIDE DEF P, X, r, v
  <2>7. SameButWeights(s, G[k]) /\ G[k].breakW = s.breakW
    BY <2>2, <2>6 DEF SameButWeights
  <2>8. G[k].makeW = [r.makeW EXCEPT ![v] = @ + d] /\ r.makeW \in [Indices -> Int]
    BY <2>2 DEF States
  <2>9. ASSUME NEW u \in Vars PROVE G[k].makeW[u] = s.makeW[u] + d * P(k, u)
    <3> DEFINE p == P(k - 1, u)
    <3>1. p \in Nat /\ r.makeW[u] = s.makeW[u] + d * p /\ s.makeW[u] \in Int /\ u \in Indices
      BY <1>3, <2>5, <2>6
    <3>2. P(k, u) = p + (IF u = v THEN 1 ELSE 0)
      BY <2>4
    <3> HIDE DEF p
    <3>3. d * (p + 1) = d * p + d /\ d * p \in Int
      BY <3>1
    <3>4. CASE u = v
      BY <2>8, <3>1, <3>2, <3>3, <3>4
    <3>5. CASE u # v
      BY <2>8, <3>1, <3>2, <3>5
    <3> QED BY <3>4, <3>5
  <2>10. Inv(k)
    BY <2>7, <2>9
  <2> HIDE DEF Inv
  <2> QED BY <2>1, <2>10
<1>7. n \in T
  <2> HIDE DEF n, T
  <2>1. \A k \in 0..n : k \in T
    BY <1>2, <1>5, <1>6, UpTo
  <2> QED BY <1>2, <2>1
<1>8. Inv(n) /\ t = G[n] /\ G[n] \in States(I)
  BY <1>1, <1>2, <1>7
<1> HIDE DEF P
<1>9. \A u \in Vars : P(n, u) = VarTimes(I, c, u)
  <2>1. n \in 0..n
    BY <1>2
  <2> QED BY <1>4, <2>1
<1> QED BY <1>8, <1>9

Grew(I, s, r, t, c, d) ==
    /\ SameButWeights(r, t)
    /\ \A u \in Vars :
          /\ t.makeW[u] = r.makeW[u]
                            + (IF s.numTrue[c] = 0 THEN d * VarTimes(I, c, u) ELSE 0)
          /\ t.breakW[u] = r.breakW[u]
                            + (IF s.numTrue[c] = 1 /\ s.crit[c] = u THEN d ELSE 0)

(* A clause that grows heavier counts for those who make or break it. *)
LEMMA GrowIs ==
    ASSUME NumVarAssumption, NEW I \in Formulas, NEW s \in States(I), NEW r \in States(I),
           NEW c \in DOMAIN I, NEW d \in Int, NEW t, t = Grow(I, s, r, c, d)
    PROVE  t \in States(I) /\ Grew(I, s, r, t, c, d)
<1>1. r.makeW \in [Indices -> Int] /\ r.breakW \in [Indices -> Int] /\ Vars \subseteq Indices
      /\ s.crit[c] \in Indices
  <2>1. /\ r.makeW \in [Indices -> Int] /\ r.breakW \in [Indices -> Int]
        /\ s.crit[c] \in Indices
    BY DEF States
  <2>2. Vars \subseteq Indices
    BY DEF Indices, Vars
  <2> QED BY <2>1, <2>2
<1>2. \A u \in Vars : r.makeW[u] \in Int /\ r.breakW[u] \in Int
  BY <1>1
<1>3. CASE s.numTrue[c] = 0
  <2>1. t = MakeMore(I, r, c, d)
    BY <1>3 DEF Grow
  <2>2. /\ t \in States(I) /\ SameButWeights(r, t) /\ t.breakW = r.breakW
        /\ \A u \in Vars : t.makeW[u] = r.makeW[u] + d * VarTimes(I, c, u)
    BY <2>1, MakeMoreIs
  <2> QED BY <1>2, <1>3, <2>2 DEF Grew
<1>4. CASE s.numTrue[c] = 1
  <2> DEFINE x == [r.breakW EXCEPT ![s.crit[c]] = @ + d]
  <2>1. t = [r EXCEPT !.breakW = x]
    BY <1>4 DEF Grow
  <2>2. x \in [Indices -> Int]
        /\ \A u \in Vars : x[u] = r.breakW[u] + (IF s.crit[c] = u THEN d ELSE 0)
    BY <1>1, <1>2
  <2> HIDE DEF x
  <2>3. t \in States(I)
    BY <2>1, <2>2 DEF States
  <2>4. SameButWeights(r, t) /\ t.breakW = x /\ t.makeW = r.makeW
    BY <2>1 DEF SameButWeights, States
  <2> QED BY <1>2, <1>4, <2>2, <2>3, <2>4 DEF Grew
<1>5. CASE s.numTrue[c] # 0 /\ s.numTrue[c] # 1
  <2>1. t = r
    BY <1>5 DEF Grow
  <2> QED BY <1>2, <1>5, <2>1 DEF SameButWeights, Grew
<1> QED BY <1>3, <1>4, <1>5

(* What each clause grows by, and what is left when all have. *)
Growth(I, s, w) == [c \in DOMAIN I |-> w[c] - s.weight[c]]

AllGrown(I, s, w) ==
    LET d == Growth(I, s, w)
        grow(t, c) == Grow(I, s, t, c, d[c])
    IN  FoldLeft(grow, s, [c \in 1..Len(I) |-> c])

(* What a clause grows by is an integer. *)
LEMMA GrowthType ==
    ASSUME NEW I, NEW s \in States(I), NEW w \in [DOMAIN I -> Nat]
    PROVE  Growth(I, s, w) \in [DOMAIN I -> Int]
<1>1. s.weight \in [DOMAIN I -> Nat]
  BY DEF States
<1>2. \A c \in DOMAIN I : w[c] - s.weight[c] \in Int
  BY <1>1
<1> QED BY <1>2 DEF Growth

(* The clauses grow one after the other. *)
LEMMA GrowLoop ==
    ASSUME NumVarAssumption, NEW I \in Formulas, NEW s \in States(I), NEW w \in [DOMAIN I -> Nat]
    PROVE  \E G \in [0..Len(I) -> States(I)] :
              /\ G[0] = s
              /\ \A k \in 1..Len(I) : G[k] = Grow(I, s, G[k - 1], k, Growth(I, s, w)[k])
              /\ AllGrown(I, s, w) = G[Len(I)]
<1> DEFINE n == Len(I)
           A == States(I)
           base == s
           each == [c \in 1..Len(I) |-> c]
           Turn(t, e) == Grow(I, s, t, e, Growth(I, s, w)[e])
           turn == [k \in 1..n |-> [t \in A |-> Turn(t, each[k])]]
           it == CHOOSE g : g = [t \in SUBSET (1..n) |-> IF t = {} THEN base
                                        ELSE Turn(g[t \ {Max(t)}], each[Max(t)])]
<1>1. n \in Nat /\ base \in A /\ DOMAIN each = 1..n /\ \A k \in 1..n : each[k] = k
  BY FormulaType
<1>2. turn \in Turns(n, A)
  <2> SUFFICES ASSUME NEW k \in 1..n, NEW t \in A PROVE Turn(t, each[k]) \in A
    BY DEF Turns
  <2>1. k \in DOMAIN I /\ each[k] = k
    BY FormulaType
  <2>2. Growth(I, s, w)[k] \in Int
    BY <2>1, GrowthType
  <2> HIDE DEF each, n
  <2>3. Grow(I, s, t, k, Growth(I, s, w)[k]) \in States(I)
    BY <2>1, <2>2, GrowIs
  <2> QED BY <2>1, <2>3
<1>3. AllGrown(I, s, w) = it[1..n]
  BY <1>1, Zenon DEF AllGrown, FoldLeft, MapThenFoldSet
<1> HIDE DEF n, A, base, each, Turn
<1>4. 1..n \subseteq Nat /\ IsFiniteSet(1..n)
  BY <1>1, FS_Interval
<1>5. \A t \in SUBSET (1..n) : t # {} => Max(t) \in 1..n
  BY <1>4, FS_Subset, MaxUpTo
<1>6. it = [t \in SUBSET (1..n) |-> IF t = {} THEN base
                                  ELSE Turn(it[t \ {Max(t)}], each[Max(t)])]
  <2>1. PICK g : IsLoop(g, n, A, base, turn)
    <3> HIDE DEF turn
    <3> QED BY <1>1, <1>2, LoopExists
  <2>2. g = [t \in SUBSET (1..n) |-> IF t = {} THEN base
                                    ELSE Turn(g[t \ {Max(t)}], each[Max(t)])]
    BY <1>5, <2>1 DEF IsLoop
  <2> QED BY <2>2
<1> HIDE DEF it
<1>7. Iterates(it, n, A, base, turn)
  BY <1>5, <1>6 DEF Iterates
<1>8. PICK G : Values(G, n, A, base, turn) /\ G[n] = it[1..n]
  <2> HIDE DEF turn
  <2> QED BY <1>1, <1>2, <1>7, LoopValues
<1>9. G \in [0..n -> A] /\ G[0] = base
  BY <1>8 DEF Values
<1>10. \A k \in 1..n : G[k] = Turn(G[k - 1], k)
  <2> TAKE k \in 1..n
  <2>1. k - 1 \in 0..n
    BY <1>1
  <2>2. G[k - 1] \in A
    BY <1>9, <2>1
  <2>3. G[k] = turn[k][G[k - 1]]
    BY <1>8 DEF Values
  <2> QED BY <1>1, <2>2, <2>3
<1> HIDE DEF turn
<1> QED BY <1>3, <1>8, <1>9, <1>10 DEF n, A, base, each, Turn

(* Reweigh in parts. *)
LEMMA ReweighIs ==
    ASSUME NEW I, NEW s, NEW w
    PROVE  Reweigh(I, s, w) = [AllGrown(I, s, w) EXCEPT !.weight = w,
                                                         !.sum = @ + Total(Growth(I, s, w))]
BY Zenon DEF Reweigh, AllGrown, Growth

(* The weights half way: the first k clauses have grown. *)
Half(I, s, w, k) == [c \in DOMAIN I |-> IF c <= k THEN w[c] ELSE s.weight[c]]

(* The weights a and b differ for clause k alone. *)
AlikeBut(I, a, b, k) ==
    /\ a \in [DOMAIN I -> Int] /\ b \in [DOMAIN I -> Int]
    /\ \A c \in DOMAIN I : c # k => b[c] = a[c]

(* Where one clause is heavier, the sums differ by what it adds. *)
LEMMA OneGrows ==
    ASSUME NEW I \in Formulas, NEW s \in States(I), NEW a, NEW b, NEW k \in DOMAIN I, NEW u,
           AlikeBut(I, a, b, k)
    PROVE  /\ MakeOf(I, s, b, u) = MakeOf(I, s, a, u)
                 + Demand(I, s, b, k, u) - Demand(I, s, a, k, u)
           /\ BreakOf(I, s, b, {}, u) = BreakOf(I, s, a, {}, u)
                 + Credit(s, b, {}, k, u) - Credit(s, a, {}, k, u)
<1> DEFINE ma == [c \in DOMAIN I |-> Demand(I, s, a, c, u)]
           mb == [c \in DOMAIN I |-> Demand(I, s, b, c, u)]
           ba == [c \in DOMAIN I |-> Credit(s, a, {}, c, u)]
           bb == [c \in DOMAIN I |-> Credit(s, b, {}, c, u)]
<1>0. /\ a \in [DOMAIN I -> Int] /\ b \in [DOMAIN I -> Int]
      /\ \A c \in DOMAIN I : c # k => b[c] = a[c]
  BY DEF AlikeBut
<1>1. /\ ma \in [DOMAIN I -> Int] /\ mb \in [DOMAIN I -> Int]
      /\ ba \in [DOMAIN I -> Int] /\ bb \in [DOMAIN I -> Int]
  BY <1>0, SumTypes
<1>2. \A c \in DOMAIN I : c # k => mb[c] = ma[c]
  BY <1>0 DEF Demand
<1>3. \A c \in DOMAIN I : c # k => bb[c] = ba[c]
  BY <1>0 DEF Credit
<1>4. /\ ma[k] = Demand(I, s, a, k, u) /\ mb[k] = Demand(I, s, b, k, u)
      /\ ba[k] = Credit(s, a, {}, k, u) /\ bb[k] = Credit(s, b, {}, k, u)
  OBVIOUS
<1>5. IsFiniteSet(DOMAIN I)
  BY FormulaType
<1>6. /\ MakeOf(I, s, a, u) = Total(ma) /\ MakeOf(I, s, b, u) = Total(mb)
      /\ BreakOf(I, s, a, {}, u) = Total(ba) /\ BreakOf(I, s, b, {}, u) = Total(bb)
  BY DEF MakeOf, BreakOf
<1> HIDE DEF ma, mb, ba, bb
<1>7. Total(mb) = Total(ma) + mb[k] - ma[k]
  BY <1>1, <1>2, <1>5, TotalPoint
<1>8. Total(bb) = Total(ba) + bb[k] - ba[k]
  BY <1>1, <1>3, <1>5, TotalPoint
<1> QED BY <1>4, <1>6, <1>7, <1>8

(* When all clauses have grown, the weighted counts are those of the new   *)
(* weights.                                                                *)
LEMMA AllGrownIs ==
    ASSUME NumVarAssumption, NEW I \in Formulas, NEW s, Exact(I, s), NEW w \in [DOMAIN I -> Nat],
           NEW t, t = AllGrown(I, s, w)
    PROVE  /\ t \in States(I) /\ SameButWeights(s, t)
           /\ \A u \in Vars : /\ t.makeW[u] = MakeOf(I, s, w, u)
                              /\ t.breakW[u] <= BreakOf(I, s, w, {}, u)
                              /\ Simple(I) => t.breakW[u] = BreakOf(I, s, w, {}, u)
<1>0. s \in States(I)
  BY DEF Exact
<1>1. PICK G \in [0..Len(I) -> States(I)] :
         /\ G[0] = s
         /\ \A k \in 1..Len(I) : G[k] = Grow(I, s, G[k - 1], k, Growth(I, s, w)[k])
         /\ AllGrown(I, s, w) = G[Len(I)]
  BY <1>0, GrowLoop
<1> DEFINE n == Len(I)
           Q(k) == Half(I, s, w, k)
           d == Growth(I, s, w)
           Inv(k) == /\ SameButWeights(s, G[k])
                     /\ \A u \in Vars :
                           /\ G[k].makeW[u] = MakeOf(I, s, Q(k), u)
                           /\ G[k].breakW[u] <= BreakOf(I, s, Q(k), {}, u)
                           /\ Simple(I) => G[k].breakW[u] = BreakOf(I, s, Q(k), {}, u)
           T == {k \in 0..n : Inv(k)}
<1>2. n \in Nat /\ DOMAIN I = 1..n /\ IsFiniteSet(DOMAIN I)
  BY FormulaType
<1>3. s \in States(I) /\ s.weight \in [DOMAIN I -> Nat] /\ MakeOK(I, s) /\ BreakOK(I, s, {})
  BY DEF Exact, Consistent, States
<1>10. IsFiniteSet(DOMAIN I)
  BY <1>2
<1>4. \A k \in 0..n : Q(k) \in [DOMAIN I -> Int]
  BY <1>3 DEF Half
<1>5. Q(0) = s.weight /\ Q(n) = w
  <2>1. \A c \in DOMAIN I : ~(c <= 0) /\ c <= n
    BY <1>2
  <2> QED BY <1>3, <2>1 DEF Half
<1> HIDE DEF n, Q, d
<1>6. 0 \in T
  BY <1>1, <1>2, <1>3, <1>5 DEF SameButWeights, MakeOK, BreakOK
<1>7. ASSUME NEW k \in 1..n, k - 1 \in T PROVE k \in T
  <2> DEFINE r == G[k - 1]
             a == Q(k - 1)
             b == Q(k)
  <2>1. k - 1 \in 0..n /\ k \in 0..n /\ k \in DOMAIN I
    BY <1>2
  <2>2. r \in States(I) /\ G[k] = Grow(I, s, r, k, d[k]) /\ Inv(k - 1)
    BY <1>1, <1>7, <2>1 DEF n, d
  <2>3. d[k] = w[k] - s.weight[k] /\ d[k] \in Int /\ w[k] \in Nat /\ s.weight[k] \in Nat
    BY <1>3, <2>1 DEF d, Growth
  <2>4. /\ a \in [DOMAIN I -> Int] /\ b \in [DOMAIN I -> Int]
        /\ b[k] = w[k] /\ a[k] = s.weight[k]
        /\ \A c \in DOMAIN I : c # k => a[c] = b[c]
    <3>1. a \in [DOMAIN I -> Int] /\ b \in [DOMAIN I -> Int]
      BY <1>4, <2>1
    <3>2. \A c \in DOMAIN I : /\ c # k => (c <= k <=> c <= k - 1)
                              /\ k <= k /\ ~(k <= k - 1)
      BY <1>2
    <3> QED BY <2>1, <3>1, <3>2 DEF Q, Half
  <2> HIDE DEF r, a, b, Inv, T
  <2>5. G[k] \in States(I) /\ Grew(I, s, r, G[k], k, d[k])
    BY <1>0, <2>1, <2>2, <2>3, GrowIs
  <2>6. /\ SameButWeights(s, r)
        /\ \A u \in Vars : /\ r.makeW[u] = MakeOf(I, s, a, u)
                           /\ r.breakW[u] <= BreakOf(I, s, a, {}, u)
                           /\ Simple(I) => r.breakW[u] = BreakOf(I, s, a, {}, u)
    BY <2>2 DEF Inv, r, a
  <2>7. ASSUME NEW u \in Vars
        PROVE  /\ MakeOf(I, s, b, u) = MakeOf(I, s, a, u)
                     + Demand(I, s, b, k, u) - Demand(I, s, a, k, u)
               /\ BreakOf(I, s, b, {}, u) = BreakOf(I, s, a, {}, u)
                     + Credit(s, b, {}, k, u) - Credit(s, a, {}, k, u)
    <3>1. AlikeBut(I, a, b, k)
      BY <2>4 DEF AlikeBut
    <3> QED BY <1>0, <2>1, <3>1, OneGrows
  <2>8. ASSUME NEW u \in Vars
        PROVE  /\ Demand(I, s, b, k, u) - Demand(I, s, a, k, u)
                     = IF s.numTrue[k] = 0 THEN d[k] * VarTimes(I, k, u) ELSE 0
               /\ Credit(s, b, {}, k, u) - Credit(s, a, {}, k, u)
                     = IF s.numTrue[k] = 1 /\ s.crit[k] = u THEN d[k] ELSE 0
    <3>1. VarTimes(I, k, u) \in Nat
      BY <2>1, TimesType
    <3>2. s.numTrue[k] \in Int /\ s.numTrue[k] >= 0
      BY <2>1 DEF Exact, Consistent, ListOK, States
    <3>3. b[k] * VarTimes(I, k, u) - a[k] * VarTimes(I, k, u) = d[k] * VarTimes(I, k, u)
      <4> DEFINE x == VarTimes(I, k, u)
                 y == w[k]
                 z == s.weight[k]
      <4>1. x \in Int /\ y \in Int /\ z \in Int /\ d[k] = y - z /\ b[k] = y /\ a[k] = z
        BY <2>3, <2>4, <3>1
      <4> HIDE DEF x, y, z
      <4>2. y * x - z * x = (y - z) * x
        BY <4>1
      <4> QED BY <4>1, <4>2 DEF x
    <3>4. Demand(I, s, b, k, u) - Demand(I, s, a, k, u)
             = IF s.numTrue[k] = 0 THEN d[k] * VarTimes(I, k, u) ELSE 0
      <4>1. CASE s.numTrue[k] = 0
        BY <3>3, <4>1 DEF Demand
      <4>2. CASE s.numTrue[k] # 0
        BY <3>2, <4>2 DEF Demand
      <4> QED BY <4>1, <4>2
    <3>5. Credit(s, b, {}, k, u) - Credit(s, a, {}, k, u)
             = IF s.numTrue[k] = 1 /\ s.crit[k] = u THEN d[k] ELSE 0
      BY <2>3, <2>4 DEF Credit
    <3> QED BY <3>4, <3>5
  <2>9. ASSUME NEW u \in Vars
        PROVE  /\ G[k].makeW[u] = MakeOf(I, s, b, u)
               /\ G[k].breakW[u] <= BreakOf(I, s, b, {}, u)
               /\ Simple(I) => G[k].breakW[u] = BreakOf(I, s, b, {}, u)
    <3>1. /\ MakeOf(I, s, a, u) \in Int /\ BreakOf(I, s, a, {}, u) \in Int
          /\ Demand(I, s, a, k, u) \in Int /\ Demand(I, s, b, k, u) \in Int
          /\ Credit(s, a, {}, k, u) \in Int /\ Credit(s, b, {}, k, u) \in Int
      BY <1>3, <2>1, <2>4, SumTypes
    <3> DEFINE x == IF s.numTrue[k] = 0 THEN d[k] * VarTimes(I, k, u) ELSE 0
               y == IF s.numTrue[k] = 1 /\ s.crit[k] = u THEN d[k] ELSE 0
    <3>2. /\ Demand(I, s, b, k, u) - Demand(I, s, a, k, u) = x
          /\ Credit(s, b, {}, k, u) - Credit(s, a, {}, k, u) = y
          /\ G[k].makeW[u] = r.makeW[u] + x /\ G[k].breakW[u] = r.breakW[u] + y
      BY <2>5, <2>8 DEF Grew
    <3>3. r.breakW[u] \in Int /\ y \in Int
      <4>1. u \in Indices
        BY DEF Vars, Indices
      <4> QED BY <2>2, <2>3, <4>1 DEF States
    <3> HIDE DEF x, y
    <3>4. x \in Int
      BY <3>1, <3>2
    <3> DEFINE mk == r.makeW[u]
               bk == r.breakW[u]
    <3>5. mk \in Int /\ bk \in Int
      BY <2>6, <2>7, <3>1, <3>2, <3>3
    <3> QED BY <2>6, <2>7, <3>1, <3>2, <3>3, <3>4, <3>5, SMTT(30)
  <2>10. SameButWeights(s, G[k])
    BY <2>5, <2>6 DEF SameButWeights, Grew
  <2>11. Inv(k)
    BY <2>9, <2>10 DEF Inv, b
  <2> QED BY <2>1, <2>11 DEF T
<1>8. n \in T
  <2> HIDE DEF T
  <2>1. \A k \in 0..n : k \in T
    BY <1>2, <1>6, <1>7, UpTo
  <2> QED BY <1>2, <2>1
<1>9. t = G[n] /\ G[n] \in States(I) /\ Inv(n)
  BY <1>1, <1>2, <1>8 DEF n
<1> QED BY <1>5, <1>9

(* The sums depend on what is true, and on nothing else. *)
LEMMA SumsFollow ==
    ASSUME NEW I, NEW s, NEW t, t.numTrue = s.numTrue, t.crit = s.crit
    PROVE  \A q, X, u : /\ BreakOf(I, t, q, X, u) = BreakOf(I, s, q, X, u)
                        /\ MakeOf(I, t, q, u) = MakeOf(I, s, q, u)
BY DEF BreakOf, MakeOf, Credit, Demand

(* The state t, in which all but the weights and their sums is as in s. *)
Reweighted(I, s, t) ==
    /\ t \in States(I)
    /\ t.val = s.val /\ t.numTrue = s.numTrue /\ t.falses = s.falses /\ t.crit = s.crit
    /\ t.break = s.break /\ t.make = s.make /\ t.vars = s.vars
    /\ t.falseW = s.falseW /\ t.head = s.head /\ t.change = s.change
    /\ \A u \in Vars : /\ t.makeW[u] = MakeOf(I, s, t.weight, u)
                       /\ t.breakW[u] <= BreakOf(I, s, t.weight, {}, u)
                       /\ Simple(I) => t.breakW[u] = BreakOf(I, s, t.weight, {}, u)
    /\ t.sum = Total(t.weight)

(* New weights with their counts leave the state exact. *)
LEMMA ReweightedIsExact ==
    ASSUME NEW I \in Formulas, NEW s, Exact(I, s), NEW t, Reweighted(I, s, t), KeepsCrit
    PROVE  Exact(I, t) /\ t.val = s.val
<1>1. /\ s \in States(I) /\ Numbers(I, s) /\ CritOK(I, s)
      /\ ListOK(I, s) /\ MakeOK(I, s) /\ BreakOK(I, s, {})
  BY DEF Exact, Consistent
<1>2. /\ t \in States(I) /\ t.val = s.val /\ t.numTrue = s.numTrue /\ t.falses = s.falses
      /\ t.crit = s.crit /\ t.break = s.break /\ t.make = s.make /\ t.vars = s.vars
  BY DEF Reweighted
<1>3. \A q, u : /\ BreakOf(I, t, q, {}, u) = BreakOf(I, s, q, {}, u)
                /\ MakeOf(I, t, q, u) = MakeOf(I, s, q, u)
  BY <1>2, SumsFollow
<1>4. ListOK(I, t)
  BY <1>1, <1>2 DEF ListOK
<1>5. MakeOK(I, t)
  BY <1>1, <1>2, <1>3 DEF MakeOK, VarsKept, Reweighted
<1>6. BreakOK(I, t, {})
  BY <1>1, <1>2, <1>3 DEF BreakOK, Reweighted
<1>7. Numbers(I, t) /\ CritOK(I, t)
  BY <1>1, <1>2 DEF Numbers, CritOK
<1> QED BY <1>2, <1>4, <1>5, <1>6, <1>7 DEF Exact, Consistent, WeightOK

(* A state whose penalties are summed up. *)
Summed(I, s) == Exact(I, s) /\ s.sum = Total(s.weight)

(* Scaling the penalties keeps the weighted counts and their sum. *)
LEMMA ReweighKeeps ==
    ASSUME NumVarAssumption, NEW I \in Formulas, NEW s, Summed(I, s), KeepsCrit,
           NEW w \in [DOMAIN I -> Nat], NEW t, t = Reweigh(I, s, w)
    PROVE  Summed(I, t) /\ Reweighted(I, s, t) /\ t.weight = w
<1> DEFINE g == AllGrown(I, s, w)
           d == Growth(I, s, w)
           sum == g.sum + Total(d)
<1>1. s \in States(I) /\ s.sum = Total(s.weight) /\ s.weight \in [DOMAIN I -> Int]
      /\ w \in [DOMAIN I -> Int] /\ IsFiniteSet(DOMAIN I) /\ Exact(I, s)
  <2>1. s \in States(I) /\ s.sum = Total(s.weight) /\ Exact(I, s)
    BY DEF Summed, Exact
  <2> QED BY <2>1, FormulaType DEF States
<1>2. /\ g \in States(I) /\ SameButWeights(s, g)
      /\ \A u \in Vars : /\ g.makeW[u] = MakeOf(I, s, w, u)
                         /\ g.breakW[u] <= BreakOf(I, s, w, {}, u)
                         /\ Simple(I) => g.breakW[u] = BreakOf(I, s, w, {}, u)
  BY <1>1, AllGrownIs
<1>3. d \in [DOMAIN I -> Int] /\ Total(d) \in Int
  BY <1>1, GrowthType, TotalType
<1>4. t = [g EXCEPT !.weight = w, !.sum = sum]
  BY ReweighIs
<1>5. sum = Total(w) /\ sum \in Int
  <2>1. \A c \in DOMAIN I : w[c] = s.weight[c] + 1 * d[c]
    BY <1>1 DEF Growth
  <2> HIDE DEF d
  <2>2. Total(w) = Total(s.weight) + 1 * Total(d)
    BY <1>1, <1>3, <2>1, TotalLinear
  <2>3. Total(s.weight) \in Int /\ g.sum = s.sum
    BY <1>1, <1>2, TotalType DEF SameButWeights
  <2> QED BY <1>1, <1>3, <2>2, <2>3
<1> HIDE DEF g, d, sum
<1>6. t \in States(I)
  BY <1>2, <1>4, <1>5 DEF States
<1>7. /\ t.val = g.val /\ t.numTrue = g.numTrue /\ t.falses = g.falses /\ t.crit = g.crit
      /\ t.break = g.break /\ t.make = g.make /\ t.vars = g.vars /\ t.falseW = g.falseW
      /\ t.head = g.head /\ t.change = g.change /\ t.makeW = g.makeW /\ t.breakW = g.breakW
      /\ t.weight = w /\ t.sum = sum
  BY <1>2, <1>4 DEF States
<1>8. Reweighted(I, s, t)
  BY <1>2, <1>5, <1>6, <1>7 DEF SameButWeights, Reweighted
<1> QED BY <1>1, <1>5, <1>7, <1>8, ReweightedIsExact DEF Summed

(* As many ones as clauses. *)
LEMMA TotalOnes ==
    ASSUME NEW I \in Formulas, NEW one \in [DOMAIN I -> Int], \A c \in DOMAIN I : one[c] = 1
    PROVE  Total(one) = Len(I)
<1>0. IsFiniteSet(DOMAIN I)
  BY FormulaType
<1>1. Total(one) = Cardinality(DOMAIN I)
  <2>1. \A c \in DOMAIN I : one[c] = IF c \in DOMAIN I THEN 1 ELSE 0
    OBVIOUS
  <2> QED BY <1>0, <2>1, TotalCount
<1>2. Cardinality(1..Len(I)) = Len(I)
  <2> DEFINE n == Len(I)
  <2>1. n \in Nat
    OBVIOUS
  <2> HIDE DEF n
  <2>2. Cardinality(1..n) = IF 1 > n THEN 0 ELSE n - 1 + 1
    BY <2>1, FS_Interval
  <2> QED BY <2>1, <2>2 DEF n
<1> QED BY <1>1, <1>2, FormulaType

(* Naturals sum up to a natural. *)
LEMMA NaturalSum ==
    ASSUME NEW I \in Formulas, NEW w \in [DOMAIN I -> Nat]
    PROVE  Total(w) \in Nat
<1> DEFINE zero == [c \in DOMAIN I |-> 0]
<1>1. /\ zero \in [DOMAIN I -> Int] /\ w \in [DOMAIN I -> Int] /\ IsFiniteSet(DOMAIN I)
      /\ \A c \in DOMAIN I : zero[c] <= w[c]
      /\ \A c \in DOMAIN I : zero[c] = 0
  BY FormulaType
<1> HIDE DEF zero
<1>2. Total(zero) <= Total(w)
  BY <1>1, TotalOrder
<1>3. Total(zero) = 0
  BY <1>1, TotalZero
<1>4. Total(w) \in Int
  BY <1>1, TotalType
<1> QED BY <1>2, <1>3, <1>4

(* All weights have grown by a. *)
Raised(I, p, q, a) ==
    /\ p \in [DOMAIN I -> Int] /\ q \in [DOMAIN I -> Int]
    /\ \A c \in DOMAIN I : q[c] = p[c] + a

(* What is raised for every clause is raised in the sums by the number of  *)
(* clauses.                                                                *)
LEMMA AllMore ==
    ASSUME NumVarAssumption, NEW I \in Formulas, NEW s \in States(I), NEW a \in Int, Unit = 1,
           NEW p, NEW q, Raised(I, p, q, a), NEW u
    PROVE  /\ MakeOf(I, s, q, u) = MakeOf(I, s, p, u) + a * MakeOf(I, s, Units(I), u)
           /\ BreakOf(I, s, q, {}, u)
                 = BreakOf(I, s, p, {}, u) + a * BreakOf(I, s, Units(I), {}, u)
<1> DEFINE mp == [c \in DOMAIN I |-> Demand(I, s, p, c, u)]
           mq == [c \in DOMAIN I |-> Demand(I, s, q, c, u)]
           mu == [c \in DOMAIN I |-> Demand(I, s, Units(I), c, u)]
           bp == [c \in DOMAIN I |-> Credit(s, p, {}, c, u)]
           bq == [c \in DOMAIN I |-> Credit(s, q, {}, c, u)]
           bu == [c \in DOMAIN I |-> Credit(s, Units(I), {}, c, u)]
<1>0. Units(I) \in [DOMAIN I -> Int] /\ \A c \in DOMAIN I : Units(I)[c] = 1
  BY UnitsType
<1>9. /\ p \in [DOMAIN I -> Int] /\ q \in [DOMAIN I -> Int]
      /\ \A c \in DOMAIN I : q[c] = p[c] + a
  BY DEF Raised
<1>1. /\ mp \in [DOMAIN I -> Int] /\ mq \in [DOMAIN I -> Int] /\ mu \in [DOMAIN I -> Int]
      /\ bp \in [DOMAIN I -> Int] /\ bq \in [DOMAIN I -> Int] /\ bu \in [DOMAIN I -> Int]
  BY <1>0, <1>9, SumTypes
<1>2. \A c \in DOMAIN I : mq[c] = mp[c] + a * mu[c]
  <2> TAKE c \in DOMAIN I
  <2> DEFINE x == VarTimes(I, c, u)
             y == p[c]
  <2>1. x \in Int /\ y \in Int /\ q[c] = y + a /\ Units(I)[c] = 1
    <3>1. VarTimes(I, c, u) \in Nat
      BY TimesType
    <3>2. y \in Int /\ q[c] = y + a
      BY <1>9
    <3> QED BY <1>0, <3>1, <3>2
  <2>2. /\ mq[c] = IF s.numTrue[c] > 0 THEN 0 ELSE q[c] * x
        /\ mp[c] = IF s.numTrue[c] > 0 THEN 0 ELSE y * x
        /\ mu[c] = IF s.numTrue[c] > 0 THEN 0 ELSE Units(I)[c] * x
    BY DEF Demand
  <2> HIDE DEF x, y, mp, mq, mu
  <2>3. (y + a) * x = y * x + a * (1 * x) /\ a * 0 = 0
    BY <2>1
  <2>4. CASE s.numTrue[c] > 0
    BY <2>2, <2>3, <2>4
  <2>5. CASE ~(s.numTrue[c] > 0)
    BY <2>1, <2>2, <2>3, <2>5
  <2> QED BY <2>4, <2>5
<1>3. \A c \in DOMAIN I : bq[c] = bp[c] + a * bu[c]
  <2> TAKE c \in DOMAIN I
  <2>1. a * 1 = a /\ a * 0 = 0
    OBVIOUS
  <2> QED BY <1>0, <1>9, <2>1 DEF Credit
<1>4. IsFiniteSet(DOMAIN I)
  BY FormulaType
<1>5. /\ MakeOf(I, s, p, u) = Total(mp) /\ MakeOf(I, s, q, u) = Total(mq)
      /\ MakeOf(I, s, Units(I), u) = Total(mu)
      /\ BreakOf(I, s, p, {}, u) = Total(bp) /\ BreakOf(I, s, q, {}, u) = Total(bq)
      /\ BreakOf(I, s, Units(I), {}, u) = Total(bu)
  BY DEF MakeOf, BreakOf
<1> HIDE DEF mp, mq, mu, bp, bq, bu
<1>6. Total(mq) = Total(mp) + a * Total(mu)
  <2>1. Linear(DOMAIN I, mp, mu, mq, a)
    BY <1>1, <1>2 DEF Linear
  <2> QED BY <1>4, <2>1, LinearTotal
<1>7. Total(bq) = Total(bp) + a * Total(bu)
  <2>1. Linear(DOMAIN I, bp, bu, bq, a)
    BY <1>1, <1>3 DEF Linear
  <2> QED BY <1>4, <2>1, LinearTotal
<1> QED BY <1>5, <1>6, <1>7

(* Smoothing the penalties keeps the weighted counts and their sum. *)
LEMMA SmoothKeeps ==
    ASSUME NumVarAssumption, NEW I \in Formulas, I # <<>>, NEW s, Summed(I, s), KeepsCrit,
           Unit = 1, NEW t, t = SmoothSAPS(I, s)
    PROVE  Summed(I, t) /\ Reweighted(I, s, t)
<1> DEFINE a == s.sum \div Len(I)
           weight == [c \in DOMAIN I |-> s.weight[c] + a]
           sum == s.sum + a * Len(I)
           makeW == [u \in Indices |-> IF u = NoVar THEN s.makeW[u]
                                       ELSE s.makeW[u] + a * s.make[u]]
           breakW == [u \in Indices |-> IF u = NoVar THEN s.breakW[u]
                                        ELSE s.breakW[u] + a * s.break[u]]
<1>1. /\ Exact(I, s) /\ s \in States(I) /\ s.sum = Total(s.weight) /\ MakeOK(I, s)
      /\ BreakOK(I, s, {})
  BY DEF Summed, Exact, Consistent
<1>2. /\ s.weight \in [DOMAIN I -> Nat] /\ s.makeW \in [Indices -> Int]
      /\ s.breakW \in [Indices -> Int]
      /\ s.make \in [Indices -> Int] /\ s.break \in [Indices -> Int]
  BY <1>1 DEF States
<1>3. a \in Nat
  <2>1. s.sum \in Nat
    BY <1>1, <1>2, NaturalSum
  <2>2. Len(I) \in Nat /\ Len(I) # 0
    BY FormulaType
  <2> QED BY <2>1, <2>2
<1>4. t = [s EXCEPT !.weight = weight, !.sum = sum, !.makeW = makeW, !.breakW = breakW]
  BY DEF SmoothSAPS
<1>5. /\ weight \in [DOMAIN I -> Nat] /\ \A c \in DOMAIN I : weight[c] = s.weight[c] + a
      /\ makeW \in [Indices -> Int] /\ breakW \in [Indices -> Int]
      /\ \A u \in Vars : /\ makeW[u] = s.makeW[u] + a * s.make[u]
                         /\ breakW[u] = s.breakW[u] + a * s.break[u]
  <2> HIDE DEF a
  <2>1. \A u \in Indices : a * s.make[u] \in Int /\ a * s.break[u] \in Int
    BY <1>2, <1>3
  <2>2. \A u \in Vars : u \in Indices /\ u # NoVar
    BY DEF Vars, Indices, NoVar, NumVarAssumption
  <2> QED BY <1>2, <1>3, <2>1, <2>2
<1> HIDE DEF a, weight, makeW, breakW
<1>6. sum = Total(weight) /\ sum \in Int
  <2> DEFINE one == [c \in DOMAIN I |-> 1]
  <2>1. one \in [DOMAIN I -> Int] /\ \A c \in DOMAIN I : one[c] = 1
    OBVIOUS
  <2> HIDE DEF one
  <2>2. Total(one) = Len(I)
    BY <2>1, TotalOnes
  <2>3. \A c \in DOMAIN I : weight[c] = s.weight[c] + a * one[c]
    BY <1>2, <1>3, <1>5, <2>1
  <2>4. /\ weight \in [DOMAIN I -> Int] /\ s.weight \in [DOMAIN I -> Int]
        /\ IsFiniteSet(DOMAIN I) /\ a \in Int
    BY <1>2, <1>3, <1>5, FormulaType
  <2>5. Total(weight) = Total(s.weight) + a * Total(one)
    <3>1. Linear(DOMAIN I, s.weight, one, weight, a)
      BY <2>1, <2>3, <2>4 DEF Linear
    <3> QED BY <2>4, <3>1, LinearTotal
  <2>6. Total(weight) \in Int
    BY <2>4, TotalType
  <2> QED BY <1>1, <2>2, <2>5, <2>6
<1> HIDE DEF sum
<1>7. t \in States(I)
  BY <1>1, <1>4, <1>5, <1>6 DEF States
<1>8. /\ t.val = s.val /\ t.numTrue = s.numTrue /\ t.falses = s.falses /\ t.crit = s.crit
      /\ t.break = s.break /\ t.make = s.make /\ t.vars = s.vars /\ t.falseW = s.falseW
      /\ t.head = s.head /\ t.change = s.change /\ t.makeW = makeW /\ t.breakW = breakW
      /\ t.weight = weight /\ t.sum = sum
  BY <1>1, <1>4 DEF States
<1>9. ASSUME NEW u \in Vars
      PROVE  /\ t.makeW[u] = MakeOf(I, s, weight, u)
             /\ t.breakW[u] <= BreakOf(I, s, weight, {}, u)
             /\ Simple(I) => t.breakW[u] = BreakOf(I, s, weight, {}, u)
  <2>1. /\ MakeOf(I, s, weight, u)
              = MakeOf(I, s, s.weight, u) + a * MakeOf(I, s, Units(I), u)
        /\ BreakOf(I, s, weight, {}, u)
              = BreakOf(I, s, s.weight, {}, u) + a * BreakOf(I, s, Units(I), {}, u)
    <3>1. a \in Int /\ Raised(I, s.weight, weight, a)
      BY <1>2, <1>3, <1>5 DEF Raised
    <3> QED BY <1>1, <3>1, AllMore
  <2>2. s.make[u] = MakeOf(I, s, Units(I), u) /\ s.makeW[u] = MakeOf(I, s, s.weight, u)
    BY <1>1 DEF MakeOK
  <2>4. s.break[u] <= BreakOf(I, s, Units(I), {}, u)
        /\ s.breakW[u] <= BreakOf(I, s, s.weight, {}, u)
    BY <1>1 DEF BreakOK
  <2>6. /\ BreakOf(I, s, Units(I), {}, u) \in Int /\ BreakOf(I, s, s.weight, {}, u) \in Int
        /\ s.break[u] \in Int /\ s.breakW[u] \in Int
        /\ a * s.break[u] \in Int /\ a * BreakOf(I, s, Units(I), {}, u) \in Int
    <3>1. Units(I) \in [DOMAIN I -> Int] /\ s.weight \in [DOMAIN I -> Int] /\ u \in Indices
      BY <1>1, UnitsType DEF Vars, Indices
    <3>2. BreakOf(I, s, Units(I), {}, u) \in Int /\ BreakOf(I, s, s.weight, {}, u) \in Int
      BY <1>1, <3>1, SumTypes
    <3>3. s.break[u] \in Int /\ s.breakW[u] \in Int
      BY <1>2, <3>1
    <3> QED BY <1>3, <3>2, <3>3
  <2>5. a * s.break[u] <= a * BreakOf(I, s, Units(I), {}, u)
    <3> DEFINE x == s.break[u]
               y == BreakOf(I, s, Units(I), {}, u)
    <3>1. x \in Int /\ y \in Int /\ x <= y
      BY <1>1, <2>4, <2>6
    <3> HIDE DEF x, y
    <3>2. a * x <= a * y
      BY <1>3, <3>1
    <3> QED BY <3>2 DEF x, y
  <2>3. Simple(I) => /\ s.break[u] = BreakOf(I, s, Units(I), {}, u)
                     /\ s.breakW[u] = BreakOf(I, s, s.weight, {}, u)
    BY <1>1 DEF BreakOK
  <2> QED BY <1>5, <1>8, <2>1, <2>2, <2>3, <2>4, <2>5, <2>6
<1>10. Reweighted(I, s, t)
  BY <1>6, <1>7, <1>8, <1>9 DEF Reweighted
<1> QED BY <1>1, <1>6, <1>8, <1>10, ReweightedIsExact DEF Summed

(* The false clauses' penalties grow, all are smoothed or divided: the     *)
(* penalties of the variables and the sum of all are always those of the   *)
(* clauses.                                                                *)
THEOREM PostFlipKeepsExact ==
    ASSUME NumVarAssumption, MaxPenaltyAssumption, AlphaAssumption,
           NEW I \in Formulas, I # <<>>, NEW s, Summed(I, s), KeepsCrit, Unit = 1,
           NEW t \in PostFlipSAPS(I, s)
    PROVE  /\ Summed(I, t) /\ t.val = s.val /\ t.head = s.head /\ t.change = s.change
           /\ t.falseW = s.falseW /\ t.falses = s.falses /\ t.numTrue = s.numTrue
<1> DEFINE Kept(r, x) == /\ Summed(I, x) /\ x.val = r.val /\ x.head = r.head
                         /\ x.change = r.change /\ x.falseW = r.falseW
                         /\ x.falses = r.falses /\ x.numTrue = r.numTrue
<1>1. ASSUME NEW r, Summed(I, r), NEW w \in [DOMAIN I -> Nat] PROVE Kept(r, Reweigh(I, r, w))
  <2>1. Summed(I, Reweigh(I, r, w)) /\ Reweighted(I, r, Reweigh(I, r, w))
    BY <1>1, ReweighKeeps
  <2> QED BY <2>1 DEF Reweighted
<1>2. ASSUME NEW r, Summed(I, r) PROVE Kept(r, AdjustPenalties(I, r))
  <2> DEFINE w == [c \in DOMAIN I |-> (r.weight[c] + MaxPenalty - 1) \div MaxPenalty]
  <2>1. w \in [DOMAIN I -> Nat]
    <3>1. \A c \in DOMAIN I : r.weight[c] \in Nat
      BY <1>2 DEF Summed, Exact, States
    <3>2. \A x \in Nat : (x + MaxPenalty - 1) \div MaxPenalty \in Nat
      BY DEF MaxPenaltyAssumption
    <3> QED BY <3>1, <3>2
  <2>2. AdjustPenalties(I, r) \in {r, Reweigh(I, r, w)}
    BY DEF AdjustPenalties
  <2> HIDE DEF w
  <2>3. Kept(r, Reweigh(I, r, w)) /\ Kept(r, r)
    BY <1>1, <1>2, <2>1
  <2> QED BY <2>2, <2>3
<1>3. ASSUME NEW r, Summed(I, r) PROVE Kept(r, ScaleSAPS(I, r))
  <2> DEFINE w == [c \in DOMAIN I |-> IF c \in ToSet(r.falses.list)
                                      THEN Alpha * r.weight[c] ELSE r.weight[c]]
  <2>1. w \in [DOMAIN I -> Nat]
    <3>1. \A c \in DOMAIN I : r.weight[c] \in Nat
      BY <1>3 DEF Summed, Exact, States
    <3>2. \A x \in Nat : Alpha * x \in Nat
      BY DEF AlphaAssumption
    <3> QED BY <3>1, <3>2
  <2>2. ScaleSAPS(I, r) = Reweigh(I, r, w)
    BY DEF ScaleSAPS
  <2> HIDE DEF w
  <2> QED BY <1>1, <1>3, <2>1, <2>2
<1>4. Kept(s, SmoothSAPS(I, s))
  <2>1. Summed(I, SmoothSAPS(I, s)) /\ Reweighted(I, s, SmoothSAPS(I, s))
    BY SmoothKeeps
  <2> QED BY <2>1 DEF Reweighted
<1>5. t = ScaleSAPS(I, AdjustPenalties(I, s))
      \/ t = ScaleSAPS(I, AdjustPenalties(I, SmoothSAPS(I, s)))
  BY DEF PostFlipSAPS
<1>6. ASSUME NEW r, Kept(s, r) PROVE Kept(s, ScaleSAPS(I, AdjustPenalties(I, r)))
  <2>1. Kept(r, AdjustPenalties(I, r))
    BY <1>2, <1>6
  <2>2. Kept(AdjustPenalties(I, r), ScaleSAPS(I, AdjustPenalties(I, r)))
    BY <1>3, <2>1
  <2> QED BY <1>6, <2>1, <2>2
<1>7. Kept(s, t)
  <2>1. Kept(s, s)
    OBVIOUS
  <2> HIDE DEF Kept
  <2> QED BY <1>4, <1>5, <1>6, <2>1
<1> QED BY <1>7
-----------------------------------------------------------------------------
(* The cost of the false clauses after a flip. *)

(* A sum over the places of a list, and over the members as often as they  *)
(* occur in it.                                                            *)
ByPlace(n, occ, h) == [k \in 1..n |-> h[occ[k]]]

ByMember(D, n, occ, h) == [c \in D |-> Cardinality({i \in 1..n : occ[i] = c}) * h[c]]

(* A sum over places is one over what is there, each as often as it        *)
(* occurs.                                                                 *)
LEMMA TotalBy ==
    ASSUME NEW D, IsFiniteSet(D), NEW n \in Nat, NEW occ \in [1..n -> D], NEW h \in [D -> Int]
    PROVE  Total(ByPlace(n, occ, h)) = Total(ByMember(D, n, occ, h))
<1> DEFINE S == 1..n
           At(t, c) == {i \in t : occ[i] = c}
           left(t)  == [k \in S |-> IF k \in t THEN h[occ[k]] ELSE 0]
           right(t) == [c \in D |-> Cardinality(At(t, c)) * h[c]]
           T == {t \in SUBSET S : Total(left(t)) = Total(right(t))}
<1>1. IsFiniteSet(S)
  BY FS_Interval
<1>2. \A t \in SUBSET S, c \in D : IsFiniteSet(At(t, c)) /\ Cardinality(At(t, c)) \in Nat
  <2> TAKE t \in SUBSET S, c \in D
  <2>1. At(t, c) \subseteq S
    OBVIOUS
  <2>2. IsFiniteSet(At(t, c))
    BY <1>1, <2>1, FS_Subset
  <2> QED BY <2>2, FS_CardinalityType
<1>3. \A t \in SUBSET S : left(t) \in [S -> Int] /\ right(t) \in [D -> Int]
  <2> TAKE t \in SUBSET S
  <2>1. ASSUME NEW c \in D PROVE Cardinality(At(t, c)) * h[c] \in Int
    <3>1. Cardinality(At(t, c)) \in Nat /\ h[c] \in Int
      BY <1>2
    <3> HIDE DEF At
    <3> QED BY <3>1
  <2>2. right(t) \in [D -> Int]
    <3> HIDE DEF At
    <3> QED BY <2>1
  <2> QED BY <2>2
<1>4. {} \in T
  <2>1. \A k \in S : left({})[k] = 0
    OBVIOUS
  <2>2. \A c \in D : right({})[c] = 0
    <3> TAKE c \in D
    <3>1. Cardinality(At({}, c)) = 0
      <4>1. At({}, c) = {}
        OBVIOUS
      <4> QED BY <4>1, FS_EmptySet
    <3> QED BY <3>1
  <2>3. {} \in SUBSET S
    OBVIOUS
  <2>4. left({}) \in [S -> Int] /\ right({}) \in [D -> Int]
    BY <1>3, <2>3
  <2> HIDE DEF left, right
  <2>5. Total(left({})) = 0
    BY <1>1, <2>1, <2>4, TotalZero
  <2>6. Total(right({})) = 0
    BY <2>2, <2>4, TotalZero
  <2> QED BY <2>3, <2>5, <2>6
<1>5. ASSUME NEW t \in SUBSET S, t # {}, t \ {Some(t)} \in T PROVE t \in T
  <2> DEFINE x == Some(t)
             r == t \ {x}
  <2>1. x \in t /\ x \in S /\ r \in SUBSET S /\ occ[x] \in D
    BY <1>5 DEF Some
  <2>2. Total(left(r)) = Total(right(r))
    BY <1>5
  <2> HIDE DEF x
  <2>3. Total(left(t)) = Total(left(r)) + h[occ[x]]
    <3>1. left(t)[x] = h[occ[x]] /\ left(r)[x] = 0
      BY <2>1
    <3>2. \A k \in S : k # x => left(t)[k] = left(r)[k]
      OBVIOUS
    <3>3. left(t) \in [S -> Int] /\ left(r) \in [S -> Int]
      BY <1>3, <2>1
    <3> HIDE DEF left, r, S
    <3>4. Total(left(t)) = Total(left(r)) + left(t)[x] - left(r)[x]
      BY <1>1, <2>1, <3>2, <3>3, TotalPoint, ZenonT(40)
    <3>5. Total(left(r)) \in Int
      BY <1>1, <3>3, TotalType
    <3> QED BY <2>1, <3>1, <3>4, <3>5
  <2>4. Total(right(t)) = Total(right(r)) + h[occ[x]]
    <3>1. right(t)[occ[x]] = right(r)[occ[x]] + h[occ[x]]
      <4>1. At(t, occ[x]) = At(r, occ[x]) \cup {x} /\ x \notin At(r, occ[x])
        BY <2>1
      <4>2. Cardinality(At(t, occ[x])) = Cardinality(At(r, occ[x])) + 1
        <5>1. IsFiniteSet(At(r, occ[x]))
          BY <1>2, <2>1
        <5> HIDE DEF At
        <5> QED BY <4>1, <5>1, FS_AddElement
      <4>3. Cardinality(At(r, occ[x])) \in Nat
        BY <1>2, <2>1
      <4>4. right(t)[occ[x]] = Cardinality(At(t, occ[x])) * h[occ[x]]
            /\ right(r)[occ[x]] = Cardinality(At(r, occ[x])) * h[occ[x]]
        BY <2>1
      <4> DEFINE a == Cardinality(At(r, occ[x]))
                 b == h[occ[x]]
      <4>5. b \in Int
        BY <2>1
      <4> HIDE DEF right, a, b
      <4>6. (a + 1) * b = a * b + b
        BY <4>3, <4>5 DEF a
      <4> QED BY <4>2, <4>4, <4>6 DEF a, b
    <3>2. \A c \in D : c # occ[x] => right(t)[c] = right(r)[c]
      <4> TAKE c \in D
      <4> HAVE c # occ[x]
      <4>1. At(t, c) = At(r, c)
        OBVIOUS
      <4> QED BY <4>1
    <3>3. right(t) \in [D -> Int] /\ right(r) \in [D -> Int]
      BY <1>3, <2>1
    <3> HIDE DEF right, r
    <3>4. Total(right(t)) = Total(right(r)) + right(t)[occ[x]] - right(r)[occ[x]]
      <4> DEFINE f == right(r)
                 g == right(t)
                 y == occ[x]
      <4>1. /\ f \in [D -> Int] /\ g \in [D -> Int] /\ y \in D
            /\ \A c \in D : c # y => g[c] = f[c]
        BY <2>1, <3>2, <3>3
      <4> HIDE DEF f, g, y
      <4>2. Total(g) = Total(f) + g[y] - f[y]
        BY <4>1, TotalPoint
      <4> QED BY <4>2 DEF f, g, y
    <3>5. Total(right(r)) \in Int /\ right(r)[occ[x]] \in Int /\ h[occ[x]] \in Int
      BY <2>1, <3>3, TotalType
    <3> QED BY <3>1, <3>4, <3>5
  <2> QED BY <2>2, <2>3, <2>4
<1>6. S \in T
  <2>1. S \in SUBSET S
    OBVIOUS
  <2> HIDE DEF T, S
  <2> QED BY <1>1, <1>4, <1>5, <2>1, Subsets
<1>7. left(S) = ByPlace(n, occ, h) /\ right(S) = ByMember(D, n, occ, h)
  BY DEF ByPlace, ByMember
<1>8. Total(left(S)) = Total(right(S))
  BY <1>6
<1> HIDE DEF left, right
<1> QED BY <1>7, <1>8

(* What the clauses with n true literals weigh, each as often as it holds  *)
(* the literal l.                                                          *)
Charge(I, l, N, w, n) ==
    Total([k \in DOMAIN Occurrences(I, l) |->
               IF N[Occurrences(I, l)[k]] = n THEN w[Occurrences(I, l)[k]] ELSE 0])

(* What each of those clauses weighs, and is charged. *)
Priced(I, N, w, n) == [c \in DOMAIN I |-> IF N[c] = n THEN w[c] ELSE 0]

Charged(I, l, N, w, n) == [c \in DOMAIN I |-> Times(I, c, l) * Priced(I, N, w, n)[c]]

(* What a literal is charged, as a sum over the clauses. *)
LEMMA ChargeIs ==
    ASSUME NEW I \in Formulas, NEW l, NEW N \in [DOMAIN I -> Int], NEW w \in Weights(I),
           NEW n
    PROVE  /\ Priced(I, N, w, n) \in [DOMAIN I -> Int]
           /\ Charge(I, l, N, w, n) = Total(Charged(I, l, N, w, n))
<1> DEFINE occ == Occurrences(I, l)
           h == Priced(I, N, w, n)
           f == Charged(I, l, N, w, n)
           m == Len(occ)
<1>1. h \in [DOMAIN I -> Int]
  BY DEF Priced, Weights
<1>2. /\ occ \in Seq(DOMAIN I)
      /\ \A c \in DOMAIN I : Cardinality(OccursAt(occ, c)) = Times(I, c, l)
  BY OccurrencesAre
<1> HIDE DEF occ
<1>3. m \in Nat /\ occ \in [1..m -> DOMAIN I] /\ DOMAIN occ = 1..m
  BY <1>2
<1>4. \A c \in DOMAIN I : Cardinality({i \in 1..m : occ[i] = c}) = Times(I, c, l)
  BY <1>2, <1>3 DEF OccursAt
<1>5. ByMember(DOMAIN I, m, occ, h) = f
  <2> HIDE DEF h, m
  <2> QED BY <1>4 DEF ByMember, Charged, h
<1>6. ByPlace(m, occ, h) = [k \in 1..m |-> IF N[occ[k]] = n THEN w[occ[k]] ELSE 0]
  BY <1>3 DEF ByPlace, Priced
<1>7. Charge(I, l, N, w, n) = Total(ByPlace(m, occ, h))
  <2>1. Charge(I, l, N, w, n)
          = Total([k \in 1..m |-> IF N[occ[k]] = n THEN w[occ[k]] ELSE 0])
    BY <1>3, Zenon DEF Charge, occ
  <2> QED BY <1>6, <2>1, Zenon
<1>8. IsFiniteSet(DOMAIN I)
  BY FormulaType
<1>9. Total(ByPlace(m, occ, h)) = Total(f)
  <2> HIDE DEF h, f, m
  <2> QED BY <1>1, <1>3, <1>5, <1>8, TotalBy
<1> QED BY <1>1, <1>7, <1>9 DEF h, f

(* The weight of the false clauses, as the same kind of sum. *)
LEMMA FalseWeighs ==
    ASSUME NEW I \in Formulas, NEW val, NEW w \in Weights(I), NEW N,
           N = [c \in DOMAIN I |-> NumTrueLit(I, val, c)]
    PROVE  WeightOf(w, FalseClauses(I, val)) = Total(Priced(I, N, w, 0))
<1> DEFINE C == FalseClauses(I, val)
           v == [c \in C |-> w[c]]
           f == Priced(I, N, w, 0)
<1>1. C \in SUBSET (DOMAIN I) /\ \A c \in DOMAIN I : c \in C <=> N[c] = 0
  BY FalseIs
<1>2. v \in [C -> Int] /\ f \in [DOMAIN I -> Int]
      /\ \A c \in DOMAIN I : f[c] = IF c \in C THEN v[c] ELSE 0
  <2> HIDE DEF C
  <2> QED BY <1>1 DEF Weights, Priced
<1>3. IsFiniteSet(DOMAIN I)
  BY FormulaType
<1>4. WeightOf(w, C) = Total(v)
  BY DEF WeightOf
<1> HIDE DEF C, v, f
<1>5. Total(f) = Total(v)
  BY <1>1, <1>2, <1>3, TotalWhere
<1> QED BY <1>4, <1>5 DEF C, f

(* The cost that the flip of v leads to, from the clauses that hold one of *)
(* its literals.                                                           *)
LEMMA CostAfter ==
    ASSUME NumVarAssumption, NEW I \in Formulas, Simple(I), NEW val \in [Vars -> BOOLEAN],
           NEW v \in Vars, NEW w \in Weights(I), NEW new, new = Turned(val, v),
           NEW N, N = [c \in DOMAIN I |-> NumTrueLit(I, new, c)]
    PROVE  WeightOf(w, FalseClauses(I, new))
              = WeightOf(w, FalseClauses(I, val)) + Charge(I, TrueLit(val, v), N, w, 0)
                                                  - Charge(I, FalseLit(val, v), N, w, 1)
<1> DEFINE l == TrueLit(val, v)
           D == DOMAIN I
           O == [c \in D |-> NumTrueLit(I, val, c)]
           p0 == Priced(I, N, w, 0)
           p1 == Priced(I, N, w, 1)
           old == Priced(I, O, w, 0)
           a == Charged(I, l, N, w, 0)
           b == Charged(I, -l, N, w, 1)
           mid == [c \in D |-> p0[c] + b[c]]
<1>1. /\ l \in Literals /\ -l \in Literals /\ FalseLit(val, v) = -l
      /\ new \in [Vars -> BOOLEAN]
  BY TurnedIs
<1> HIDE DEF l
<1>2. N \in [D -> Int] /\ O \in [D -> Int]
  <2>1. ASSUME NEW c \in DOMAIN I PROVE NumTrueLit(I, new, c) \in Nat
    BY <1>1, FirstTrue
  <2>2. ASSUME NEW c \in DOMAIN I PROVE NumTrueLit(I, val, c) \in Nat
    BY FirstTrue
  <2> QED BY <2>1, <2>2
<1>3. ASSUME NEW c \in D
      PROVE  /\ N[c] = O[c] - Times(I, c, l) + Times(I, c, -l)
             /\ Times(I, c, l) <= O[c] /\ O[c] \in Nat /\ N[c] \in Nat
             /\ Times(I, c, l) \in Nat /\ Times(I, c, -l) \in Nat
             /\ Times(I, c, l) + Times(I, c, -l) <= 1
  <2>1. /\ NumTrueLit(I, new, c) = NumTrueLit(I, val, c) - Times(I, c, l) + Times(I, c, -l)
        /\ Times(I, c, l) <= NumTrueLit(I, val, c)
    BY TurnedCounts DEF l
  <2>2. NumTrueLit(I, new, c) \in Nat /\ NumTrueLit(I, val, c) \in Nat
    BY <1>1, FirstTrue
  <2>3. Times(I, c, l) \in Nat /\ Times(I, c, -l) \in Nat
    BY TimesType
  <2>4. Times(I, c, l) + Times(I, c, -l) <= 1
    BY <1>1, SimpleTimes
  <2> QED BY <2>1, <2>2, <2>3, <2>4
<1>4. /\ p0 \in [D -> Int] /\ p1 \in [D -> Int] /\ old \in [D -> Int]
  BY <1>2 DEF Priced, Weights
<1>5. ASSUME NEW c \in D
      PROVE  old[c] = p0[c] + b[c] - a[c] /\ a[c] \in Int /\ b[c] \in Int
  <2>1. w[c] \in Nat
    BY DEF Weights
  <2>2. /\ p0[c] = IF N[c] = 0 THEN w[c] ELSE 0
        /\ p1[c] = IF N[c] = 1 THEN w[c] ELSE 0
        /\ old[c] = IF O[c] = 0 THEN w[c] ELSE 0
    BY DEF Priced
  <2>3. a[c] = Times(I, c, l) * p0[c] /\ b[c] = Times(I, c, -l) * p1[c]
    BY DEF Charged
  <2> DEFINE x == Times(I, c, l)
             y == Times(I, c, -l)
  <2>4. x \in {0, 1} /\ y \in {0, 1} /\ x + y <= 1 /\ N[c] = O[c] - x + y /\ x <= O[c]
        /\ O[c] \in Nat /\ N[c] \in Nat
    <3>1. /\ N[c] = O[c] - x + y /\ x <= O[c] /\ O[c] \in Nat /\ N[c] \in Nat
          /\ x \in Nat /\ y \in Nat /\ x + y <= 1
      BY <1>3
    <3> HIDE DEF x, y, O
    <3> QED BY <3>1
  <2>5. a[c] = (IF x = 1 THEN p0[c] ELSE 0) /\ b[c] = (IF y = 1 THEN p1[c] ELSE 0)
    <3>1. p0[c] \in Int /\ p1[c] \in Int
      BY <1>4
    <3> HIDE DEF a, b, p0, p1
    <3>2. x = 0 \/ x = 1
      BY <2>4
    <3>3. y = 0 \/ y = 1
      BY <2>4
    <3> QED BY <2>3, <3>1, <3>2, <3>3
  <2> HIDE DEF a, b, p0, p1, old, x, y, O
  <2>6. CASE x = 1
    BY <2>1, <2>2, <2>4, <2>5, <2>6
  <2>7. CASE x = 0 /\ y = 1
    BY <2>1, <2>2, <2>4, <2>5, <2>7
  <2>8. CASE x = 0 /\ y = 0
    BY <2>1, <2>2, <2>4, <2>5, <2>8
  <2> QED BY <2>4, <2>6, <2>7, <2>8
<1>6. /\ a \in [D -> Int] /\ b \in [D -> Int] /\ mid \in [D -> Int]
      /\ \A c \in D : mid[c] = p0[c] + 1 * b[c] /\ mid[c] = old[c] + 1 * a[c]
  <2>1. ASSUME NEW c \in D PROVE p0[c] \in Int /\ old[c] \in Int /\ a[c] \in Int /\ b[c] \in Int
    BY <1>4, <1>5
  <2>2. a = [c \in D |-> a[c]] /\ b = [c \in D |-> b[c]] /\ mid = [c \in D |-> p0[c] + b[c]]
    BY DEF Charged
  <2> HIDE DEF a, b, p0, p1, old, mid
  <2> QED BY <1>5, <2>1, <2>2
<1>7. IsFiniteSet(D)
  BY FormulaType
<1>8. Charge(I, l, N, w, 0) = Total(a) /\ Charge(I, -l, N, w, 1) = Total(b)
  <2>1. Charge(I, l, N, w, 0) = Total(a)
    BY <1>2, ChargeIs
  <2>2. Charge(I, -l, N, w, 1) = Total(b)
    BY <1>2, ChargeIs
  <2> QED BY <2>1, <2>2
<1>9. /\ WeightOf(w, FalseClauses(I, new)) = Total(p0)
      /\ WeightOf(w, FalseClauses(I, val)) = Total(old)
  <2>1. WeightOf(w, FalseClauses(I, new)) = Total(p0)
    BY FalseWeighs
  <2>2. WeightOf(w, FalseClauses(I, val)) = Total(old)
    BY FalseWeighs
  <2> QED BY <2>1, <2>2
<1> HIDE DEF D, a, b, p0, p1, old, mid, O
<1>10. Total(mid) = Total(p0) + 1 * Total(b)
  <2>1. Linear(D, p0, b, mid, 1)
    BY <1>4, <1>6 DEF Linear
  <2> QED BY <1>7, <2>1, LinearTotal
<1>11. Total(mid) = Total(old) + 1 * Total(a)
  <2>1. Linear(D, old, a, mid, 1)
    BY <1>4, <1>6 DEF Linear
  <2> QED BY <1>7, <2>1, LinearTotal
<1>12. Total(p0) \in Int /\ Total(old) \in Int /\ Total(a) \in Int /\ Total(b) \in Int
  BY <1>4, <1>6, <1>7, TotalType
<1>13. Total(p0) = Total(old) + Total(a) - Total(b)
  BY <1>10, <1>11, <1>12
<1> QED BY <1>1, <1>8, <1>9, <1>13 DEF l

-----------------------------------------------------------------------------
(* What the algorithms pick. *)

(* The members of a list. *)
LEMMA Members ==
    ASSUME NEW E, NEW s \in Lists(E), NEW S, Represents(s, S)
    PROVE  /\ ToSet(s.list) = S /\ S \subseteq E
           /\ Len(s.list) \in Nat
           /\ Len(s.list) = 0 <=> S = {}
           /\ Len(s.list) # 0 => Last(s.list) \in S
<1>1. s.list \in Seq(E) /\ DOMAIN s.list = 1..Len(s.list) /\ Len(s.list) \in Nat
  BY DEF Lists
<1>2. ToSet(s.list) = S
  BY <1>1 DEF Represents, ToSet
<1>3. ToSet(s.list) \subseteq E
  BY <1>1 DEF ToSet
<1>4. Len(s.list) # 0 => Last(s.list) \in S
  BY <1>1, <1>2 DEF Last, ToSet
<1> QED BY <1>1, <1>2, <1>3, <1>4 DEF Represents

(* The variables of a clause. *)
VarsOf(I, c) == {Var(I[c][i]) : i \in DOMAIN I[c]}

(* The variables of a clause. *)
LEMMA VarsOfType ==
    ASSUME NumVarAssumption, NEW I \in Formulas, NEW c \in DOMAIN I
    PROVE  /\ VarsOf(I, c) \subseteq Vars /\ Vars \subseteq Indices /\ NoVar \in Indices
           /\ NoVar \notin Vars
           /\ VarsOf(I, c) = {Var(l) : l \in ToSet(I[c])}
           /\ ToSet(I[c]) \subseteq Literals
<1>1. \A i \in DOMAIN I[c] : I[c][i] \in Literals /\ Var(I[c][i]) \in Vars
  BY FormulaType, LiteralType
<1> QED BY <1>1 DEF VarsOf, ToSet, Vars, Indices, NoVar, NumVarAssumption

(* What a scan of a clause has noted. *)
ScanStates(I, c) ==
    [best : VarsOf(I, c) \cup {NoVar}, score : Int, second : VarsOf(I, c) \cup {NoVar},
     score2 : Int, young : VarsOf(I, c)]

(* A score is what a flip breaks, less what it makes. *)
LEMMA LiteralScoreIs ==
    ASSUME NEW I \in Formulas, NEW s \in States(I)
    PROVE  \A l : /\ LiteralScore(I, s, l) \in Int /\ BreakScore(I, s, l) \in Nat
                 /\ LiteralScore(I, s, l) <= BreakScore(I, s, l)
<1>1. ASSUME NEW l, NEW n PROVE Cardinality({i \in DOMAIN Occurrences(I, l) :
                                    s.numTrue[Occurrences(I, l)[i]] = n}) \in Nat
  <2> DEFINE occ == Occurrences(I, l)
             S == {i \in DOMAIN occ : s.numTrue[occ[i]] = n}
  <2>1. occ \in Seq(DOMAIN I)
    BY OccurrencesAre
  <2> HIDE DEF occ
  <2>2. S \subseteq 1..Len(occ) /\ Len(occ) \in Nat
    BY <2>1
  <2>3. IsFiniteSet(1..Len(occ))
    <3> DEFINE m == Len(occ)
    <3>1. m \in Nat
      BY <2>2
    <3> HIDE DEF m
    <3>2. IsFiniteSet(1..m)
      BY <3>1, FS_Interval
    <3> QED BY <3>2 DEF m
  <2>4. IsFiniteSet(S)
    BY <2>2, <2>3, FS_Subset
  <2> HIDE DEF S
  <2>5. Cardinality(S) \in Nat
    BY <2>4, FS_CardinalityType
  <2> QED BY <2>5 DEF S, occ
<1>2. \A l : BreakScore(I, s, l) \in Nat
  BY <1>1 DEF BreakScore
<1>3. \A l : /\ LiteralScore(I, s, l) \in Int
             /\ LiteralScore(I, s, l) <= BreakScore(I, s, l)
  <2> TAKE l
  <2>1. BreakScore(I, s, l) \in Nat
    BY <1>2
  <2>2. Cardinality({i \in DOMAIN Occurrences(I, l) :
                        s.numTrue[Occurrences(I, l)[i]] = 0}) \in Nat
    BY <1>1
  <2> QED BY <2>1, <2>2 DEF LiteralScore
<1> QED BY <1>2, <1>3

(* Scores are integers. *)
LEMMA ScoreType ==
    ASSUME NEW I \in Formulas, NEW s \in States(I)
    PROVE  /\ Score(s) \in [Vars -> Int] /\ Worst(I, s) \in Int
           /\ \A l : LiteralScore(I, s, l) \in Int /\ BreakScore(I, s, l) \in Nat
<1>1. Score(s) \in [Vars -> Int]
  BY CountTypes DEF Score
<1>2. Worst(I, s) \in Int
  BY FormulaType DEF Worst, States
<1> QED BY <1>1, <1>2, LiteralScoreIs

(* The scan of a clause keeps variables of that clause. *)
LEMMA ScanType ==
    ASSUME NumVarAssumption, NEW I \in Formulas, NEW s \in States(I), NEW c \in DOMAIN I,
           NEW t \in ScanStates(I, c), NEW i \in DOMAIN I[c]
    PROVE  /\ ClauseScore(I, s, I[c][i]) \in Int
           /\ Scan(I, s, t, I[c][i]) \in ScanStates(I, c)
<1> DEFINE l == I[c][i]
           u == Var(l)
           score == ClauseScore(I, s, l)
           young == IF s.change[u] > s.change[t.young] THEN u ELSE t.young
<1>1. u \in VarsOf(I, c)
  BY DEF VarsOf
<1>2. score \in Int
  <2>1. u \in Vars
    BY <1>1, VarsOfType
  <2> QED BY <2>1, ScoreType DEF ClauseScore
<1>3. young \in VarsOf(I, c)
  BY <1>1 DEF ScanStates
<1> HIDE DEF u, score, young
<1>4. /\ [best |-> u, score |-> score, second |-> t.best, score2 |-> t.score, young |-> young]
            \in ScanStates(I, c)
      /\ [t EXCEPT !.second = u, !.score2 = score, !.young = young] \in ScanStates(I, c)
      /\ [t EXCEPT !.young = young] \in ScanStates(I, c)
  BY <1>1, <1>2, <1>3 DEF ScanStates
<1> HIDE DEF l
<1>5. Scan(I, s, t, l) \in ScanStates(I, c)
  BY <1>4 DEF Scan, Rank, u, score, young
<1> QED BY <1>2, <1>5 DEF l, score

(* The scan takes the literals of the clause one after the other. *)
LEMMA ScanLoop ==
    ASSUME NumVarAssumption, NEW I \in Formulas, NEW s \in States(I), NEW c \in DOMAIN I, I[c] # <<>>
    PROVE  \E G \in [0..Len(I[c]) -> ScanStates(I, c)] :
              /\ G[0] = [best |-> NoVar, score |-> Worst(I, s), second |-> NoVar,
                        score2 |-> Worst(I, s), young |-> Var(I[c][1])]
              /\ \A k \in 1..Len(I[c]) : G[k] = Scan(I, s, G[k - 1], I[c][k])
              /\ NoveltyScan(I, s, c) = G[Len(I[c])]
<1> DEFINE n == Len(I[c])
           A == ScanStates(I, c)
           base == [best |-> NoVar, score |-> Worst(I, s), second |-> NoVar,
                        score2 |-> Worst(I, s), young |-> Var(I[c][1])]
           each == I[c]
           Turn(t, e) == Scan(I, s, t, e)
           turn == [k \in 1..n |-> [t \in A |-> Turn(t, each[k])]]
           it == CHOOSE g : g = [t \in SUBSET (1..n) |-> IF t = {} THEN base
                                        ELSE Turn(g[t \ {Max(t)}], each[Max(t)])]
<1>1. n \in Nat /\ base \in A /\ DOMAIN each = 1..n
  <2>1. 1 \in DOMAIN I[c] /\ Len(I[c]) \in Nat /\ DOMAIN I[c] = 1..Len(I[c])
    BY FormulaType
  <2>2. Worst(I, s) \in Int /\ Var(I[c][1]) \in VarsOf(I, c)
    BY <2>1, ScoreType DEF VarsOf
  <2> QED BY <2>1, <2>2 DEF ScanStates
<1>2. turn \in Turns(n, A)
  <2> SUFFICES ASSUME NEW k \in 1..n, NEW t \in A PROVE Turn(t, each[k]) \in A
    BY DEF Turns
  <2>1. k \in DOMAIN I[c]
    BY FormulaType
  <2> HIDE DEF n
  <2> QED BY <2>1, ScanType
<1>3. NoveltyScan(I, s, c) = it[1..n]
  BY <1>1, Zenon DEF NoveltyScan, FoldLeft, MapThenFoldSet
<1> HIDE DEF n, A, base, each, Turn
<1>4. 1..n \subseteq Nat /\ IsFiniteSet(1..n)
  BY <1>1, FS_Interval
<1>5. \A t \in SUBSET (1..n) : t # {} => Max(t) \in 1..n
  BY <1>4, FS_Subset, MaxUpTo
<1>6. it = [t \in SUBSET (1..n) |-> IF t = {} THEN base
                                  ELSE Turn(it[t \ {Max(t)}], each[Max(t)])]
  <2>1. PICK g : IsLoop(g, n, A, base, turn)
    <3> HIDE DEF turn
    <3> QED BY <1>1, <1>2, LoopExists
  <2>2. g = [t \in SUBSET (1..n) |-> IF t = {} THEN base
                                    ELSE Turn(g[t \ {Max(t)}], each[Max(t)])]
    BY <1>5, <2>1 DEF IsLoop
  <2> QED BY <2>2
<1> HIDE DEF it
<1>7. Iterates(it, n, A, base, turn)
  BY <1>5, <1>6 DEF Iterates
<1>8. PICK G : Values(G, n, A, base, turn) /\ G[n] = it[1..n]
  <2> HIDE DEF turn
  <2> QED BY <1>1, <1>2, <1>7, LoopValues
<1>9. G \in [0..n -> A] /\ G[0] = base
  BY <1>8 DEF Values
<1>10. \A k \in 1..n : G[k] = Turn(G[k - 1], each[k])
  <2> TAKE k \in 1..n
  <2>1. k - 1 \in 0..n
    BY <1>1
  <2>2. G[k - 1] \in A
    BY <1>9, <2>1
  <2>3. G[k] = turn[k][G[k - 1]]
    BY <1>8 DEF Values
  <2> QED BY <1>1, <2>2, <2>3
<1> HIDE DEF turn
<1> QED BY <1>3, <1>8, <1>9, <1>10 DEF n, A, base, each, Turn

(* The scan of a clause whose literals have a score finds one, and another *)
(* where there is one.                                                     *)
LEMMA ScanFinds ==
    ASSUME NumVarAssumption, NEW I \in Formulas, NEW s \in States(I), NEW c \in DOMAIN I,
           I[c] # <<>>, NEW t, t = NoveltyScan(I, s, c)
    PROVE  /\ t \in ScanStates(I, c)
           /\ (\A i \in DOMAIN I[c] : ClauseScore(I, s, I[c][i]) < Worst(I, s)) =>
                 /\ t.best # NoVar
                 /\ Len(I[c]) # 1 => t.second # NoVar
<1>1. PICK G \in [0..Len(I[c]) -> ScanStates(I, c)] :
         /\ G[0] = [best |-> NoVar, score |-> Worst(I, s), second |-> NoVar,
                    score2 |-> Worst(I, s), young |-> Var(I[c][1])]
         /\ \A k \in 1..Len(I[c]) : G[k] = Scan(I, s, G[k - 1], I[c][k])
         /\ NoveltyScan(I, s, c) = G[Len(I[c])]
  BY ScanLoop
<1> DEFINE n == Len(I[c])
<1>2. n \in Nat /\ n # 0 /\ DOMAIN I[c] = 1..n /\ t = G[n] /\ t \in ScanStates(I, c)
  BY <1>1, FormulaType
<1>3. ASSUME \A i \in DOMAIN I[c] : ClauseScore(I, s, I[c][i]) < Worst(I, s)
      PROVE  t.best # NoVar /\ (n # 1 => t.second # NoVar)
  <2> DEFINE worst == Worst(I, s)
             Inv(k) == /\ k >= 1 => G[k].best # NoVar /\ G[k].score < worst
                       /\ k >= 2 => G[k].second # NoVar
                       /\ k <= 1 => G[k].score2 = worst
                       /\ k = 0 => G[k].score = worst
             T == {k \in 0..n : Inv(k)}
  <2>1. worst \in Int
    BY ScoreType
  <2>2. 0 \in T
    BY <1>1, <1>2
  <2>3. ASSUME NEW k \in 1..n, k - 1 \in T PROVE k \in T
    <3> DEFINE r == G[k - 1]
               l == I[c][k]
               u == Var(l)
               score == ClauseScore(I, s, l)
    <3>1. k - 1 \in 0..n /\ k \in 0..n /\ k \in DOMAIN I[c]
      BY <1>2
    <3>2. r \in ScanStates(I, c) /\ G[k] = Scan(I, s, r, l) /\ Inv(k - 1)
      BY <1>1, <2>3, <3>1
    <3>3. score \in Int /\ score < worst
      BY <1>3, <3>1, <3>2, ScanType
    <3>4. u # NoVar
      <4>1. u \in VarsOf(I, c)
        BY <3>1 DEF VarsOf
      <4> QED BY <4>1, VarsOfType
    <3> DEFINE young == IF s.change[u] > s.change[r.young] THEN u ELSE r.young
    <3>5. G[k] = CASE Before(s, score, u, r.score, r.best) ->
                         [best |-> u, score |-> score, second |-> r.best,
                          score2 |-> r.score, young |-> young]
                   [] ~Before(s, score, u, r.score, r.best)
                      /\ Before(s, score, u, r.score2, r.second) ->
                         [r EXCEPT !.second = u, !.score2 = score, !.young = young]
                   [] OTHER -> [r EXCEPT !.young = young]
      BY <3>2 DEF Scan, Rank
    <3> HIDE DEF r, l, u, score, young, worst, n
    <3>6. r.score \in Int /\ r.score2 \in Int
      BY <3>2 DEF ScanStates
    <3>7. /\ k >= 2 => r.best # NoVar /\ r.score < worst
          /\ k >= 3 => r.second # NoVar
          /\ k <= 2 => r.score2 = worst
          /\ k = 1 => r.score = worst
      BY <1>2, <3>2 DEF r
    <3>8. Inv(k)
      <4>1. CASE Before(s, score, u, r.score, r.best)
        <5>1. G[k] = [best |-> u, score |-> score, second |-> r.best,
                      score2 |-> r.score, young |-> young]
          BY <3>5, <4>1
        <5> QED BY <3>3, <3>4, <3>7, <5>1
      <4>2. CASE /\ ~Before(s, score, u, r.score, r.best)
                 /\ Before(s, score, u, r.score2, r.second)
        <5>1. G[k] = [r EXCEPT !.second = u, !.score2 = score, !.young = young]
          BY <3>5, <4>2
        <5>2. /\ G[k].best = r.best /\ G[k].score = r.score
              /\ G[k].second = u /\ G[k].score2 = score
          BY <3>2, <5>1 DEF ScanStates
        <5>3. k # 1
          BY <3>3, <3>7, <4>2 DEF Before
        <5> QED BY <3>3, <3>4, <3>7, <5>2, <5>3
      <4>3. CASE /\ ~Before(s, score, u, r.score, r.best)
                 /\ ~Before(s, score, u, r.score2, r.second)
        <5>1. G[k] = [r EXCEPT !.young = young]
          BY <3>5, <4>3
        <5>2. /\ G[k].best = r.best /\ G[k].score = r.score
              /\ G[k].second = r.second /\ G[k].score2 = r.score2
          BY <3>2, <5>1 DEF ScanStates
        <5>3. ~(score < r.score) /\ ~(score < r.score2)
          BY <4>3 DEF Before
        <5>4. k # 1 /\ k # 2
          BY <3>3, <3>6, <3>7, <5>3
        <5> QED BY <3>7, <5>2, <5>4
      <4> QED BY <4>1, <4>2, <4>3
    <3> QED BY <3>1, <3>8
  <2>4. n \in T
    <3> HIDE DEF T
    <3>1. \A k \in 0..n : k \in T
      BY <1>2, <2>2, <2>3, UpTo
    <3> QED BY <1>2, <3>1
  <2> HIDE DEF n
  <2> QED BY <1>2, <2>4
<1> QED BY <1>2, <1>3

(* A variable of a false clause. *)
InFalse(I, s, u) == \E c \in FalseClauses(I, s.val) : u \in VarsOf(I, c)

(* A false clause has nothing but false literals; it is in the list. *)
LEMMA FalseOnes ==
    ASSUME NumVarAssumption, NEW I \in Formulas, NEW s, Exact(I, s)
    PROVE  /\ ToSet(s.falses.list) = FalseClauses(I, s.val)
           /\ FalseClauses(I, s.val) \subseteq DOMAIN I
           /\ \A c \in FalseClauses(I, s.val) : s.numTrue[c] = 0
           /\ \A c \in DOMAIN I : s.numTrue[c] = 0 => c \in FalseClauses(I, s.val)
           /\ NumFalse(s) \in Nat
           /\ NumFalse(s) = 0 <=> FalseClauses(I, s.val) = {}
           /\ NumFalse(s) # 0 => Last(s.falses.list) \in FalseClauses(I, s.val)
<1>1. /\ s.falses \in Lists(DOMAIN I)
      /\ Represents(s.falses, {c \in DOMAIN I : s.numTrue[c] = 0})
  BY DEF Exact, Consistent, ListOK, States
<1>2. FalseClauses(I, s.val) = {c \in DOMAIN I : s.numTrue[c] = 0}
  <2>1. FalseClauses(I, s.val) = {c \in DOMAIN I : NumTrueLit(I, s.val, c) = 0}
    BY FalseIs
  <2>2. \A c \in DOMAIN I : s.numTrue[c] = NumTrueLit(I, s.val, c)
    BY DEF Exact, Numbers
  <2> QED BY <2>1, <2>2
<1>3. Represents(s.falses, FalseClauses(I, s.val))
  BY <1>1, <1>2
<1> QED BY <1>1, <1>2, <1>3, Members DEF NumFalse

(* A random walk flips a variable of a false clause, if there is one. *)
LEMMA WalkIs ==
    ASSUME NumVarAssumption, NEW I \in Formulas, NEW s, Exact(I, s), NEW v \in Walk(I, s)
    PROVE  \/ v \in Vars /\ InFalse(I, s, v)
           \/ v = NoVar /\ FalseClauses(I, s.val) = {}
<1>1. CASE NumFalse(s) = 0
  BY <1>1, FalseOnes DEF Walk
<1>2. CASE NumFalse(s) # 0
  <2>1. PICK c \in ToSet(s.falses.list) : v \in VarsOf(I, c)
    BY <1>2 DEF Walk, VarsOf
  <2>2. c \in FalseClauses(I, s.val) /\ c \in DOMAIN I
    BY <2>1, FalseOnes
  <2>3. v \in Vars
    BY <2>1, <2>2, VarsOfType
  <2> QED BY <2>1, <2>2, <2>3 DEF InFalse
<1> QED BY <1>1, <1>2

(* The variables that make a clause are those of the false ones. *)
LEMMA ListedInFalse ==
    ASSUME NumVarAssumption, NEW I \in Formulas, NEW s, Exact(I, s), KeepsVars,
           NEW v \in ToSet(s.vars.list)
    PROVE  v \in Vars /\ InFalse(I, s, v) /\ s.make[v] > 0
<1>1. s \in States(I) /\ s.vars \in Lists(Vars) /\ MakeOK(I, s)
      /\ Represents(s.vars, {u \in Vars : s.make[u] > 0})
  BY DEF Exact, Consistent, MakeOK, VarsKept, States
<1>2. v \in Vars /\ s.make[v] > 0
  BY <1>1, Members
<1> DEFINE f == [c \in DOMAIN I |-> Demand(I, s, Units(I), c, v)]
<1>3. s.make[v] = Total(f)
  BY <1>1, <1>2 DEF MakeOK, MakeOf
<1>4. f \in [DOMAIN I -> Int] /\ IsFiniteSet(DOMAIN I)
  BY <1>1, UnitsType, SumTypes, FormulaType
<1>5. PICK c \in DOMAIN I : f[c] # 0
  <2> SUFFICES ASSUME \A c \in DOMAIN I : f[c] = 0 PROVE FALSE
    OBVIOUS
  <2> HIDE DEF f
  <2>1. Total(f) = 0
    BY <1>4, TotalZero
  <2> QED BY <1>2, <1>3, <2>1
<1>6. s.numTrue[c] <= 0 /\ VarTimes(I, c, v) # 0
  <2>1. s.numTrue[c] \in Int /\ VarTimes(I, c, v) \in Nat /\ Units(I)[c] \in Int
    BY <1>1, UnitsType, TimesType DEF States
  <2>2. ~(s.numTrue[c] > 0) /\ Units(I)[c] * VarTimes(I, c, v) # 0
    BY <1>5 DEF Demand
  <2>3. Units(I)[c] * 0 = 0
    BY <2>1
  <2> QED BY <2>1, <2>2, <2>3
<1>7. c \in FalseClauses(I, s.val)
  <2>1. s.numTrue[c] >= 0 /\ s.numTrue[c] \in Int
    BY <1>1 DEF Exact, Consistent, ListOK, States
  <2> QED BY <1>6, <2>1, FalseOnes
<1>8. v \in VarsOf(I, c)
  <2>1. {i \in DOMAIN I[c] : Var(I[c][i]) = v} # {}
    BY <1>6, FS_EmptySet DEF VarTimes
  <2> QED BY <2>1 DEF VarsOf
<1> QED BY <1>2, <1>7, <1>8 DEF InFalse

(* The literals of a false clause are those that a flip makes true. *)
LEMMA FalseLitIs ==
    ASSUME NumVarAssumption, NEW I \in Formulas, NEW s, Exact(I, s),
           NEW c \in FalseClauses(I, s.val), NEW i \in DOMAIN I[c], NEW l, l = I[c][i]
    PROVE  /\ l \in Literals /\ Var(l) \in Vars /\ ~IsLitTrue(s.val, l)
           /\ TrueLit(s.val, Var(l)) = -l
<1>1. c \in DOMAIN I /\ ~IsLitTrue(s.val, l)
  BY DEF FalseClauses
<1>2. l \in Literals /\ Var(l) \in Vars /\ l \in Int /\ l # 0
  BY <1>1, FormulaType, LiteralType
<1>3. s.val \in [Vars -> BOOLEAN]
  BY DEF Exact, States
<1>4. l > 0 <=> ~s.val[Var(l)]
  BY <1>1, <1>2, <1>3, LitTrue
<1>5. TrueLit(s.val, Var(l)) = -l
  BY <1>2, <1>4 DEF TrueLit, Var
<1> QED BY <1>1, <1>2, <1>5

(* It breaks no more than all clauses, and where it breaks none there is   *)
(* none to break.                                                          *)
LEMMA BreakScoreIs ==
    ASSUME NumVarAssumption, NEW I \in Formulas, NEW s, Exact(I, s),
           NEW c \in FalseClauses(I, s.val), NEW i \in DOMAIN I[c], NEW l, l = I[c][i]
    PROVE  /\ BreakScore(I, s, l) <= Len(I)
           /\ Simple(I) /\ BreakScore(I, s, l) = 0 => Breaks(I, s.val, Var(l)) = {}
<1> DEFINE u == Var(l)
           nl == -l
           occ == Occurrences(I, nl)
           N == s.numTrue
           one == [e \in DOMAIN I |-> 1]
           C == {k \in DOMAIN occ : N[occ[k]] = 1}
           f == [k \in DOMAIN occ |-> IF k \in C THEN 1 ELSE 0]
           g == Charged(I, nl, N, one, 1)
<1>1. /\ l \in Literals /\ u \in Vars /\ ~IsLitTrue(s.val, l) /\ TrueLit(s.val, u) = nl
      /\ nl \in Literals
  BY FalseLitIs, LiteralType
<1>2. s \in States(I) /\ s.val \in [Vars -> BOOLEAN] /\ N \in [DOMAIN I -> Int]
      /\ \A e \in DOMAIN I : N[e] = NumTrueLit(I, s.val, e)
  BY DEF Exact, States, Numbers
<1>3. /\ occ \in Seq(DOMAIN I)
      /\ \A e \in DOMAIN I : Cardinality(OccursAt(occ, e)) = Times(I, e, nl)
  BY OccurrencesAre
<1>4. IsFiniteSet(DOMAIN I) /\ one \in Weights(I) /\ one \in [DOMAIN I -> Int]
  BY FormulaType DEF Weights
<1>5. BreakScore(I, s, l) = Cardinality(C)
  BY DEF BreakScore
<1> HIDE DEF occ
<1>6. f \in [DOMAIN occ -> Int] /\ IsFiniteSet(DOMAIN occ) /\ C \in SUBSET (DOMAIN occ)
      /\ \A k \in DOMAIN occ : f[k] = IF k \in C THEN 1 ELSE 0
  <2>1. IsFiniteSet(DOMAIN occ)
    <3> DEFINE m == Len(occ)
    <3>1. m \in Nat /\ DOMAIN occ = 1..m
      BY <1>3
    <3> HIDE DEF m
    <3>2. IsFiniteSet(1..m)
      BY <3>1, FS_Interval
    <3> QED BY <3>1, <3>2
  <2> QED BY <2>1
<1>7. Charge(I, nl, N, one, 1) = Total(f)
  <2>1. [k \in DOMAIN occ |-> IF N[occ[k]] = 1 THEN one[occ[k]] ELSE 0] = f
    BY <1>3
  <2>2. Charge(I, nl, N, one, 1)
          = Total([k \in DOMAIN occ |-> IF N[occ[k]] = 1 THEN one[occ[k]] ELSE 0])
    BY Zenon DEF Charge, occ
  <2> QED BY <2>1, <2>2, Zenon
<1>8. Charge(I, nl, N, one, 1) = Total(g)
  <2> HIDE DEF one, g, nl
  <2>1. Charge(I, nl, N, one, 1) = Total(Charged(I, nl, N, one, 1))
    BY <1>2, <1>4, ChargeIs, ZenonT(30)
  <2> QED BY <2>1 DEF g
<1>9. ASSUME NEW e \in DOMAIN I PROVE g[e] \in Int /\ g[e] <= one[e]
  <2>1. Times(I, e, nl) \in Nat /\ Times(I, e, nl) <= N[e]
    <3>1. Times(I, e, nl) \in Nat
      BY TimesType
    <3>2. nl = TrueLit(s.val, u)
      BY <1>1
    <3> HIDE DEF nl, u
    <3>3. Times(I, e, nl) <= NumTrueLit(I, s.val, e)
      BY <1>1, <1>2, <3>2, TurnedCounts
    <3>4. N[e] = NumTrueLit(I, s.val, e)
      BY <1>2
    <3> QED BY <3>1, <3>3, <3>4
  <2>2. g[e] = Times(I, e, nl) * (IF N[e] = 1 THEN 1 ELSE 0)
    BY DEF Charged, Priced
  <2> DEFINE x == Times(I, e, nl)
  <2>3. x * 1 = x /\ x * 0 = 0 /\ x \in Int
    BY <2>1
  <2>4. one[e] = 1
    OBVIOUS
  <2> HIDE DEF x, g, one
  <2> QED BY <2>1, <2>2, <2>3, <2>4 DEF x
<1>10. g \in [DOMAIN I -> Int] /\ \A e \in DOMAIN I : g[e] <= one[e] /\ one[e] = 1
  <2>1. g = [e \in DOMAIN I |-> g[e]]
    BY DEF Charged
  <2> QED BY <1>9, <2>1
<1>11. BreakScore(I, s, l) <= Len(I)
  <2> HIDE DEF g, one, f, C
  <2>1. Total(f) = Cardinality(C)
    BY <1>6, TotalCount
  <2>2. Total(g) <= Total(one)
    BY <1>4, <1>10, TotalOrder
  <2>3. Total(one) = Len(I)
    BY <1>4, <1>10, TotalOnes
  <2> QED BY <1>5, <1>7, <1>8, <2>1, <2>2, <2>3
<1>12. ASSUME Simple(I), NEW e \in Breaks(I, s.val, u) PROVE C # {}
  <2>1. e \in DOMAIN I
    BY DEF Breaks, FalseClauses
  <2>2. NumTrueLit(I, s.val, e) = 1 /\ FirstTrueVar(I, s.val, e) = u
    BY <1>1, <1>2, <1>12, <2>1, MakesAndBreaks
  <2>3. PICK j \in DOMAIN I[e] : IsLitTrue(s.val, I[e][j]) /\ u = Var(I[e][j])
    <3>1. NumTrueLit(I, s.val, e) # 0 =>
             \E j \in DOMAIN I[e] : /\ IsLitTrue(s.val, I[e][j])
                                    /\ FirstTrueVar(I, s.val, e) = Var(I[e][j])
      BY <1>2, <2>1, FirstTrue
    <3> HIDE DEF u
    <3> QED BY <2>2, <3>1
  <2>4. I[e][j] = nl
    <3>1. I[e][j] \in Literals
      BY <2>1, FormulaType
    <3>2. I[e][j] = l \/ I[e][j] = nl
      BY <1>1, <2>3, <3>1, LiteralType DEF Literals, Var
    <3> QED BY <1>1, <2>3, <3>2
  <2>5. {k \in DOMAIN I[e] : I[e][k] = nl} # {}
    BY <2>4
  <2>6. Times(I, e, nl) # 0
    <3>1. IsFiniteSet({k \in DOMAIN I[e] : I[e][k] = nl})
      BY <2>1, TimesType
    <3> QED BY <2>5, <3>1, FS_EmptySet DEF Times
  <2>7. OccursAt(occ, e) # {}
    BY <1>3, <2>1, <2>6, FS_EmptySet
  <2>8. PICK k \in DOMAIN occ : occ[k] = e
    BY <2>7 DEF OccursAt
  <2> QED BY <1>2, <2>1, <2>2, <2>8
<1>13. ASSUME Simple(I), BreakScore(I, s, l) = 0 PROVE Breaks(I, s.val, u) = {}
  <2>1. IsFiniteSet(C)
    BY <1>6, FS_Subset
  <2>2. C = {}
    <3> HIDE DEF C
    <3> QED BY <1>5, <1>13, <2>1, FS_EmptySet
  <2> QED BY <1>12, <1>13, <2>2
<1> QED BY <1>11, <1>13

(* What flipping a variable of a false clause with a weight breaks and     *)
(* makes weighs less than all clauses.                                     *)
LEMMA WeightScoreIs ==
    ASSUME NumVarAssumption, NEW I \in Formulas, NEW s, Summed(I, s),
           NEW c \in FalseClauses(I, s.val), s.weight[c] > 0, NEW u \in Vars
    PROVE  s.breakW[u] - s.makeW[u] < s.sum
<1> DEFINE w == s.weight
           f == [e \in DOMAIN I |-> Credit(s, w, {}, e, u)]
           g == [e \in DOMAIN I |-> IF e = c THEN 0 ELSE w[e]]
<1>1. /\ s \in States(I) /\ Exact(I, s) /\ MakeOK(I, s) /\ BreakOK(I, s, {})
      /\ s.sum = Total(w)
  BY DEF Summed, Exact, Consistent
<1>2. /\ w \in [DOMAIN I -> Nat] /\ w \in [DOMAIN I -> Int] /\ IsFiniteSet(DOMAIN I)
  BY <1>1, FormulaType, SMTT(30) DEF States
<1>3. c \in DOMAIN I /\ s.numTrue[c] = 0
  BY <1>1, FalseOnes
<1>4. /\ f \in [DOMAIN I -> Int] /\ g \in [DOMAIN I -> Int]
      /\ \A e \in DOMAIN I : f[e] <= g[e]
  BY <1>2, <1>3 DEF Credit
<1>5. BreakOf(I, s, w, {}, u) = Total(f)
  BY DEF BreakOf
<1> HIDE DEF f
<1>6. Total(f) <= Total(g)
  <2> HIDE DEF g
  <2> QED BY <1>2, <1>4, TotalOrder
<1>7. Total(w) = Total(g) + w[c] - g[c] /\ g[c] = 0
  <2>1. g[c] = 0 /\ \A e \in DOMAIN I : e # c => w[e] = g[e]
    BY <1>3
  <2> HIDE DEF g
  <2>2. Total(w) = Total(g) + w[c] - g[c]
    <3> HIDE DEF w
    <3> QED BY <1>2, <1>3, <1>4, <2>1, TotalPoint
  <2> QED BY <2>1, <2>2
<1>8. s.breakW[u] <= BreakOf(I, s, w, {}, u) /\ s.makeW[u] = MakeOf(I, s, w, u)
  BY <1>1 DEF BreakOK, MakeOK
<1>9. MakeOf(I, s, w, u) >= 0 /\ MakeOf(I, s, w, u) \in Int
  <2>1. MakeOf(I, s, w, u) >= Demand(I, s, w, c, u) /\ Demand(I, s, w, c, u) >= 0
    BY <1>1, <1>2, <1>3, MakeAtLeast
  <2>2. MakeOf(I, s, w, u) \in Int /\ Demand(I, s, w, c, u) \in Int
    BY <1>1, <1>2, <1>3, SumTypes
  <2> QED BY <2>1, <2>2
<1>10. Total(f) \in Int /\ Total(g) \in Int /\ s.breakW[u] \in Int /\ w[c] \in Int
  <2>1. Total(f) \in Int
    BY <1>2, <1>4, TotalType
  <2>2. Total(g) \in Int
    BY <1>2, <1>4, TotalType
  <2> QED BY <1>1, <1>2, <1>3, <2>1, <2>2, CountTypes
<1> HIDE DEF g
<1> QED BY <1>1, <1>5, <1>6, <1>7, <1>8, <1>9, <1>10

(* A literal of a false clause is better than the worst, if the clause has *)
(* a weight.                                                               *)
LEMMA ClauseScoreIs ==
    ASSUME NumVarAssumption, NEW I \in Formulas, NEW s, Summed(I, s),
           NEW c \in FalseClauses(I, s.val), Weighted => s.weight[c] > 0,
           NEW i \in DOMAIN I[c]
    PROVE  ClauseScore(I, s, I[c][i]) < Worst(I, s)
<1> DEFINE l == I[c][i]
<1>0. Exact(I, s) /\ s \in States(I)
  BY DEF Summed, Exact
<1>1. Var(l) \in Vars
  BY <1>0, FalseLitIs
<1>2. CASE Weighted
  <2>1. s.breakW[Var(l)] - s.makeW[Var(l)] < s.sum
    BY <1>1, <1>2, WeightScoreIs
  <2>2. Score(s)[Var(l)] = s.breakW[Var(l)] - s.makeW[Var(l)]
    BY <1>1, <1>2 DEF Score
  <2> QED BY <1>2, <2>1, <2>2 DEF ClauseScore, Worst
<1>3. CASE ~Weighted
  <2>1. BreakScore(I, s, l) <= Len(I) /\ Len(I) \in Nat
    BY <1>0, BreakScoreIs, FormulaType
  <2>2. LiteralScore(I, s, l) <= BreakScore(I, s, l) /\ LiteralScore(I, s, l) \in Int
        /\ BreakScore(I, s, l) \in Nat
    BY <1>0, LiteralScoreIs
  <2> QED BY <1>3, <2>1, <2>2 DEF ClauseScore, Worst
<1> QED BY <1>2, <1>3

-----------------------------------------------------------------------------
(* The walks. *)

(* A clause in which no variable may be flipped. *)
StuckAt(I, s, c, step, p) ==
    \/ algorithm \in NoveltyLike /\ Len(I[c]) = 1
    \/ algorithm = "novelty+-w" /\ s.weight[c] = 0
    \/ /\ algorithm = "walksat-tabu"
       /\ \A i \in DOMAIN I[c] : Tabu(s, Var(I[c][i]), step, p)

(* Where a walk goes. *)
WalksTo(I, s, v, step, p) ==
    \/ v \in Vars /\ InFalse(I, s, v)
    \/ v = NoVar /\ FalseClauses(I, s.val) = {}
    \/ v = NoVar /\ \E c \in FalseClauses(I, s.val) : StuckAt(I, s, c, step, p)

(* Novelty and its variants stay in the clause, but where its weight is 0. *)
LEMMA NoveltyGoes ==
    ASSUME NumVarAssumption, NEW I \in Formulas, \A c \in DOMAIN I : I[c] # <<>>,
           NEW s, Summed(I, s), algorithm \in NoveltyLike, NEW step, NEW p,
           p.noise \in {-1, 0, 1}, NEW v \in NoveltyPicks(I, s, p)
    PROVE  WalksTo(I, s, v, step, p)
<1>0. Exact(I, s) /\ s \in States(I)
  BY DEF Summed, Exact
<1>1. CASE NumFalse(s) = 0
  BY <1>0, <1>1, FalseOnes DEF NoveltyPicks, WalksTo
<1>2. CASE NumFalse(s) # 0
  <2>1. PICK c \in Chosen(s) :
           v \in IF algorithm \in {"rnovelty", "rnovelty+"} THEN PickRNovelty(I, s, c, p)
                 ELSE PickNovelty(I, s, c)
    BY <1>2 DEF NoveltyPicks
  <2>2. c \in FalseClauses(I, s.val) /\ c \in DOMAIN I
    BY <1>0, <1>2, <2>1, FalseOnes DEF Chosen
  <2> DEFINE t == NoveltyScan(I, s, c)
  <2>3. /\ t \in ScanStates(I, c)
        /\ (\A i \in DOMAIN I[c] : ClauseScore(I, s, I[c][i]) < Worst(I, s)) =>
              /\ t.best # NoVar
              /\ Len(I[c]) # 1 => t.second # NoVar
    BY <1>0, <2>2, ScanFinds
  <2>4. t.score \in Int /\ t.score2 \in Int
        /\ t.best \in VarsOf(I, c) \cup {NoVar} /\ t.second \in VarsOf(I, c) \cup {NoVar}
    BY <2>3 DEF ScanStates
  <2>5. v = t.best \/ v = t.second
    <3>1. CASE v \in PickNovelty(I, s, c)
      BY <3>1 DEF PickNovelty
    <3>2. CASE v \in PickRNovelty(I, s, c, p)
      <4> DEFINE margin == t.score2 - t.score
      <4>1. margin \in Int
        BY <2>4
      <4>2. v \in CASE t.best # t.young                          -> {t.best}
                    [] t.best = t.young /\ p.noise < 0 /\ margin > 1 -> {t.best}
                    [] t.best = t.young /\ p.noise < 0 /\ margin = 1 -> {t.best, t.second}
                    [] t.best = t.young /\ p.noise < 0 /\ margin < 1 -> {t.second}
                    [] t.best = t.young /\ p.noise >= 0 /\ margin = 1 -> {t.second}
                    [] t.best = t.young /\ p.noise = 0 /\ margin # 1  -> {t.best}
                    [] t.best = t.young /\ p.noise > 0 /\ margin # 1  -> {t.best, t.second}
        BY <3>2 DEF PickRNovelty
      <4> HIDE DEF t, margin
      <4> QED BY <4>1, <4>2
    <3> QED BY <2>1, <3>1, <3>2
  <2> HIDE DEF t
  <2>6. CASE v # NoVar
    <3>1. v \in VarsOf(I, c)
      BY <2>4, <2>5, <2>6
    <3>2. v \in Vars
      BY <2>2, <3>1, VarsOfType
    <3> QED BY <2>2, <3>1, <3>2 DEF WalksTo, InFalse
  <2>7. CASE v = NoVar
    <3>1. CASE Weighted /\ ~(s.weight[c] > 0)
      <4>1. algorithm = "novelty+-w" /\ s.weight[c] = 0
        <5>1. s.weight[c] \in Nat
          BY <1>0, <2>2 DEF States
        <5> QED BY <3>1, <5>1 DEF Weighted, NoveltyLike
      <4> QED BY <2>2, <2>7, <4>1 DEF WalksTo, StuckAt
    <3>2. CASE Weighted => s.weight[c] > 0
      <4>1. \A i \in DOMAIN I[c] : ClauseScore(I, s, I[c][i]) < Worst(I, s)
        BY <2>2, <3>2, ClauseScoreIs
      <4>2. Len(I[c]) = 1
        BY <2>3, <2>5, <2>7, <4>1
      <4> QED BY <2>2, <2>7, <4>2 DEF WalksTo, StuckAt
    <3> QED BY <3>1, <3>2
  <2> QED BY <2>6, <2>7
<1> QED BY <1>1, <1>2

(* The walk stays in a false clause. *)
LEMMA WalkGoes ==
    ASSUME NumVarAssumption, NEW I \in Formulas, NEW s, Exact(I, s), NEW step, NEW p,
           NEW v \in Walk(I, s)
    PROVE  WalksTo(I, s, v, step, p)
BY WalkIs DEF WalksTo

(* The literals of a false clause. *)
LEMMA LiteralGoes ==
    ASSUME NumVarAssumption, NEW I \in Formulas, NEW s, Exact(I, s),
           NEW c \in FalseClauses(I, s.val), NEW l \in ToSet(I[c])
    PROVE  Var(l) \in Vars /\ InFalse(I, s, Var(l))
<1>1. c \in DOMAIN I
  BY FalseOnes
<1>2. Var(l) \in VarsOf(I, c)
  BY <1>1, VarsOfType
<1> QED BY <1>1, <1>2, VarsOfType DEF InFalse

(* So does WalkSAT. *)
LEMMA WalkSatGoes ==
    ASSUME NumVarAssumption, NEW I \in Formulas, NEW s, Exact(I, s), NEW step, NEW p,
           NEW v \in PickWALKSATSKG(I, s)
    PROVE  WalksTo(I, s, v, step, p)
<1>1. CASE NumFalse(s) = 0
  BY <1>1, FalseOnes DEF PickWALKSATSKG, WalksTo
<1>2. CASE NumFalse(s) # 0
  <2>1. PICK c \in ToSet(s.falses.list) : \E l \in ToSet(I[c]) : v = Var(l)
    BY <1>2 DEF PickWALKSATSKG, LeastBroken
  <2>2. PICK l \in ToSet(I[c]) : v = Var(l)
    BY <2>1
  <2>3. c \in FalseClauses(I, s.val)
    BY <2>1, FalseOnes
  <2> QED BY <2>2, <2>3, LiteralGoes DEF WalksTo
<1> QED BY <1>1, <1>2

(* WALKSAT-TABU flips what is not tabu, or breaks nothing. *)
LEMMA WalkSatTabuGoes ==
    ASSUME NumVarAssumption, NEW I \in Formulas, NEW s, Exact(I, s), NEW step, NEW p,
           NEW v \in PickWALKSATTABU(I, s, step, p), algorithm = "walksat-tabu"
    PROVE  /\ WalksTo(I, s, v, step, p)
           /\ v # NoVar => \/ ~Tabu(s, v, step, p)
                           \/ Simple(I) => Breaks(I, s.val, v) = {}
<1> DEFINE free(c) == {l \in ToSet(I[c]) :
                          BreakScore(I, s, l) = 0 \/ ~Tabu(s, Var(l), step, p)}
<1>1. CASE NumFalse(s) = 0
  BY <1>1, FalseOnes DEF PickWALKSATTABU, WalksTo
<1>2. CASE NumFalse(s) # 0
  <2>1. PICK c \in ToSet(s.falses.list) :
           v \in IF free(c) = {} THEN {NoVar} ELSE {Var(l) : l \in LeastBroken(I, s, free(c))}
    BY <1>2 DEF PickWALKSATTABU
  <2>2. c \in FalseClauses(I, s.val) /\ c \in DOMAIN I
    BY <2>1, FalseOnes
  <2>3. CASE free(c) = {}
    <3>1. v = NoVar
      BY <2>1, <2>3
    <3>2. ASSUME NEW i \in DOMAIN I[c] PROVE Tabu(s, Var(I[c][i]), step, p)
      <4>1. I[c][i] \in ToSet(I[c])
        BY DEF ToSet
      <4> QED BY <2>3, <4>1
    <3> QED BY <2>2, <3>1, <3>2 DEF WalksTo, StuckAt
  <2>4. CASE free(c) # {}
    <3>1. PICK l \in free(c) : v = Var(l)
      BY <2>1, <2>4 DEF LeastBroken
    <3>2. WalksTo(I, s, v, step, p)
      BY <2>2, <3>1, LiteralGoes DEF WalksTo
    <3>3. PICK i \in DOMAIN I[c] : l = I[c][i]
      BY <3>1 DEF ToSet
    <3>4. BreakScore(I, s, l) = 0 \/ ~Tabu(s, v, step, p)
      BY <3>1
    <3>5. Simple(I) /\ BreakScore(I, s, l) = 0 => Breaks(I, s.val, v) = {}
      BY <2>2, <3>1, <3>3, BreakScoreIs
    <3> QED BY <3>2, <3>4, <3>5
  <2> QED BY <2>3, <2>4
<1> QED BY <1>1, <1>2

(* GWSAT and HWSAT walk or take a variable of the least score. *)
LEMMA GreedyWalkGoes ==
    ASSUME NumVarAssumption, NEW I \in Formulas, NEW s, Exact(I, s), NEW step, NEW p, NEW v,
           \/ algorithm \in {"gwsat", "gwsat-w"} /\ v \in PickGWSAT(s)
           \/ algorithm = "hwsat" /\ v \in PickHWSAT(I, s)
    PROVE  WalksTo(I, s, v, step, p) \/ v \in Least(s, Vars)
<1>1. CASE algorithm = "hwsat" /\ v \in PickHWSAT(I, s)
  BY <1>1, WalkGoes DEF PickHWSAT, PickHSAT
<1>2. CASE algorithm \in {"gwsat", "gwsat-w"} /\ v \in PickGWSAT(s)
  <2>1. KeepsVars
    BY <1>2 DEF KeepsVars
  <2>2. CASE v \in PickGSAT(s)
    BY <2>2 DEF PickGSAT
  <2>3. CASE NumFalse(s) = 0 /\ v = NoVar
    BY <2>3, FalseOnes DEF WalksTo
  <2>4. CASE v \in ToSet(s.vars.list)
    BY <2>1, <2>4, ListedInFalse DEF WalksTo
  <2> QED BY <1>2, <2>2, <2>3, <2>4 DEF PickGWSAT
<1> QED BY <1>1, <1>2

-----------------------------------------------------------------------------
(* What each algorithm may pick. *)

(* The new head, and what the tabu search picks, is a variable or none. *)
LEMMA HeadIs ==
    ASSUME NumVarAssumption, NEW I \in Formulas, NEW s \in States(I), NEW step, NEW p
    PROVE  /\ NewHead(s, step, p) \in Indices
           /\ \A v \in PickGSATTABU(s, step, p) : v \in Indices
<1> DEFINE C == Least(s, Free(s, step, p))
<1>0. s.head \in Indices
  BY DEF States
<1>1. C \subseteq Vars /\ Vars \subseteq Indices /\ Vars \subseteq Nat
  <2>1. C \subseteq Vars
    BY DEF Least, Free
  <2> HIDE DEF C
  <2> QED BY <2>1, NumVarAssumption DEF Vars, Indices
<1>2. C # {} => Min(C) \in C
  <2> SUFFICES ASSUME C # {} PROVE Min(C) \in C
    OBVIOUS
  <2> HIDE DEF C
  <2>1. C \subseteq Nat
    BY <1>1
  <2>2. \E x \in C : \A y \in C : x <= y
    BY <2>1, LeastNatural
  <2> QED BY <2>2 DEF Min
<1>3. NewHead(s, step, p) = IF KeepsHead /\ C # {} THEN Min(C) ELSE s.head
  BY DEF NewHead
<1>4. PickGSATTABU(s, step, p) = IF C = {} THEN {s.head} ELSE C
  BY DEF PickGSATTABU
<1> HIDE DEF C
<1> QED BY <1>0, <1>1, <1>2, <1>3, <1>4

(* The algorithms that may flip the best of all variables. *)
Greedy == {"gsat", "hsat", "gsat-w"}

(* The algorithms that start from a false clause. *)
Walkers == NoveltyLike \cup WalkSatLike \cup {"gwsat", "gwsat-w", "hwsat"}

PicksGreedily(s, v) == algorithm \in Greedy /\ v \in Least(s, Vars)

PicksWalking(I, s, v, step, p) ==
    /\ algorithm \in Walkers
    /\ \/ WalksTo(I, s, v, step, p)
       \/ algorithm \in {"gwsat", "gwsat-w", "hwsat"} /\ v \in Least(s, Vars)
    /\ algorithm = "walksat-tabu" /\ v # NoVar =>
          ~Tabu(s, v, step, p) \/ (Simple(I) => Breaks(I, s.val, v) = {})

(* The algorithms that walk. *)
LEMMA PicksWalk ==
    ASSUME NumVarAssumption, NEW I \in Formulas, \A c \in DOMAIN I : I[c] # <<>>,
           NEW s, Summed(I, s), algorithm \in Walkers, NEW step, NEW p,
           p.noise \in {-1, 0, 1}, NEW v \in Picks(I, s, step, p)
    PROVE  PicksWalking(I, s, v, step, p)
<1>0. Exact(I, s)
  BY DEF Summed
<1>1. CASE algorithm = "walksat"
  <2>1. v \in PickWALKSATSKG(I, s)
    BY <1>1 DEF Picks
  <2>2. WalksTo(I, s, v, step, p)
    BY <1>0, <2>1, WalkSatGoes
  <2> QED BY <1>1, <2>2 DEF PicksWalking
<1>2. CASE algorithm = "walksat-tabu"
  <2>1. v \in PickWALKSATTABU(I, s, step, p)
    BY <1>2 DEF Picks
  <2>2. /\ WalksTo(I, s, v, step, p)
        /\ v # NoVar => ~Tabu(s, v, step, p) \/ (Simple(I) => Breaks(I, s.val, v) = {})
    BY <1>0, <1>2, <2>1, WalkSatTabuGoes
  <2> QED BY <1>2, <2>2 DEF PicksWalking
<1>3. CASE algorithm \in {"gwsat", "gwsat-w", "hwsat"}
  <2>1. \/ algorithm \in {"gwsat", "gwsat-w"} /\ v \in PickGWSAT(s)
        \/ algorithm = "hwsat" /\ v \in PickHWSAT(I, s)
    BY <1>3 DEF Picks
  <2>2. WalksTo(I, s, v, step, p) \/ v \in Least(s, Vars)
    BY <1>0, <2>1, GreedyWalkGoes
  <2> QED BY <1>3, <2>2 DEF PicksWalking
<1>4. CASE algorithm \in NoveltyLike
  <2>1. v \in NoveltyPicks(I, s, p) \/ v \in Walk(I, s)
    <3>1. CASE algorithm = "novelty"
      BY <3>1 DEF Picks
    <3>2. CASE algorithm = "rnovelty"
      BY <3>2 DEF Picks, PickRNOVELTY
    <3>3. CASE algorithm \in {"novelty+", "rnovelty+", "novelty+-w"}
      BY <3>3 DEF Picks, PickNOVELTYPLUS
    <3> QED BY <1>4, <3>1, <3>2, <3>3 DEF NoveltyLike
  <2>2. CASE v \in Walk(I, s)
    <3>1. WalksTo(I, s, v, step, p)
      BY <1>0, <2>2, WalkGoes
    <3> QED BY <1>4, <3>1 DEF PicksWalking, NoveltyLike
  <2>3. CASE v \in NoveltyPicks(I, s, p)
    <3>1. WalksTo(I, s, v, step, p)
      BY <1>4, <2>3, NoveltyGoes
    <3> QED BY <1>4, <3>1 DEF PicksWalking, NoveltyLike
  <2> QED BY <2>1, <2>2, <2>3
<1> QED BY <1>1, <1>2, <1>3, <1>4 DEF Walkers, WalkSatLike

(* What each algorithm flips. *)
LEMMA PicksAre ==
    ASSUME NumVarAssumption, NEW I \in Formulas, \A c \in DOMAIN I : I[c] # <<>>,
           NEW s, Summed(I, s), algorithm \in Algorithms, NEW step, NEW p,
           p.noise \in {-1, 0, 1}, NEW v \in Picks(I, s, step, p)
    PROVE  /\ v \in Indices
           /\ \/ PicksGreedily(s, v)
              \/ PicksWalking(I, s, v, step, p)
              \/ algorithm = "gsat-tabu" /\ v \in PickGSATTABU(s, step, p)
              \/ algorithm = "saps" /\ v \in PickSAPS(s)
<1>0. Exact(I, s) /\ s \in States(I) /\ Vars \subseteq Indices /\ NoVar \in Indices
  BY NumVarAssumption DEF Summed, Exact, Vars, Indices, NoVar
<1>1. CASE algorithm \in Greedy
  <2>1. v \in Least(s, Vars)
    <3>1. CASE algorithm \in {"gsat", "gsat-w"}
      BY <3>1 DEF Picks, PickGSAT
    <3>2. CASE algorithm = "hsat"
      BY <3>2 DEF Picks, PickHSAT
    <3> QED BY <1>1, <3>1, <3>2 DEF Greedy
  <2>2. v \in Vars
    BY <2>1 DEF Least
  <2> QED BY <1>0, <1>1, <2>1, <2>2 DEF PicksGreedily
<1>2. CASE algorithm \in Walkers
  <2>1. PicksWalking(I, s, v, step, p)
    BY <1>2, PicksWalk
  <2>2. v \in Vars \/ v = NoVar
    BY <2>1 DEF PicksWalking, WalksTo, Least
  <2> QED BY <1>0, <2>1, <2>2
<1>3. CASE algorithm = "gsat-tabu"
  <2>1. v \in PickGSATTABU(s, step, p)
    BY <1>3 DEF Picks
  <2>2. v \in Indices
    BY <1>0, <2>1, HeadIs
  <2> QED BY <1>3, <2>1, <2>2
<1>4. CASE algorithm = "saps"
  <2>1. v \in PickSAPS(s)
    BY <1>4 DEF Picks
  <2>2. v \in Vars \/ v = NoVar
    <3>1. KeepsVars
      BY <1>4 DEF KeepsVars
    <3>2. ASSUME NEW u \in ToSet(s.vars.list) PROVE u \in Vars
      BY <1>0, <3>1, ListedInFalse
    <3> QED BY <2>1, <3>2 DEF PickSAPS, Least
  <2> QED BY <1>0, <1>4, <2>1, <2>2
<1> QED BY <1>1, <1>2, <1>3, <1>4 DEF Algorithms, Greedy, Walkers, HSatLike

(* What is charged is a whole number. *)
LEMMA ChargeType ==
    ASSUME NEW I \in Formulas, NEW l \in Literals, NEW N \in [DOMAIN I -> Int],
           NEW w \in Weights(I), NEW n
    PROVE  Charge(I, l, N, w, n) \in Int
<1> DEFINE p == Priced(I, N, w, n)
           f == Charged(I, l, N, w, n)
<1>1. Charge(I, l, N, w, n) = Total(f) /\ p \in [DOMAIN I -> Int]
  BY ChargeIs
<1>2. f \in [DOMAIN I -> Int]
  <2>1. f = [c \in DOMAIN I |-> Times(I, c, l) * p[c]]
    BY DEF Charged
  <2>2. ASSUME NEW c \in DOMAIN I PROVE Times(I, c, l) \in Nat
    BY TimesType
  <2> HIDE DEF f, p
  <2>3. ASSUME NEW c \in DOMAIN I PROVE Times(I, c, l) * p[c] \in Int
    <3>1. p[c] \in Int
      BY <1>1
    <3> DEFINE x == Times(I, c, l)
               y == p[c]
    <3>2. x \in Nat /\ y \in Int
      BY <2>2, <3>1
    <3> HIDE DEF x, y
    <3>3. x * y \in Int
      BY <3>2
    <3> QED BY <3>3 DEF x, y
  <2> QED BY <2>1, <2>3
<1>3. IsFiniteSet(DOMAIN I)
  BY FormulaType
<1> HIDE DEF f
<1> QED BY <1>1, <1>2, <1>3, TotalType

(* A list is as long as the set it represents is large. *)
LEMMA RepresentsCount ==
    ASSUME NEW E, NEW s \in Lists(E), NEW S, Represents(s, S)
    PROVE  Len(s.list) \in Nat /\ Len(s.list) = Cardinality(S)
<1> DEFINE n == Len(s.list)
           g == [i \in 1..n |-> s.list[i]]
<1>1. s.list \in Seq(E) /\ n \in Nat
  BY DEF Lists
<1> HIDE DEF n
<1>2. g \in Injection(1..n, S)
  <2>1. ASSUME NEW a \in 1..n, NEW b \in 1..n, g[a] = g[b] PROVE a = b
    BY <2>1 DEF Represents, n
  <2>2. g \in [1..n -> S]
    BY DEF Represents, n
  <2> HIDE DEF g
  <2> QED BY <2>1, <2>2 DEF Injection, IsInjective
<1>3. g \in Surjection(1..n, S)
  <2>1. ASSUME NEW e \in S PROVE \E i \in 1..n : g[i] = e
    BY DEF Represents, n
  <2>2. g \in [1..n -> S]
    BY DEF Represents, n
  <2> HIDE DEF g
  <2> QED BY <2>1, <2>2 DEF Surjection
<1>4. ExistsBijection(1..n, S)
  BY <1>2, <1>3 DEF ExistsBijection, Bijection
<1>5. IsFiniteSet(1..n) /\ Cardinality(1..n) = n
  BY <1>1, FS_Interval
<1>6. Cardinality(S) = n
  BY <1>4, <1>5, FS_Bijection
<1> QED BY <1>1, <1>6 DEF n

(* The length of the list of false clauses. *)
LEMMA NumFalseIs ==
    ASSUME NumVarAssumption, NEW I \in Formulas, NEW s, Exact(I, s)
    PROVE  /\ NumFalse(s) \in Nat /\ NumFalse(s) = Cardinality(FalseClauses(I, s.val))
           /\ NumFalse(s) <= Len(I)
<1> DEFINE C == FalseClauses(I, s.val)
<1>1. /\ s.falses \in Lists(DOMAIN I)
      /\ Represents(s.falses, {c \in DOMAIN I : s.numTrue[c] = 0})
  BY DEF Exact, Consistent, ListOK, States
<1>2. C = {c \in DOMAIN I : s.numTrue[c] = 0}
  BY FalseOnes
<1>3. IsFiniteSet(DOMAIN I) /\ Cardinality(DOMAIN I) = Len(I) /\ Len(I) \in Nat
  BY FormulaType, FS_Interval
<1> HIDE DEF C
<1>4. Represents(s.falses, C) /\ C \subseteq DOMAIN I
  BY <1>1, <1>2
<1>5. Len(s.falses.list) \in Nat /\ Len(s.falses.list) = Cardinality(C)
  BY <1>1, <1>4, <1>3, RepresentsCount
<1>6. Cardinality(C) <= Len(I)
  BY <1>3, <1>4, FS_Subset
<1> QED BY <1>5, <1>6 DEF NumFalse, C
-----------------------------------------------------------------------------
(* The descent: a score is the change of the cost. *)

(* The cost that the algorithm descends, with the weights of state s. *)
CostOf(I, s, val) ==
    IF Weighted \/ algorithm = "saps" THEN WeightOf(s.weight, FalseClauses(I, val))
    ELSE Cardinality(FalseClauses(I, val))

Within(I, w, C) == [c \in DOMAIN I |-> IF c \in C THEN w[c] ELSE 0]

(* The weight of some clauses is a sum over all. *)
LEMMA WeightOver ==
    ASSUME NEW I \in Formulas, NEW w \in Weights(I), NEW C \in SUBSET (DOMAIN I)
    PROVE  /\ Within(I, w, C) \in [DOMAIN I -> Int]
           /\ WeightOf(w, C) = Total(Within(I, w, C)) /\ WeightOf(w, C) \in Nat
<1> DEFINE v == [c \in C |-> w[c]]
           f == Within(I, w, C)
<1>1. v \in [C -> Int] /\ f \in [DOMAIN I -> Int]
      /\ \A c \in DOMAIN I : f[c] = (IF c \in C THEN v[c] ELSE 0) /\ f[c] >= 0
  BY DEF Weights, Within
<1>2. IsFiniteSet(DOMAIN I)
  BY FormulaType
<1>3. WeightOf(w, C) = Total(v)
  BY DEF WeightOf
<1> HIDE DEF v, f
<1>4. Total(f) = Total(v)
  BY <1>1, <1>2, TotalWhere
<1> DEFINE z == [c \in DOMAIN I |-> 0]
<1>5. z \in [DOMAIN I -> Int] /\ \A c \in DOMAIN I : z[c] = 0 /\ z[c] <= f[c]
  BY <1>1
<1> HIDE DEF z
<1>6. Total(z) = 0 /\ Total(z) <= Total(f) /\ Total(f) \in Int
  BY <1>1, <1>2, <1>5, TotalZero, TotalOrder, TotalType
<1> QED BY <1>1, <1>3, <1>4, <1>6 DEF f

(* No clauses weigh nothing. *)
LEMMA NothingWeighs == ASSUME NEW w PROVE WeightOf(w, {}) = 0
<1> DEFINE f == [c \in {} |-> w[c]]
<1>1. f \in [{} -> Int] /\ IsFiniteSet({})
  BY FS_EmptySet
<1>2. WeightOf(w, {}) = Total(f)
  BY DEF WeightOf
<1> HIDE DEF f
<1>3. Total(f) = 0
  BY <1>1, TotalZero
<1> QED BY <1>2, <1>3

(* What is gained and lost between two sets of clauses. *)
LEMMA WeightMoves ==
    ASSUME NEW I \in Formulas, NEW w \in Weights(I), NEW A \in SUBSET (DOMAIN I),
           NEW B \in SUBSET (DOMAIN I)
    PROVE  WeightOf(w, B) = WeightOf(w, A) + WeightOf(w, B \ A) - WeightOf(w, A \ B)
<1> DEFINE a == Within(I, w, A)
           b == Within(I, w, B)
           more == Within(I, w, B \ A)
           less == Within(I, w, A \ B)
           mid == [c \in DOMAIN I |-> a[c] + more[c]]
           D == DOMAIN I
<1>1. a \in [D -> Int] /\ WeightOf(w, A) = Total(a) /\ WeightOf(w, A) \in Nat
  BY WeightOver
<1>2. b \in [D -> Int] /\ WeightOf(w, B) = Total(b) /\ WeightOf(w, B) \in Nat
  BY WeightOver
<1>3. more \in [D -> Int] /\ WeightOf(w, B \ A) = Total(more) /\ WeightOf(w, B \ A) \in Nat
  <2>1. B \ A \in SUBSET D
    OBVIOUS
  <2> QED BY <2>1, WeightOver
<1>4. less \in [D -> Int] /\ WeightOf(w, A \ B) = Total(less) /\ WeightOf(w, A \ B) \in Nat
  <2>1. A \ B \in SUBSET D
    OBVIOUS
  <2> QED BY <2>1, WeightOver
<1>5. mid \in [D -> Int] /\ \A c \in D : mid[c] = a[c] + 1 * more[c]
  <2> HIDE DEF a, more
  <2> QED BY <1>1, <1>3
<1>6. \A c \in D : mid[c] = b[c] + 1 * less[c]
  <2>1. ASSUME NEW c \in D PROVE a[c] + more[c] = b[c] + less[c]
    <3>1. w[c] \in Nat
      BY DEF Weights
    <3> QED BY <3>1 DEF Within
  <2>2. ASSUME NEW c \in D PROVE b[c] \in Int /\ less[c] \in Int
    BY <1>2, <1>4
  <2> HIDE DEF a, b, more, less
  <2> QED BY <2>1, <2>2
<1>7. IsFiniteSet(D)
  BY FormulaType
<1> HIDE DEF a, b, more, less, mid, D
<1>8. Linear(D, a, more, mid, 1) /\ Linear(D, b, less, mid, 1)
  BY <1>1, <1>2, <1>3, <1>4, <1>5, <1>6 DEF Linear
<1>9. Total(mid) = Total(a) + 1 * Total(more) /\ Total(mid) = Total(b) + 1 * Total(less)
  BY <1>7, <1>8, LinearTotal
<1> QED BY <1>1, <1>2, <1>3, <1>4, <1>9

(* The algorithms whose scores are kept, of weights or of clauses. *)
Scored == Weighted \/ algorithm = "saps" \/ Unit = 1

(* A score is what the flip adds to the cost, and nothing improves that    *)
(* makes no clause.                                                        *)
LEMMA ScoreIsGain ==
    ASSUME NumVarAssumption, NEW I \in Formulas, NEW s, Exact(I, s), Simple(I), Scored,
           NEW u \in Vars
    PROVE  /\ CostOf(I, s, Turned(s.val, u)) = CostOf(I, s, s.val) + Score(s)[u]
           /\ Score(s)[u] \in Int /\ CostOf(I, s, s.val) \in Nat
           /\ Makes(I, s.val, u) = {} => Score(s)[u] >= 0
<1> DEFINE A == FalseClauses(I, s.val)
           B == FalseClauses(I, Turned(s.val, u))
           M == Makes(I, s.val, u)
           K == Breaks(I, s.val, u)
           w == s.weight
           one == Units(I)
<1>1. A \in SUBSET (DOMAIN I) /\ B \in SUBSET (DOMAIN I)
  BY DEF FalseClauses
<1>2. M = A \ B /\ K = B \ A
  BY DEF Makes, Breaks
<1>3. CountsAre(I, s)
  BY ExactCounts
<1>4. /\ s.make[u] = Unit * Cardinality(M) /\ s.break[u] = Unit * Cardinality(K)
      /\ s.makeW[u] = WeightOf(w, M) /\ s.breakW[u] = WeightOf(w, K)
  BY <1>3 DEF CountsAre
<1>5. w \in Weights(I) /\ one \in Weights(I)
  BY UnitsType DEF Exact, Weights
<1> HIDE DEF A, B, M, K, w, one
<1>6. /\ WeightOf(w, B) = WeightOf(w, A) + WeightOf(w, K) - WeightOf(w, M)
      /\ WeightOf(one, B) = WeightOf(one, A) + WeightOf(one, K) - WeightOf(one, M)
  BY <1>1, <1>2, <1>5, WeightMoves
<1>7. M \in SUBSET (DOMAIN I) /\ K \in SUBSET (DOMAIN I)
  BY <1>1, <1>2
<1>8. /\ WeightOf(w, M) \in Nat /\ WeightOf(w, K) \in Nat /\ WeightOf(w, A) \in Nat
      /\ WeightOf(one, M) \in Nat /\ WeightOf(one, K) \in Nat /\ WeightOf(one, A) \in Nat
  BY <1>1, <1>5, <1>7, WeightOver
<1>9. M = {} => WeightOf(w, M) = 0 /\ WeightOf(one, M) = 0
  <2>1. WeightOf(w, {}) = 0
    BY NothingWeighs
  <2>2. WeightOf(one, {}) = 0
    BY NothingWeighs
  <2> QED BY <2>1, <2>2
<1>10. CASE Weighted \/ algorithm = "saps"
  <2>1. Score(s)[u] = WeightOf(w, K) - WeightOf(w, M)
    BY <1>4, <1>10 DEF Score
  <2>2. /\ CostOf(I, s, Turned(s.val, u)) = WeightOf(w, B)
        /\ CostOf(I, s, s.val) = WeightOf(w, A)
    BY <1>10 DEF CostOf, A, B, w
  <2> QED BY <1>6, <1>8, <1>9, <2>1, <2>2 DEF M
<1>11. CASE ~(Weighted \/ algorithm = "saps")
  <2>1. Unit = 1
    BY <1>11 DEF Scored
  <2>2. /\ WeightOf(one, A) = 1 * Cardinality(A) /\ WeightOf(one, B) = 1 * Cardinality(B)
        /\ WeightOf(one, M) = 1 * Cardinality(M) /\ WeightOf(one, K) = 1 * Cardinality(K)
    BY <1>1, <1>7, <2>1, WeightOfUnits DEF one
  <2>3. /\ Cardinality(A) \in Nat /\ Cardinality(B) \in Nat
        /\ Cardinality(M) \in Nat /\ Cardinality(K) \in Nat
    <3>1. IsFiniteSet(A) /\ IsFiniteSet(B) /\ IsFiniteSet(M) /\ IsFiniteSet(K)
      <4>1. IsFiniteSet(DOMAIN I)
        BY FormulaType
      <4> QED BY <1>1, <1>7, <4>1, FS_Subset
    <3> QED BY <3>1, FS_CardinalityType
  <2>4. Score(s)[u] = s.break[u] - s.make[u]
    BY <1>11 DEF Score
  <2>5. /\ CostOf(I, s, Turned(s.val, u)) = Cardinality(B)
        /\ CostOf(I, s, s.val) = Cardinality(A)
    BY <1>11 DEF CostOf, A, B
  <2> QED BY <1>4, <1>6, <1>9, <2>1, <2>2, <2>3, <2>4, <2>5 DEF M
<1> QED BY <1>10, <1>11

Best(I, s, v) ==
    v \in Vars /\ \A u \in Vars : CostOf(I, s, Turned(s.val, v)) <= CostOf(I, s, Turned(s.val, u))

(* A variable of the least score is the best to flip. *)
LEMMA LeastIsBest ==
    ASSUME NumVarAssumption, NEW I \in Formulas, NEW s, Exact(I, s), Simple(I), Scored,
           NEW v \in Least(s, Vars)
    PROVE  Best(I, s, v)
<1>1. v \in Vars /\ \A u \in Vars : Score(s)[v] <= Score(s)[u]
  BY DEF Least
<1>2. ASSUME NEW u \in Vars
      PROVE  CostOf(I, s, Turned(s.val, v)) <= CostOf(I, s, Turned(s.val, u))
  <2>1. /\ CostOf(I, s, Turned(s.val, u)) = CostOf(I, s, s.val) + Score(s)[u]
        /\ Score(s)[u] \in Int /\ CostOf(I, s, s.val) \in Nat
    BY ScoreIsGain
  <2>2. /\ CostOf(I, s, Turned(s.val, v)) = CostOf(I, s, s.val) + Score(s)[v]
        /\ Score(s)[v] \in Int
    BY <1>1, ScoreIsGain
  <2>3. Score(s)[v] <= Score(s)[u]
    BY <1>1
  <2> QED BY <2>1, <2>2, <2>3
<1> QED BY <1>1, <1>2 DEF Best

(* SAPS looks at the variables of false clauses alone, and misses none. *)
LEMMA SapsIsBest ==
    ASSUME NumVarAssumption, NEW I \in Formulas, NEW s, Exact(I, s), Simple(I),
           algorithm = "saps", NEW v \in PickSAPS(s), NEW u \in Vars,
           CostOf(I, s, Turned(s.val, u)) < CostOf(I, s, s.val)
    PROVE  Best(I, s, v)
<1> DEFINE C == ToSet(s.vars.list)
           cost == CostOf(I, s, s.val)
<1>1. Scored /\ KeepsVars
  BY DEF Scored, KeepsVars
<1>2. C = {x \in Vars : Makes(I, s.val, x) # {}}
  <2>1. Represents(s.vars, {x \in Vars : Makes(I, s.val, x) # {}})
    BY <1>1, ExactCounts DEF CountsAre
  <2>2. s.vars \in Lists(Vars)
    BY DEF Exact, States
  <2> QED BY <2>1, <2>2, Members
<1> HIDE DEF C
<1>3. ASSUME NEW x \in Vars
      PROVE  /\ CostOf(I, s, Turned(s.val, x)) = cost + Score(s)[x]
             /\ Score(s)[x] \in Int /\ cost \in Nat
             /\ x \notin C => Score(s)[x] >= 0
  <2>1. Makes(I, s.val, x) = {} => Score(s)[x] >= 0
    BY <1>1, ScoreIsGain
  <2>2. x \notin C => Makes(I, s.val, x) = {}
    BY <1>2
  <2>3. /\ CostOf(I, s, Turned(s.val, x)) = cost + Score(s)[x]
        /\ Score(s)[x] \in Int /\ cost \in Nat
    BY <1>1, ScoreIsGain
  <2> QED BY <2>1, <2>2, <2>3
<1> HIDE DEF cost
<1>4. Score(s)[u] < 0
  <2>1. CostOf(I, s, Turned(s.val, u)) < cost
    BY DEF cost
  <2> QED BY <1>3, <2>1
<1>5. u \in C
  BY <1>3, <1>4
<1>6. v \in Least(s, C)
  BY <1>4, <1>5 DEF PickSAPS, C
<1>7. v \in Vars /\ \A x \in C : Score(s)[v] <= Score(s)[x]
  BY <1>2, <1>6 DEF Least
<1>8. ASSUME NEW x \in Vars PROVE Score(s)[v] <= Score(s)[x]
  <2>1. Score(s)[v] <= Score(s)[u] /\ Score(s)[v] \in Int /\ Score(s)[u] \in Int
    BY <1>3, <1>5, <1>7
  <2>2. CASE x \in C
    BY <1>7, <2>2
  <2>3. CASE x \notin C
    <3>1. Score(s)[x] >= 0 /\ Score(s)[x] \in Int
      BY <1>3, <2>3
    <3> QED BY <1>4, <2>1, <3>1
  <2> QED BY <2>2, <2>3
<1>9. v \in Least(s, Vars)
  BY <1>7, <1>8 DEF Least
<1> QED BY <1>1, <1>9, LeastIsBest

(* There is a least score. *)
LEMMA LeastExists ==
    ASSUME NumVarAssumption, NEW I \in Formulas, NEW s \in States(I), NEW C \in SUBSET Vars,
           C # {}
    PROVE  Least(s, C) # {}
<1> DEFINE f == Score(s)
           n == NumVar
           Has(k) == C \cap 1..k = {} \/ \E u \in C \cap 1..k : \A w \in C \cap 1..k : f[u] <= f[w]
           T == {k \in 0..n : Has(k)}
<1>1. f \in [Vars -> Int]
  BY ScoreType
<1>2. n \in Nat /\ Vars = 1..n
  BY NumVarAssumption DEF Vars
<1> HIDE DEF f, n
<1>3. 0 \in T
  BY <1>2
<1>4. ASSUME NEW k \in 1..n, k - 1 \in T PROVE k \in T
  <2>1. Has(k - 1)
    BY <1>4
  <2>2. C \cap 1..k = (C \cap 1..(k - 1)) \cup (C \cap {k})
    BY <1>2
  <2>3. k \in 0..n
    BY <1>2
  <2>4. Has(k)
    <3>1. CASE k \notin C
      <4>1. C \cap 1..k = C \cap 1..(k - 1)
        BY <2>2, <3>1
      <4> QED BY <2>1, <4>1
    <3>2. CASE k \in C /\ C \cap 1..(k - 1) = {}
      <4>1. C \cap 1..k = {k} /\ f[k] \in Int
        BY <1>1, <2>2, <3>2
      <4> QED BY <4>1
    <3>3. CASE k \in C /\ C \cap 1..(k - 1) # {}
      <4>1. PICK u \in C \cap 1..(k - 1) : \A w \in C \cap 1..(k - 1) : f[u] <= f[w]
        BY <2>1, <3>3
      <4>2. f[u] \in Int /\ f[k] \in Int /\ \A w \in C : f[w] \in Int
        BY <1>1, <3>3
      <4>3. u \in C \cap 1..k /\ k \in C \cap 1..k
        BY <2>2, <3>3
      <4>4. CASE f[u] <= f[k]
        <5>1. ASSUME NEW w \in C \cap 1..k PROVE f[u] <= f[w]
          BY <2>2, <4>1, <4>4
        <5> QED BY <4>3, <5>1
      <4>5. CASE ~(f[u] <= f[k])
        <5>1. ASSUME NEW w \in C \cap 1..k PROVE f[k] <= f[w]
          <6>1. w = k \/ f[u] <= f[w]
            BY <2>2, <4>1
          <6> QED BY <4>2, <4>5, <6>1
        <5> QED BY <4>3, <5>1
      <4> QED BY <4>4, <4>5
    <3> QED BY <3>1, <3>2, <3>3
  <2> QED BY <2>3, <2>4
<1> HIDE DEF T
<1>5. \A k \in 0..n : k \in T
  BY <1>2, <1>3, <1>4, UpTo
<1>6. Has(n)
  <2>1. n \in T
    BY <1>2, <1>5
  <2> QED BY <2>1 DEF T
<1>7. C \cap 1..n = C
  BY <1>2
<1>8. \E u \in C : \A w \in C : f[u] <= f[w]
  BY <1>6, <1>7
<1> QED BY <1>8 DEF Least, f

(* GSAT-TABU flips what is tabu only when everything is. *)
LEMMA TabuGoes ==
    ASSUME NumVarAssumption, NEW I \in Formulas, NEW s \in States(I), NEW step, NEW p,
           NEW v \in PickGSATTABU(s, step, p)
    PROVE  v \in Free(s, step, p) \/ Free(s, step, p) = {}
<1>1. Free(s, step, p) \in SUBSET Vars
  BY DEF Free
<1>2. CASE Free(s, step, p) # {}
  <2>1. Least(s, Free(s, step, p)) # {}
    BY <1>1, <1>2, LeastExists
  <2> QED BY <2>1 DEF PickGSATTABU, Least
<1> QED BY <1>2

-----------------------------------------------------------------------------
(* The inductive invariant, in parts. *)

ControlOK ==
    /\ parm \in {t.parm : t \in Tasks}
    /\ pc \in {"run", "step", "crashed", "done"}
    /\ iRun \in Nat /\ iNumFound \in Nat
    /\ iStep \in Nat /\ best.step \in Nat
    /\ \E R : rows \in Seq(R)
    /\ Len(rows) = iRun

(* A run goes on only before the cutoff and while the last improvement is  *)
(* not too long ago; it is ended only by the time limit or one step after. *)
RunOn ==
    pc = "step" =>
        /\ iStep <= parm.cutoff
        /\ ~terminateRun /\ parm.noImprove > 0 => iStep <= best.step + parm.noImprove
        /\ terminateRun =>
              \/ parm.timeout /\ terminateAll
              \/ parm.noImprove > 0 /\ iStep = best.step + parm.noImprove + 1

FoundRows == {r \in DOMAIN rows : rows[r].found}

(* The solutions are counted, and the program does not go on with as many  *)
(* as it was asked for.                                                    *)
Counted ==
    /\ IsFiniteSet(FoundRows) /\ iNumFound = Cardinality(FoundRows)
    /\ pc = "step" => iRun < parm.runs /\ (terminateAll => parm.timeout)
    /\ iRun <= parm.runs
    /\ Find > 0 => iNumFound <= Find
    /\ Find > 0 /\ (pc = "step" \/ ~terminateAll) => iNumFound < Find
    /\ terminateAll => (Find > 0 /\ iNumFound = Find) \/ parm.timeout

(* The exit code tells whether there is a solution. *)
Told ==
    pc = "done" =>
        /\ iRun >= parm.runs \/ terminateAll
        /\ exitCode = IF iNumFound > 0 THEN 10 ELSE 0

IInv == ControlOK /\ RunOn /\ Counted /\ Told

(* What the command line may have set. *)
LEMMA Parameters ==
    ASSUME ControlOK
    PROVE  /\ parm.runs \in Nat /\ parm.cutoff \in Nat /\ parm.find \in Nat
           /\ parm.noImprove \in Nat /\ parm.timeout \in BOOLEAN
           /\ Find \in Nat
<1>1. \A p \in {t.parm : t \in Tasks} :
         /\ {p.runs, p.cutoff, p.restart, p.find, p.target, p.noImprove, p.tabu}
               \subseteq Nat
         /\ p.timeout \in BOOLEAN
  BY SettingsAssumption
<1>2. /\ {parm.runs, parm.cutoff, parm.restart, parm.find, parm.target, parm.noImprove,
          parm.tabu} \subseteq Nat
      /\ parm.timeout \in BOOLEAN
  BY <1>1 DEF ControlOK
<1> QED BY <1>2 DEF Find

(* Nothing has run. *)
LEMMA InitIInv == Init => IInv
<1> SUFFICES ASSUME Init PROVE IInv
  OBVIOUS
<1>1. ControlOK
  <2>1. parm \in {t.parm : t \in Tasks}
    BY DEF Init
  <2>2. rows \in Seq({}) /\ Len(rows) = 0
    BY DEF Init
  <2> QED BY <2>1, <2>2 DEF Init, ControlOK, NoBest
<1>2. FoundRows = {}
  BY DEF Init, FoundRows
<1>3. Counted
  BY <1>1, <1>2, Parameters, FS_EmptySet DEF Init, Counted
<1> QED BY <1>1, <1>3 DEF Init, IInv, RunOn, Told
-----------------------------------------------------------------------------
(* A run starts while more are asked for. *)
LEMMA StartRunIInv == IInv /\ StartRun => IInv'
<1> SUFFICES ASSUME IInv, StartRun PROVE IInv'
  OBVIOUS
<1> USE DEF data, runs
<1>1. ControlOK'
  BY DEF IInv, ControlOK, StartRun, NoBest
<1>2. RunOn'
  BY Parameters DEF IInv, RunOn, StartRun, NoBest
<1>3. Find' = Find /\ FoundRows' = FoundRows
  BY DEF Find, FoundRows, StartRun
<1>4. Counted'
  BY <1>3, Parameters DEF IInv, ControlOK, Counted, StartRun
<1> QED BY <1>1, <1>2, <1>4 DEF IInv, Told, StartRun

(* What the loops see of a step. *)
LEMMA StepControl ==
    ASSUME Step
    PROVE  /\ pc = "step" /\ pc' = "step" /\ InRun
           /\ iStep' = iStep + 1
           /\ \/ best'.step = iStep + 1 /\ best'.num < best.num
              \/ best'.step = best.step /\ best'.num = best.num
           /\ \E late \in BOOLEAN :
                 /\ late => parm.timeout
                 /\ terminateRun' = (NoImprove(iStep', best') \/ late)
                 /\ terminateAll' = (terminateAll \/ late)
           /\ parm' = parm /\ iRun' = iRun /\ iNumFound' = iNumFound /\ rows' = rows
           /\ exitCode' = exitCode
<1>1. PICK t : best' = CheckBestFalse(t)
  BY DEF Step
<1>2. \/ best'.step = iStep + 1 /\ best'.num < best.num
      \/ best'.step = best.step /\ best'.num = best.num
  BY <1>1 DEF CheckBestFalse
<1>3. \E late \in BOOLEAN :
         /\ late => parm.timeout
         /\ terminateRun' = (NoImprove(iStep', best') \/ late)
         /\ terminateAll' = (terminateAll \/ late)
  <2>1. PICK late \in IF parm.timeout THEN BOOLEAN ELSE {FALSE} :
           /\ terminateRun' = (NoImprove(iStep', best') \/ late)
           /\ terminateAll' = (terminateAll \/ late)
    BY DEF Step
  <2>2. late \in BOOLEAN /\ (late => parm.timeout)
    BY <2>1
  <2> QED BY <2>1, <2>2
<1> QED BY <1>2, <1>3 DEF Step, data, runs

(* A step counts, and may end the run. *)
LEMMA StepIInv == IInv /\ Step => IInv'
<1> SUFFICES ASSUME IInv, Step PROVE IInv'
  OBVIOUS
<1>1. ControlOK'
  BY StepControl DEF IInv, ControlOK
<1>2. PICK late \in BOOLEAN :
         /\ late => parm.timeout
         /\ terminateRun' = (NoImprove(iStep', best') \/ late)
         /\ terminateAll' = (terminateAll \/ late)
  BY StepControl
<1>3. RunOn'
  <2>1. iStep < parm.cutoff /\ ~terminateRun /\ iStep \in Nat /\ best.step \in Nat
    BY StepControl DEF InRun, IInv, ControlOK
  <2>2. iStep' <= parm.cutoff
    BY <2>1, StepControl, Parameters DEF IInv
  <2>3. parm.noImprove > 0 => iStep <= best.step + parm.noImprove
    BY <2>1, StepControl DEF IInv, RunOn
  <2>4. NoImprove(iStep', best') <=>
           parm.noImprove > 0 /\ iStep + 1 > best'.step + parm.noImprove
    BY StepControl DEF NoImprove
  <2>5. NoImprove(iStep', best') =>
           parm.noImprove > 0 /\ iStep' = best'.step + parm.noImprove + 1
    BY <2>1, <2>3, <2>4, StepControl, Parameters DEF IInv
  <2>6. ~NoImprove(iStep', best') /\ parm.noImprove > 0 =>
           iStep' <= best'.step + parm.noImprove
    BY <2>1, <2>4, StepControl, Parameters DEF IInv
  <2>7. parm' = parm
    BY StepControl
  <2> HIDE DEF NoImprove
  <2> QED BY <1>2, <2>2, <2>5, <2>6, <2>7 DEF RunOn
<1>4. Find' = Find /\ FoundRows' = FoundRows
  BY StepControl DEF Find, FoundRows
<1>5. Counted'
  BY <1>2, <1>4, StepControl DEF IInv, Counted
<1> QED BY <1>1, <1>3, <1>5, StepControl DEF IInv, Told

(* A crash ends the program. *)
LEMMA CrashIInv == IInv /\ Crash => IInv'
<1> SUFFICES ASSUME IInv, Crash PROVE IInv'
  OBVIOUS
<1> USE DEF data, runs
<1>1. Find' = Find /\ FoundRows' = FoundRows
  BY DEF Find, FoundRows, Crash
<1> QED BY <1>1 DEF IInv, ControlOK, RunOn, Counted, Told, Crash

(* The end of a run counts its solution. *)
LEMMA EndRunIInv == IInv /\ EndRun => IInv'
<1> SUFFICES ASSUME IInv, EndRun PROVE IInv'
  OBVIOUS
<1> USE DEF data, runs
<1> DEFINE row == [found |-> found, steps |-> iStep, best |-> best.num,
                   start |-> startFalse, improvement |-> Improvement]
<1>1. PICK R : rows \in Seq(R)
  BY DEF IInv, ControlOK
<1>2. rows' = Append(rows, row) /\ row.found = found /\ iRun' = iRun + 1 /\ pc' = "run"
  BY DEF EndRun
<1> HIDE DEF row
<1>3. rows \in Seq(R \cup {row}) /\ row \in R \cup {row}
  BY <1>1
<1>4. /\ rows' \in Seq(R \cup {row})
      /\ Len(rows') = iRun + 1
      /\ DOMAIN rows' = 1..(iRun + 1) /\ DOMAIN rows = 1..iRun
      /\ \A i \in 1..iRun : rows'[i] = rows[i]
      /\ rows'[iRun + 1] = row
  BY <1>2, <1>3 DEF IInv, ControlOK
<1>5. ControlOK'
  BY <1>2, <1>4 DEF IInv, ControlOK, EndRun
<1>6. FoundRows' = IF found THEN FoundRows \cup {iRun + 1} ELSE FoundRows
  BY <1>2, <1>4 DEF FoundRows, IInv, ControlOK
<1>7. iRun + 1 \notin FoundRows
  BY <1>4 DEF FoundRows, IInv, ControlOK
<1>8. IsFiniteSet(FoundRows') /\ iNumFound' = Cardinality(FoundRows')
  BY <1>6, <1>7, FS_AddElement DEF IInv, Counted, EndRun
<1>9. Find' = Find /\ parm' = parm
  BY DEF Find, EndRun
<1>10. iNumFound' = (IF found THEN iNumFound + 1 ELSE iNumFound)
       /\ terminateAll' = (terminateAll \/ (found /\ iNumFound' = Find)) /\ pc = "step"
  BY DEF EndRun
<1>11. iRun' <= parm.runs
  BY <1>2, <1>10, Parameters DEF IInv, Counted, ControlOK
<1>12. /\ Find > 0 => iNumFound' <= Find
       /\ Find > 0 /\ ~terminateAll' => iNumFound' < Find
       /\ terminateAll' => (Find > 0 /\ iNumFound' = Find) \/ parm.timeout
  <2>1. iNumFound \in Nat /\ Find \in Nat
    BY Parameters DEF IInv, ControlOK
  <2>2. (Find > 0 => iNumFound < Find) /\ (terminateAll => parm.timeout)
    BY <1>10 DEF IInv, Counted
  <2>3. iNumFound' \in Nat /\ (found => iNumFound' > 0)
        /\ (iNumFound' = iNumFound \/ iNumFound' = iNumFound + 1)
    BY <1>10, <2>1
  <2>4. Find > 0 => iNumFound' <= Find
    BY <2>1, <2>2, <2>3
  <2>5. Find > 0 /\ ~terminateAll' => iNumFound' < Find
    <3>1. CASE found
      <4>1. iNumFound' = Find => terminateAll'
        BY <1>10, <3>1, Zenon
      <4> QED BY <2>1, <2>3, <2>4, <4>1
    <3>2. CASE ~found
      BY <1>10, <2>2, <3>2
    <3> QED BY <3>1, <3>2
  <2>6. terminateAll' => (Find > 0 /\ iNumFound' = Find) \/ parm.timeout
    <3>1. CASE terminateAll
      BY <2>2, <3>1
    <3>2. CASE found /\ iNumFound' = Find
      BY <2>3, <3>2
    <3> QED BY <1>10, <3>1, <3>2
  <2> QED BY <2>4, <2>5, <2>6
<1>13. Counted'
  BY <1>2, <1>8, <1>9, <1>11, <1>12 DEF Counted
<1> QED BY <1>2, <1>5, <1>13 DEF IInv, RunOn, Told

(* The exit code is that of the count. *)
LEMMA ExitIInv == IInv /\ Exit => IInv'
<1> SUFFICES ASSUME IInv, Exit PROVE IInv'
  OBVIOUS
<1> USE DEF data, runs
<1>1. Find' = Find /\ FoundRows' = FoundRows
  BY DEF Find, FoundRows, Exit
<1>2. Counted'
  BY <1>1 DEF IInv, Counted, Exit
<1> QED BY <1>2 DEF IInv, ControlOK, RunOn, Told, Exit

(* Nothing changes. *)
LEMMA StutterIInv == IInv /\ UNCHANGED vars => IInv'
<1> SUFFICES ASSUME IInv, UNCHANGED vars PROVE IInv'
  OBVIOUS
<1> USE DEF vars
<1>1. Find' = Find /\ FoundRows' = FoundRows
  BY DEF Find, FoundRows
<1> QED BY <1>1 DEF IInv, ControlOK, RunOn, Counted, Told

(* The loops keep their invariant. *)
LEMMA NextIInv == IInv /\ [Next]_vars => IInv'
BY StartRunIInv, StepIInv, CrashIInv, EndRunIInv, ExitIInv, StutterIInv DEF Next, Ended

(* The loops of main count what they have run and found. *)
THEOREM Invariance == Spec => []IInv
BY InitIInv, NextIInv, PTL DEF Spec
-----------------------------------------------------------------------------
(* A run ends on a solution, at the cutoff, on time, or one step after the *)
(* allowed number of steps without an improvement.                         *)
THEOREM RunsEndRightly == Spec => []RunEndJustified
<1>1. IInv => RunEndJustified
  BY Parameters DEF IInv, ControlOK, RunOn, RunEndJustified, InRun
<1> QED BY <1>1, Invariance, PTL

(* main ends after all runs, with as many solutions as were asked for, or  *)
(* on time, and its exit code tells whether it has found one.              *)
THEOREM ExitsRightly == Spec => []ExitAccounts
<1>1. IInv => ExitAccounts
  <2> SUFFICES ASSUME IInv, pc = "done" PROVE ExitAccounts
    BY DEF ExitAccounts
  <2>1. iRun = parm.runs \/ (Find > 0 /\ iNumFound = Find) \/ parm.timeout
    BY Parameters DEF IInv, ControlOK, Counted, Told
  <2>2. iNumFound > 0 <=> FoundRows # {}
    BY FS_EmptySet, FS_CardinalityType DEF IInv, Counted
  <2>3. exitCode = 10 <=> \E r \in DOMAIN rows : rows[r].found
    BY <2>2 DEF IInv, Told, FoundRows
  <2> QED BY <2>1, <2>3 DEF ExitAccounts, IInv, Counted, FoundRows
<1> QED BY <1>1, Invariance, PTL

(* Another step becomes the best only with fewer false clauses. *)
THEOREM BestImproves == Spec => BestOnlyImproves
<1>1. IInv /\ [Next]_vars =>
         [StepTaken /\ best'.step # best.step => best'.num < best.num]_vars
  <2> SUFFICES ASSUME IInv, Next, StepTaken, best'.step # best.step
               PROVE  best'.num < best.num
    BY DEF vars
  <2>1. iStep' # iStep
    BY DEF StepTaken, IInv, ControlOK
  <2>2. Step
    BY <2>1 DEF Next, StepTaken, StartRun, Crash, EndRun, Exit, Ended, vars
  <2> QED BY <2>2, StepControl
<1> QED BY <1>1, Invariance, PTL DEF Spec, BestOnlyImproves

-----------------------------------------------------------------------------
(* The inductive invariant of the search state: what is kept of the        *)
(* formula is exact in every state, also before the first run.             *)

CallOK ==
    /\ inst \in {t.instance : t \in Tasks}
    /\ algorithm \in {t.algorithm : t \in Tasks}
    /\ parm \in {t.parm : t \in Tasks}

(* The weights of an algorithm that is weighted are those of the file, and *)
(* the cost it keeps is that of its assignment.                            *)
CostOK(s) ==
    KeepsCost =>
        /\ s.weight = inst.weight
        /\ Simple(F) => s.falseW = WeightOf(s.weight, FalseClauses(F, s.val))

Whole(s) == Summed(F, s) /\ CostOK(s)

Typed ==
    /\ pc \in {"run", "step", "crashed", "done"}
    /\ flip \in Indices
    /\ iStep \in Nat /\ startFalse \in Nat /\ best.num \in Nat /\ best.step \in Nat
    /\ iStep <= parm.cutoff
    /\ found \in BOOLEAN /\ terminateRun \in BOOLEAN /\ terminateAll \in BOOLEAN
    /\ exitCode \in {0, 10}

SInv == CallOK /\ Typed /\ Whole(search)

(* What a call is made with. *)
LEMMA Call ==
    ASSUME CallOK
    PROVE  /\ F \in Formulas /\ F # <<>> /\ \A c \in DOMAIN F : F[c] # <<>>
           /\ Len(F) \in Nat
           /\ inst.weight \in Weights(F)
           /\ algorithm \in Algorithms
           /\ {parm.runs, parm.cutoff, parm.restart, parm.find, parm.target, parm.noImprove,
               parm.tabu} \subseteq Nat
           /\ parm.noise \in {-1, 0, 1} /\ parm.timeout \in BOOLEAN
<1>1. /\ inst.formula \in Seq(Seq(Literals)) /\ inst.formula # <<>>
      /\ \A c \in DOMAIN inst.formula : inst.formula[c] # <<>>
      /\ inst.weight \in [DOMAIN inst.formula -> Nat]
  BY InstancesAssumption DEF CallOK
<1>2. algorithm \in Algorithms
  BY SettingsAssumption DEF CallOK
<1>3. /\ {parm.runs, parm.cutoff, parm.restart, parm.find, parm.target, parm.noImprove,
          parm.tabu} \subseteq Nat
      /\ parm.noise \in {-1, 0, 1} /\ parm.timeout \in BOOLEAN
  BY SettingsAssumption DEF CallOK
<1>4. Len(inst.formula) \in Nat
  BY <1>1
<1> QED BY <1>1, <1>2, <1>3, <1>4 DEF F, Formulas, Weights

(* The state t, in which only what no count depends on may differ. *)
SameCounts(s, t) ==
    /\ t.val = s.val /\ t.numTrue = s.numTrue /\ t.falses = s.falses /\ t.crit = s.crit
    /\ t.break = s.break /\ t.make = s.make /\ t.breakW = s.breakW /\ t.makeW = s.makeW
    /\ t.vars = s.vars /\ t.weight = s.weight /\ t.sum = s.sum

(* What is exact of a state is of its counts. *)
LEMMA SummedFollows ==
    ASSUME NEW G \in Formulas, NEW s, Summed(G, s), NEW t \in States(G), SameCounts(s, t)
    PROVE  Summed(G, t)
<1>1. \A q, X, u : /\ BreakOf(G, t, q, X, u) = BreakOf(G, s, q, X, u)
                   /\ MakeOf(G, t, q, u) = MakeOf(G, s, q, u)
  BY SumsFollow DEF SameCounts
<1>2. /\ Numbers(G, s) /\ CritOK(G, s) /\ s.sum = Total(s.weight)
      /\ ListOK(G, s) /\ MakeOK(G, s) /\ BreakOK(G, s, {}) /\ WeightOK(G, s)
  BY DEF Summed, Exact, Consistent
<1>3. Numbers(G, t) /\ CritOK(G, t) /\ ListOK(G, t) /\ WeightOK(G, t)
  BY <1>2 DEF SameCounts, Numbers, CritOK, ListOK, WeightOK
<1>4. MakeOK(G, t)
  BY <1>1, <1>2 DEF SameCounts, MakeOK, VarsKept
<1>5. BreakOK(G, t, {})
  BY <1>1, <1>2 DEF SameCounts, BreakOK
<1>6. t.sum = Total(t.weight)
  BY <1>2 DEF SameCounts
<1> QED BY <1>3, <1>4, <1>5, <1>6 DEF Summed, Exact, Consistent

(* A head, a step or a cost is noted. *)
Headed(s, h)   == [s EXCEPT !.head = h]
Noted(s, v, k) == [s EXCEPT !.change[v] = k]
Costing(s, k)  == [s EXCEPT !.falseW = k]

(* A new head for ties. *)
LEMMA HeadSet ==
    ASSUME NEW G \in Formulas, NEW s, Summed(G, s), NEW h \in Indices,
           NEW t, t = Headed(s, h)
    PROVE  Summed(G, t) /\ SameCounts(s, t) /\ t.falseW = s.falseW /\ t.change = s.change
<1>1. s \in States(G)
  BY DEF Summed, Exact
<1>2. t \in States(G) /\ SameCounts(s, t) /\ t.falseW = s.falseW /\ t.change = s.change
  BY <1>1 DEF States, SameCounts, Headed, Costing
<1> QED BY <1>2, SummedFollows

(* The step of the last flip. *)
LEMMA ChangeSet ==
    ASSUME NEW G \in Formulas, NEW s, Summed(G, s), NEW v, NEW k \in Int,
           NEW t, t = Noted(s, v, k)
    PROVE  Summed(G, t) /\ SameCounts(s, t) /\ t.falseW = s.falseW
<1> DEFINE x == [s.change EXCEPT ![v] = k]
<1>1. s \in States(G) /\ s.change \in [Indices -> Int]
  BY DEF Summed, Exact, States
<1>2. x \in [Indices -> Int]
  BY <1>1
<1>3. t = [s EXCEPT !.change = x]
  BY DEF Noted
<1> HIDE DEF x
<1>4. t \in States(G) /\ SameCounts(s, t) /\ t.falseW = s.falseW
  BY <1>1, <1>2, <1>3 DEF States, SameCounts
<1> QED BY <1>4, SummedFollows

(* A cost that is to be kept. *)
LEMMA CostSet ==
    ASSUME NEW G \in Formulas, NEW s, Summed(G, s), NEW k \in Int,
           NEW t, t = Costing(s, k)
    PROVE  Summed(G, t) /\ SameCounts(s, t) /\ t.falseW = k
<1>1. s \in States(G)
  BY DEF Summed, Exact
<1>2. t \in States(G) /\ SameCounts(s, t) /\ t.falseW = k
  BY <1>1 DEF States, SameCounts, Headed, Costing
<1> QED BY <1>2, SummedFollows
-----------------------------------------------------------------------------
(* The start of a run. *)

(* The weights a run starts with. *)
LEMMA StartWeightIs ==
    ASSUME CallOK
    PROVE  /\ StartWeight \in Weights(F)
           /\ ~KeepsCrit => \A c \in DOMAIN F : StartWeight[c] = 0
           /\ KeepsCost => StartWeight = inst.weight
<1>1. inst.weight \in Weights(F)
  BY Call
<1>2. CASE algorithm = "saps"
  <2>1. StartWeight = [c \in DOMAIN F |-> 1]
    BY <1>2 DEF StartWeight, Weighted
  <2>2. KeepsCrit /\ ~KeepsCost
    BY <1>2 DEF KeepsCrit, KeepsCost, NoveltyLike, WalkSatLike
  <2> QED BY <2>1, <2>2 DEF Weights
<1>3. CASE algorithm # "saps" /\ Weighted
  <2>1. StartWeight = inst.weight
    BY <1>3 DEF StartWeight
  <2>2. KeepsCrit
    BY <1>3 DEF KeepsCrit
  <2> QED BY <1>1, <2>1, <2>2
<1>4. CASE algorithm # "saps" /\ ~Weighted
  <2>1. StartWeight = [c \in DOMAIN F |-> 0]
    BY <1>4 DEF StartWeight
  <2>2. ~KeepsCost
    BY <1>4 DEF KeepsCost, Weighted
  <2> QED BY <2>1, <2>2 DEF Weights
<1> QED BY <1>2, <1>3, <1>4

(* A state computed anew is whole. *)
LEMMA InitWhole ==
    ASSUME CallOK, NEW val \in [Vars -> BOOLEAN], NEW s, s = InitState(F, val, StartWeight)
    PROVE  Whole(s) /\ s.val = val
<1>1. /\ F \in Formulas /\ StartWeight \in Weights(F)
      /\ ~KeepsCrit => \A c \in DOMAIN F : StartWeight[c] = 0
  BY Call, StartWeightIs
<1>2. /\ Exact(F, s) /\ s.val = val /\ s.weight = StartWeight /\ s.sum = Total(StartWeight)
      /\ s.falseW = IF KeepsCost THEN WeightOf(StartWeight, FalseClauses(F, val)) ELSE 0
  BY <1>1, InitIsExact, NumVarAssumption
<1>3. KeepsCost => StartWeight = inst.weight
  BY StartWeightIs
<1> QED BY <1>1, <1>2, <1>3 DEF Whole, Summed, CostOK

(* Nothing that is whole depends on the head, or on the step of a flip. *)
LEMMA WholeFollows ==
    ASSUME NEW s, Whole(s), NEW t, Summed(F, t), SameCounts(s, t), t.falseW = s.falseW
    PROVE  Whole(t)
BY DEF Whole, CostOK, SameCounts

(* A run starts from a whole state, a new one or the last. *)
LEMMA StartsWhole ==
    ASSUME CallOK, Whole(search), NEW s \in Starts
    PROVE  Whole(s)
<1>1. PICK val \in [Vars -> BOOLEAN] :
         s = [InitState(F, val, StartWeight) EXCEPT !.head = search.head,
                                                    !.change[NoVar] = search.change[NoVar]]
  BY DEF Starts
<1> DEFINE a == InitState(F, val, StartWeight)
           b == Headed(a, search.head)
           k == search.change[NoVar]
<1>2. search \in States(F) /\ NoVar \in Indices
  BY NumVarAssumption DEF Whole, Summed, Exact, NoVar, Indices
<1>3. search.head \in Indices /\ k \in Int
  BY <1>2 DEF States
<1>4. Whole(a)
  BY InitWhole
<1>5. s = Noted(b, NoVar, k)
  BY <1>1 DEF Noted, Headed
<1> HIDE DEF a, k
<1>6. Summed(F, b) /\ SameCounts(a, b) /\ b.falseW = a.falseW
  BY <1>3, <1>4, Call, HeadSet DEF Whole
<1> HIDE DEF b
<1>7. Whole(b)
  BY <1>4, <1>6, WholeFollows
<1>8. Summed(F, s) /\ SameCounts(b, s) /\ s.falseW = b.falseW
  BY <1>3, <1>5, <1>7, Call, ChangeSet DEF Whole
<1> QED BY <1>7, <1>8, WholeFollows

(* It is whole before the first run. *)
LEMMA InitSInv == Init => SInv
<1> SUFFICES ASSUME Init PROVE SInv
  OBVIOUS
<1>1. CallOK
  BY DEF Init, CallOK
<1>2. Typed
  <2>1. NoVar \in Indices
    BY NumVarAssumption DEF NoVar, Indices
  <2>2. parm.cutoff \in Nat /\ Len(F) \in Nat
    BY <1>1, Call
  <2>3. best.num = Len(F) + 1 /\ best.step = 0
    BY DEF Init, NoBest
  <2>4. flip = NoVar /\ pc = "run" /\ iRun = 0 /\ iStep = 0 /\ iNumFound = 0
        /\ startFalse = 0 /\ found = FALSE /\ terminateRun = FALSE /\ terminateAll = FALSE
        /\ exitCode = 0
    BY DEF Init
  <2>5. best.num \in Nat /\ best.step \in Nat
    BY <2>2, <2>3
  <2>6. iStep <= parm.cutoff
    BY <2>2, <2>4
  <2>7. flip \in Indices
    BY <2>1, <2>4
  <2> QED BY <2>4, <2>5, <2>6, <2>7 DEF Typed
<1>3. Whole(search)
  <2> DEFINE a == InitState(F, [v \in Vars |-> FALSE], StartWeight)
  <2>1. PICK head \in Indices : search = Headed(a, head)
    <3>1. NoVar \in Indices
      BY NumVarAssumption DEF NoVar, Indices
    <3>2. PICK head \in (IF KeepsHead THEN Indices ELSE {NoVar}) :
             search = [InitState(F, [v \in Vars |-> FALSE], StartWeight) EXCEPT !.head = head]
      BY DEF Init
    <3>3. head \in Indices
      BY <3>1, <3>2
    <3> QED BY <3>2, <3>3 DEF Headed
  <2>2. Whole(a)
    BY <1>1, InitWhole
  <2> HIDE DEF a
  <2>3. Summed(F, search) /\ SameCounts(a, search) /\ search.falseW = a.falseW
    BY <1>1, <2>1, <2>2, Call, HeadSet DEF Whole
  <2> QED BY <2>2, <2>3, WholeFollows
<1> QED BY <1>1, <1>2, <1>3 DEF SInv
-----------------------------------------------------------------------------
(* A step. *)

After(s, v) == IF v = NoVar THEN s.val ELSE Turned(s.val, v)

(* A flip, or none, leaves it exact for the new assignment. *)
LEMMA FlipWhole ==
    ASSUME CallOK, NEW s, Whole(s), NEW v \in Indices, NEW t, t = Flip(F, s, v)
    PROVE  /\ Summed(F, t) /\ t.val = After(s, v) /\ t.weight = s.weight
           /\ t.falseW = s.falseW /\ t.change = s.change
<1>1. CASE v = NoVar
  BY <1>1 DEF Flip, After, Whole
<1>2. CASE v # NoVar
  <2>1. v \in Vars
    BY <1>2, NumVarAssumption DEF Indices, Vars, NoVar
  <2>2. Exact(F, s) /\ s.sum = Total(s.weight)
    BY DEF Whole, Summed
  <2>3. /\ Exact(F, Flip(F, s, v))
        /\ Flip(F, s, v).val = Turned(s.val, v) /\ SameButVal(s, Flip(F, s, v))
    BY <2>1, <2>2, Call, FlipKeepsExact, NumVarAssumption
  <2> QED BY <1>2, <2>2, <2>3 DEF Summed, SameButVal, After
<1> QED BY <1>1, <1>2

(* PostFlip changes the penalties of SAPS, or notes the step. *)
LEMMA PostFlipWhole ==
    ASSUME CallOK, NEW t, Summed(F, t), NEW v, iStep \in Nat, NEW p \in PostFlip(t, v)
    PROVE  /\ Summed(F, p) /\ p.val = t.val /\ p.falseW = t.falseW /\ p.falses = t.falses
           /\ KeepsCost => p.weight = t.weight
<1>1. CASE algorithm = "saps" /\ v = NoVar
  <2>1. p \in PostFlipSAPS(F, t)
    BY <1>1 DEF PostFlip, KeepsChange, NoveltyLike, HSatLike
  <2>2. KeepsCrit /\ Unit = 1 /\ ~KeepsCost
    BY <1>1 DEF KeepsCrit, KeepsCost, Unit, NoveltyLike, WalkSatLike
  <2> QED BY <2>1, <2>2, Call, PostFlipKeepsExact, NumVarAssumption, MaxPenaltyAssumption,
             AlphaAssumption
<1>2. CASE ~(algorithm = "saps" /\ v = NoVar) /\ KeepsChange
  <2>1. p = Noted(t, v, iStep + 1)
    BY <1>2 DEF PostFlip, Noted
  <2>2. iStep + 1 \in Int
    OBVIOUS
  <2>3. Summed(F, p) /\ SameCounts(t, p) /\ p.falseW = t.falseW
    BY <2>1, <2>2, Call, ChangeSet
  <2> QED BY <2>3 DEF SameCounts
<1>3. CASE ~(algorithm = "saps" /\ v = NoVar) /\ ~KeepsChange
  <2>1. p = t
    BY <1>3 DEF PostFlip
  <2> QED BY <2>1
<1> QED BY <1>1, <1>2, <1>3

(* The cost that is kept follows the clauses that v makes and breaks. *)
LEMMA FalseWeightIs ==
    ASSUME CallOK, NEW s, Whole(s), NEW v \in Indices, NEW p, Summed(F, p),
           p.val = After(s, v), p.falseW = s.falseW, KeepsCost => p.weight = s.weight
    PROVE  /\ FalseWeight(s, p, v) \in Int
           /\ KeepsCost /\ Simple(F) =>
                 FalseWeight(s, p, v) = WeightOf(p.weight, FalseClauses(F, p.val))
<1> DEFINE l == TrueLit(s.val, v)
           nl == FalseLit(s.val, v)
           N == p.numTrue
           w == p.weight
<1>0. s \in States(F) /\ p \in States(F) /\ Numbers(F, p) /\ F \in Formulas
  BY Call DEF Whole, Summed, Exact
<1>1. /\ s.falseW \in Int /\ s.val \in [Vars -> BOOLEAN] /\ w \in Weights(F)
      /\ N \in [DOMAIN F -> Int]
  BY <1>0 DEF States, Weights
<1>2. CASE ~KeepsCost \/ v = NoVar
  <2>1. FalseWeight(s, p, v) = p.falseW
    BY <1>2 DEF FalseWeight
  <2>2. KeepsCost /\ Simple(F) => p.falseW = WeightOf(p.weight, FalseClauses(F, p.val))
    BY <1>2 DEF Whole, CostOK, After
  <2> QED BY <1>1, <2>1, <2>2
<1>3. CASE KeepsCost /\ v # NoVar
  <2>1. v \in Vars
    BY <1>3, NumVarAssumption DEF Indices, Vars, NoVar
  <2>2. FalseWeight(s, p, v) = s.falseW + Charge(F, l, N, w, 0) - Charge(F, nl, N, w, 1)
    BY <1>3 DEF FalseWeight, Charge
  <2>3. Charge(F, l, N, w, 0) \in Int /\ Charge(F, nl, N, w, 1) \in Int
    <3>1. l \in Literals /\ nl \in Literals
      BY <1>1, <2>1, TurnedIs, NumVarAssumption
    <3> HIDE DEF l, nl, N, w
    <3> QED BY <1>0, <1>1, <3>1, ChargeType
  <2>4. FalseWeight(s, p, v) \in Int
    BY <1>1, <2>2, <2>3
  <2>5. ASSUME Simple(F)
        PROVE  FalseWeight(s, p, v) = WeightOf(p.weight, FalseClauses(F, p.val))
    <3>1. p.val = Turned(s.val, v)
      BY <1>3 DEF After
    <3>2. N = [c \in DOMAIN F |-> NumTrueLit(F, Turned(s.val, v), c)]
      BY <1>0, <1>1, <3>1 DEF Numbers
    <3>3. WeightOf(w, FalseClauses(F, Turned(s.val, v)))
             = WeightOf(w, FalseClauses(F, s.val)) + Charge(F, l, N, w, 0)
                                                   - Charge(F, nl, N, w, 1)
      BY <1>0, <1>1, <2>1, <2>5, <3>2, CostAfter, NumVarAssumption
    <3>4. s.falseW = WeightOf(w, FalseClauses(F, s.val))
      BY <1>3, <2>5 DEF Whole, CostOK
    <3> QED BY <2>2, <3>1, <3>3, <3>4
  <2> QED BY <2>4, <2>5
<1> QED BY <1>2, <1>3

(* What a step makes of the state s it starts from, and what it reports. *)
LEMMA StepWhole ==
    ASSUME CallOK, NEW s, Whole(s), NEW v \in Indices, NEW h \in Indices, iStep \in Nat,
           NEW t, t = Headed(Flip(F, s, v), h), NEW p \in PostFlip(t, v),
           NEW r, r = Costing(p, FalseWeight(s, p, v))
    PROVE  /\ Whole(r) /\ r.val = After(s, v) /\ Summed(F, t) /\ t.val = After(s, v)
           /\ NumFalse(r) = NumFalse(t)
<1> DEFINE a == Flip(F, s, v)
           k == FalseWeight(s, p, v)
<1>1. Summed(F, a) /\ a.val = After(s, v) /\ a.weight = s.weight /\ a.falseW = s.falseW
  BY FlipWhole
<1>2. Summed(F, t) /\ SameCounts(a, t) /\ t.falseW = a.falseW
  <2> HIDE DEF a
  <2> QED BY <1>1, Call, HeadSet DEF a
<1>3. t.val = After(s, v) /\ t.weight = s.weight
  BY <1>1, <1>2 DEF SameCounts
<1>4. /\ Summed(F, p) /\ p.val = t.val /\ p.falseW = t.falseW /\ p.falses = t.falses
      /\ KeepsCost => p.weight = t.weight
  BY <1>2, PostFlipWhole
<1>5. /\ k \in Int
      /\ KeepsCost /\ Simple(F) => k = WeightOf(p.weight, FalseClauses(F, p.val))
  BY <1>1, <1>2, <1>3, <1>4, FalseWeightIs
<1> HIDE DEF k
<1>6. Summed(F, r) /\ SameCounts(p, r) /\ r.falseW = k
  <2>1. r = Costing(p, k)
    BY DEF k
  <2>2. F \in Formulas /\ Summed(F, p) /\ k \in Int
    BY <1>4, <1>5, Call
  <2> QED BY <2>1, <2>2, CostSet
<1>7. CostOK(r)
  <2>1. KeepsCost => s.weight = inst.weight
    BY DEF Whole, CostOK
  <2> QED BY <1>3, <1>4, <1>5, <1>6, <2>1 DEF CostOK, SameCounts
<1> QED BY <1>2, <1>3, <1>4, <1>6, <1>7 DEF Whole, SameCounts, NumFalse
-----------------------------------------------------------------------------
(* What is said of a state depends on no other variable than the algorithm *)
(* and the instance, which a call keeps.                                   *)
LEMMA SameWhole ==
    ASSUME algorithm' = algorithm, inst' = inst, Whole(search')
    PROVE  Whole(search)'
<1>1. KeepsCrit' = KeepsCrit /\ KeepsCost' = KeepsCost /\ KeepsVars' = KeepsVars
      /\ Unit' = Unit /\ F' = F
  BY DEF KeepsCrit, KeepsCost, KeepsVars, Unit, Weighted, F
<1>2. Units(F)' = Units(F)
  BY <1>1 DEF Units
<1>3. /\ search' \in States(F) /\ Numbers(F, search') /\ CritOK(F, search')
      /\ ListOK(F, search') /\ MakeOK(F, search') /\ BreakOK(F, search', {})
      /\ WeightOK(F, search') /\ search'.sum = Total(search'.weight)
      /\ CostOK(search')
  BY DEF Whole, Summed, Exact, Consistent
<1>4. search' \in States(F)' /\ Numbers(F, search)' /\ ListOK(F, search)'
  BY <1>1, <1>3 DEF Numbers, ListOK
<1>5. CritOK(F, search)' /\ WeightOK(F, search)'
  BY <1>1, <1>3 DEF CritOK, WeightOK
<1>6. MakeOK(F, search)'
  BY <1>1, <1>2, <1>3 DEF MakeOK, VarsKept
<1>7. BreakOK(F, search, {})'
  BY <1>1, <1>2, <1>3 DEF BreakOK
<1>8. CostOK(search)'
  BY <1>1, <1>3 DEF CostOK
<1> QED BY <1>3, <1>4, <1>5, <1>6, <1>7, <1>8 DEF Whole, Summed, Exact, Consistent
-----------------------------------------------------------------------------
(* The start of a run keeps it whole. *)
LEMMA StartRunSInv == SInv /\ StartRun => SInv'
<1> SUFFICES ASSUME SInv, StartRun PROVE SInv'
  OBVIOUS
<1> USE DEF data, runs
<1>1. CallOK /\ CallOK' /\ algorithm' = algorithm /\ inst' = inst /\ F' = F
  BY DEF SInv, CallOK, StartRun, F
<1>2. Whole(search)'
  <2>1. Whole(search')
    BY StartsWhole DEF SInv, StartRun
  <2> QED BY <1>1, <2>1, SameWhole
<1>3. Typed'
  <2>1. NumFalse(search') \in Nat /\ Len(F) \in Nat /\ parm.cutoff \in Nat
    <3>1. Exact(F, search')
      BY StartsWhole DEF SInv, StartRun, Whole, Summed
    <3> QED BY <1>1, <3>1, Call, FalseOnes, NumVarAssumption
  <2>2. best'.num = Len(F) + 1 /\ best'.step = 0
    BY DEF StartRun, NoBest
  <2>3. best'.num \in Nat /\ best'.step \in Nat
    BY <2>1, <2>2
  <2>4. /\ startFalse' = NumFalse(search') /\ iStep' = 0 /\ found' = FALSE
        /\ terminateRun' = FALSE /\ pc' = "step" /\ flip' = flip
        /\ terminateAll' = terminateAll /\ exitCode' = exitCode /\ parm' = parm
    BY DEF StartRun
  <2>5. flip \in Indices /\ terminateAll \in BOOLEAN /\ exitCode \in {0, 10}
    BY DEF SInv, Typed
  <2>6. iStep' \in Nat /\ iStep' <= parm'.cutoff
    BY <2>1, <2>4
  <2>7. terminateAll' \in BOOLEAN
    BY <2>4, <2>5, Zenon
  <2> QED BY <2>1, <2>3, <2>4, <2>5, <2>6, <2>7 DEF Typed
<1> QED BY <1>1, <1>2, <1>3 DEF SInv

(* The parts of a step. *)
StepFrom(s, v, t, p, r) ==
    /\ s \in IF Restarting THEN Starts ELSE {search}
    /\ v \in Picks(F, s, iStep + 1, parm)
    /\ t = Headed(Flip(F, s, v), NewHead(s, iStep + 1, parm))
    /\ p \in PostFlip(t, v)
    /\ r = Costing(p, FalseWeight(s, p, v))
    /\ flip' = v
    /\ search' = r
    /\ best' = CheckBestFalse(t)
    /\ track' \in TrackStep(IF Restarting THEN <<>> ELSE track, NumFalse(t),
                            best'.step = iStep')

(* The states a step goes through: the one it starts from, flipped, and    *)
(* repaired.                                                               *)
LEMMA StepParts ==
    ASSUME Step
    PROVE  \E s, v, t, p, r : StepFrom(s, v, t, p, r)
<1>1. PICK s \in (IF Restarting THEN Starts ELSE {search}) :
      \E v \in Picks(F, s, iStep + 1, parm) :
          LET t == [Flip(F, s, v) EXCEPT !.head = NewHead(s, iStep + 1, parm)] IN
          /\ flip' = v
          /\ best' = CheckBestFalse(t)
          /\ track' \in TrackStep(IF Restarting THEN <<>> ELSE track, NumFalse(t),
                                  best'.step = iStep')
          /\ \E p \in PostFlip(t, v) :
                search' = [p EXCEPT !.falseW = FalseWeight(s, p, v)]
  BY DEF Step
<1>2. PICK v \in Picks(F, s, iStep + 1, parm) :
          LET t == [Flip(F, s, v) EXCEPT !.head = NewHead(s, iStep + 1, parm)] IN
          /\ flip' = v
          /\ best' = CheckBestFalse(t)
          /\ track' \in TrackStep(IF Restarting THEN <<>> ELSE track, NumFalse(t),
                                  best'.step = iStep')
          /\ \E p \in PostFlip(t, v) :
                search' = [p EXCEPT !.falseW = FalseWeight(s, p, v)]
  BY <1>1
<1> DEFINE t == Headed(Flip(F, s, v), NewHead(s, iStep + 1, parm))
<1>3. /\ flip' = v
      /\ best' = CheckBestFalse(t)
      /\ track' \in TrackStep(IF Restarting THEN <<>> ELSE track, NumFalse(t),
                              best'.step = iStep')
      /\ \E p \in PostFlip(t, v) : search' = Costing(p, FalseWeight(s, p, v))
  BY <1>2 DEF Headed, Costing
<1>4. PICK p \in PostFlip(t, v) : search' = Costing(p, FalseWeight(s, p, v))
  BY <1>3
<1> HIDE DEF t
<1>5. StepFrom(s, v, t, p, search')
  BY <1>1, <1>2, <1>3, <1>4 DEF StepFrom, t
<1> QED BY <1>5

(* What a step does to a state that is whole. *)
LEMMA StepDoes ==
    ASSUME SInv, NEW s, NEW v, NEW t, NEW p, NEW r, StepFrom(s, v, t, p, r)
    PROVE  /\ Whole(s) /\ v \in Indices /\ Whole(r) /\ r.val = After(s, v)
           /\ Summed(F, t) /\ t.val = After(s, v) /\ NumFalse(r) = NumFalse(t)
           /\ NumFalse(t) \in Nat /\ NumFalse(t) = Cardinality(FalseClauses(F, t.val))
           /\ NumFalse(t) <= Len(F)
<1>1. CallOK /\ Whole(search) /\ iStep \in Nat
  BY DEF SInv, Typed
<1>2. Whole(s)
  <2>1. CASE Restarting
    BY <1>1, <2>1, StartsWhole DEF StepFrom
  <2>2. CASE ~Restarting
    BY <1>1, <2>2 DEF StepFrom
  <2> QED BY <2>1, <2>2
<1>3. /\ F \in Formulas /\ \A c \in DOMAIN F : F[c] # <<>>
      /\ algorithm \in Algorithms /\ parm.noise \in {-1, 0, 1}
  BY <1>1, Call
<1>4. Summed(F, s) /\ s \in States(F)
  BY <1>2 DEF Whole, Summed, Exact
<1>5. v \in Indices
  <2>1. v \in Picks(F, s, iStep + 1, parm)
    BY DEF StepFrom
  <2> QED BY <1>3, <1>4, <2>1, PicksAre, NumVarAssumption
<1>6. NewHead(s, iStep + 1, parm) \in Indices
  BY <1>3, <1>4, HeadIs, NumVarAssumption
<1>7. /\ Whole(r) /\ r.val = After(s, v) /\ Summed(F, t) /\ t.val = After(s, v)
      /\ NumFalse(r) = NumFalse(t)
  BY <1>1, <1>2, <1>5, <1>6, StepWhole DEF StepFrom
<1>8. NumFalse(t) \in Nat /\ NumFalse(t) = Cardinality(FalseClauses(F, t.val))
      /\ NumFalse(t) <= Len(F)
  BY <1>3, <1>7, NumFalseIs, NumVarAssumption DEF Summed
<1> QED BY <1>2, <1>5, <1>7, <1>8

(* A step keeps it whole. *)
LEMMA StepSInv == SInv /\ Step => SInv'
<1> SUFFICES ASSUME SInv, Step PROVE SInv'
  OBVIOUS
<1> USE DEF data, runs
<1>1. CallOK /\ CallOK' /\ algorithm' = algorithm /\ inst' = inst /\ parm' = parm
  BY DEF SInv, CallOK, Step
<1>2. PICK s, v, t, p, r : StepFrom(s, v, t, p, r)
  BY StepParts
<1>3. /\ v \in Indices /\ Whole(r) /\ NumFalse(t) \in Nat
  BY <1>2, StepDoes
<1>4. Whole(search)'
  <2>1. Whole(search')
    BY <1>2, <1>3 DEF StepFrom
  <2> QED BY <1>1, <2>1, SameWhole
<1>5. Typed'
  <2>1. best' = CheckBestFalse(t) /\ flip' = v
    BY <1>2 DEF StepFrom
  <2>2. iStep \in Nat /\ best.num \in Nat /\ best.step \in Nat /\ startFalse \in Nat
        /\ exitCode \in {0, 10} /\ terminateAll \in BOOLEAN
    BY DEF SInv, Typed
  <2>3. best'.num \in Nat /\ best'.step \in Nat
    BY <1>3, <2>1, <2>2 DEF CheckBestFalse
  <2>4. /\ startFalse' = startFalse /\ exitCode' = exitCode /\ iStep' = iStep + 1
        /\ pc' = pc /\ pc = "step" /\ iStep < parm.cutoff
    BY DEF Step, InRun
  <2>5. parm.cutoff \in Nat
    BY <1>1, Call
  <2>6. iStep' \in Nat /\ iStep' <= parm'.cutoff
    BY <1>1, <2>2, <2>4, <2>5
  <2>7. found' \in BOOLEAN
    BY DEF Step, OnTarget
  <2>8. terminateRun' \in BOOLEAN /\ terminateAll' \in BOOLEAN
    <3>1. PICK late : /\ terminateRun' = (NoImprove(iStep', best') \/ late)
                      /\ terminateAll' = (terminateAll \/ late)
      BY DEF Step
    <3> QED BY <3>1, Zenon
  <2> QED BY <1>3, <2>1, <2>2, <2>3, <2>4, <2>6, <2>7, <2>8 DEF Typed
<1> QED BY <1>1, <1>4, <1>5 DEF SInv

(* The search state is left alone otherwise. *)
LEMMA SearchStays ==
    ASSUME SInv, algorithm' = algorithm, inst' = inst, parm' = parm, search' = search, Typed'
    PROVE  SInv'
<1>1. Whole(search')
  BY DEF SInv
<1>2. Whole(search)'
  BY <1>1, SameWhole
<1> QED BY <1>2 DEF SInv, CallOK

(* Nothing else touches it. *)
LEMMA OtherSInv == SInv /\ (Crash \/ EndRun \/ Exit \/ UNCHANGED vars) => SInv'
<1> SUFFICES ASSUME SInv, Crash \/ EndRun \/ Exit \/ UNCHANGED vars PROVE SInv'
  OBVIOUS
<1>1. /\ algorithm' = algorithm /\ inst' = inst /\ parm' = parm /\ search' = search
      /\ flip' = flip /\ iStep' = iStep /\ startFalse' = startFalse /\ best' = best
      /\ found' = found /\ terminateRun' = terminateRun
  <2>1. CASE Crash
    BY <2>1 DEF Crash, data, runs
  <2>2. CASE EndRun
    BY <2>2 DEF EndRun, data, runs
  <2>3. CASE Exit
    BY <2>3 DEF Exit, data, runs
  <2>4. CASE UNCHANGED vars
    BY <2>4 DEF vars
  <2> QED BY <2>1, <2>2, <2>3, <2>4
<1>2. pc' \in {"run", "step", "crashed", "done"}
  BY DEF Crash, EndRun, Exit, vars, SInv, Typed
<1>3. exitCode' \in {0, 10}
  BY DEF Crash, EndRun, Exit, vars, SInv, Typed
<1>4. terminateAll' \in BOOLEAN
  <2>1. terminateAll \in BOOLEAN
    BY DEF SInv, Typed
  <2>2. CASE EndRun
    BY <2>1, <2>2, Zenon DEF EndRun
  <2>3. CASE ~EndRun
    <3>1. terminateAll' = terminateAll
      BY <2>3 DEF Crash, Exit, vars
    <3> QED BY <2>1, <3>1, Zenon
  <2> QED BY <2>2, <2>3
<1>5. /\ flip \in Indices /\ iStep \in Nat /\ startFalse \in Nat /\ best.num \in Nat
      /\ best.step \in Nat /\ iStep <= parm.cutoff
  BY DEF SInv, Typed
<1>6. found' \in BOOLEAN /\ terminateRun' \in BOOLEAN
  <2>1. found \in BOOLEAN /\ terminateRun \in BOOLEAN
    BY DEF SInv, Typed
  <2> QED BY <1>1, <2>1, Zenon
<1>7. Typed'
  BY <1>1, <1>2, <1>3, <1>4, <1>5, <1>6 DEF Typed
<1> QED BY <1>1, <1>7, SearchStays

(* It is whole whatever happens. *)
LEMMA NextSInv == SInv /\ [Next]_vars => SInv'
BY StartRunSInv, StepSInv, OtherSInv DEF Next, Ended

(* The state of the search is exact at any time. *)
THEOREM SearchInvariance == Spec => []SInv
BY InitSInv, NextSInv, PTL DEF Spec

(* The types, in the sets of TypeOK. *)
LEMMA TypeSets ==
    ASSUME Typed, ControlOK
    PROVE  /\ {iRun, iStep, iNumFound, startFalse, best.num, best.step} \subseteq Nat
           /\ {found, terminateRun, terminateAll} \subseteq BOOLEAN
<1>1. iStep \in Nat /\ startFalse \in Nat /\ best.num \in Nat /\ best.step \in Nat
      /\ iRun \in Nat /\ iNumFound \in Nat
  BY DEF Typed, ControlOK
<1>2. found \in BOOLEAN /\ terminateRun \in BOOLEAN /\ terminateAll \in BOOLEAN
  BY DEF Typed
<1>3. {found, terminateRun, terminateAll} \subseteq BOOLEAN
  BY <1>2, Zenon
<1> QED BY <1>1, <1>3

(* The whole of the incremental state, types included, is what its         *)
(* definitions say of the current assignment, whichever flips, restarts,   *)
(* smoothing and scaling led there.                                        *)
THEOREM StateIsExact == Spec => []StateExact
<1>1. IInv /\ SInv => StateExact
  <2> SUFFICES ASSUME IInv, SInv PROVE StateExact
    OBVIOUS
  <2>1. /\ F \in Formulas /\ Exact(F, search) /\ search \in States(F)
        /\ search.sum = Total(search.weight) /\ CostOK(search) /\ Typed /\ ControlOK
    BY Call DEF SInv, Whole, Summed, Exact, IInv
  <2>2. TypeOK
    <3>1. search.val \in [Vars -> BOOLEAN]
      BY <2>1 DEF States
    <3>2. search.numTrue \in [DOMAIN F -> Nat]
      <4>1. search.numTrue \in [DOMAIN F -> Int] /\ \A c \in DOMAIN F : search.numTrue[c] >= 0
        BY <2>1 DEF States, Exact, Consistent, ListOK
      <4> QED BY <4>1
    <3>3. \A u \in Vars : search.break[u] - search.make[u] <= Len(F)
      BY <2>1, ScoreBound, NumVarAssumption
    <3>4. /\ {iRun, iStep, iNumFound, startFalse, best.num, best.step} \subseteq Nat
          /\ {found, terminateRun, terminateAll} \subseteq BOOLEAN
      BY <2>1, TypeSets
    <3>5. /\ pc \in {"run", "step", "crashed", "done"} /\ flip \in Indices
          /\ iStep <= parm.cutoff /\ Len(rows) = iRun /\ exitCode \in {0, 10}
      BY <2>1 DEF Typed, ControlOK
    <3> QED BY <3>1, <3>2, <3>3, <3>4, <3>5, Zenon DEF TypeOK
  <2>3. FalseListExact
    <3>1. search.numTrue \in [DOMAIN F -> Int]
          /\ \A c \in DOMAIN F : search.numTrue[c] = NumTrueLit(F, search.val, c)
      BY <2>1 DEF States, Exact, Numbers
    <3>2. search.numTrue = [c \in DOMAIN F |-> NumTrueLit(F, search.val, c)]
      BY <3>1
    <3>3. Represents(search.falses, {c \in DOMAIN F : search.numTrue[c] = 0})
      BY <2>1 DEF Exact, Consistent, ListOK
    <3>4. FalseClauses(F, search.val) = {c \in DOMAIN F : search.numTrue[c] = 0}
      BY <2>1, FalseOnes, NumVarAssumption
    <3> QED BY <3>2, <3>3, <3>4 DEF FalseListExact
  <2>4. ASSUME Simple(F) PROVE CountsAre(F, search)
    BY <2>1, <2>4, ExactCounts, NumVarAssumption
  <2>5. CountsExact
    <3> SUFFICES ASSUME Simple(F) PROVE CountsExact
      BY DEF CountsExact
    <3>1. \A c \in DOMAIN F : KeepsCrit /\ search.numTrue[c] = 1 =>
                                 search.crit[c] = FirstTrueVar(F, search.val, c)
      BY <2>1 DEF Exact, CritOK
    <3> QED BY <2>4, <3>1 DEF CountsExact, CountsAre
  <2>6. WeightsExact
    BY <2>1, <2>4 DEF WeightsExact, CountsAre, CostOK
  <2> QED BY <2>2, <2>3, <2>5, <2>6 DEF StateExact
<1> QED BY <1>1, Invariance, SearchInvariance, PTL
-----------------------------------------------------------------------------
(* What is noted of a run: the inductive invariant. *)

FoundOK == pc = "step" /\ iStep > 0 => (found <=> OnTarget(search))

BestOK ==
    pc = "step" =>
        \/ iStep = 0 /\ best.num = Len(F) + 1
        \/ /\ iStep > 0 /\ best.step \in 1..iStep
           /\ best.num <= NumFalse(search)
           /\ best.step = iStep => best.num = NumFalse(search)

Entries == [num : Nat, step : Nat]

(* Each entry is better than the one before, and not of the next step. *)
Falling(tr) ==
    \A i \in 1..(Len(tr) - 1) : tr[i].num > tr[i + 1].num /\ tr[i].step + 1 < tr[i + 1].step

EndsAt(tr, num, step) ==
    /\ tr \in Seq(Entries) /\ tr # <<>>
    /\ tr[Len(tr)].num = num /\ tr[Len(tr)].step = step
    /\ Falling(tr)

TrackOK ==
    pc = "step" /\ iStep > 0 /\ parm.restart = 0 => EndsAt(track, best.num, best.step)

RInv == FoundOK /\ BestOK /\ TrackOK

(* A new best takes the place of the one of the step before, or follows. *)
LEMMA TrackGoesOn ==
    ASSUME NEW tr, NEW num \in Nat, NEW step \in Nat, EndsAt(tr, num, step), iStep \in Nat,
           iStep > 0, step <= iStep, NEW new \in Nat, new < num,
           NEW tr2 \in TrackStep(tr, new, TRUE)
    PROVE  EndsAt(tr2, new, iStep + 1)
<1> DEFINE e == [num |-> new, step |-> iStep + 1]
           n == Len(tr)
<1>1. /\ tr \in Seq(Entries) /\ n \in Nat /\ n # 0 /\ tr # <<>>
      /\ tr[n].num = num /\ tr[n].step = step /\ Falling(tr)
  BY DEF EndsAt
<1>2. tr2 = IF tr[n].step = iStep THEN [tr EXCEPT ![n] = e] ELSE Append(tr, e)
  BY <1>1 DEF TrackStep
<1>3. e \in Entries /\ e.num = new /\ e.step = iStep + 1
  BY DEF Entries
<1>4. \A i \in 1..n : tr[i] \in Entries /\ tr[i].num \in Nat /\ tr[i].step \in Nat
  <2>1. ASSUME NEW i \in 1..n PROVE tr[i] \in Entries
    BY <1>1
  <2> QED BY <2>1 DEF Entries
<1> HIDE DEF e, n
<1>5. CASE step = iStep
  <2>1. tr2 = [tr EXCEPT ![n] = e]
    BY <1>1, <1>2, <1>5
  <2>2. /\ tr2 \in Seq(Entries) /\ Len(tr2) = n /\ tr2[n] = e
        /\ \A i \in 1..n : i # n => tr2[i] = tr[i]
    BY <1>1, <1>3, <2>1 DEF n
  <2>3. ASSUME NEW i \in 1..(n - 1)
        PROVE  tr2[i].num > tr2[i + 1].num /\ tr2[i].step + 1 < tr2[i + 1].step
    <3>1. i \in 1..n /\ i + 1 \in 1..n /\ i # n
      BY <1>1
    <3>2. tr2[i] = tr[i] /\ tr[i].num \in Nat /\ tr[i].step \in Nat
      BY <1>4, <2>2, <3>1
    <3>3. tr[i].num > tr[i + 1].num /\ tr[i].step + 1 < tr[i + 1].step
      BY <1>1 DEF Falling, n
    <3>4. CASE i + 1 = n
      <4>1. tr2[i + 1].num = new /\ tr2[i + 1].step = iStep + 1
        BY <1>3, <2>2, <3>4
      <4>2. tr[i + 1].num = num /\ tr[i + 1].step = step
        BY <1>1, <3>4
      <4> QED BY <1>5, <3>2, <3>3, <4>1, <4>2
    <3>5. CASE i + 1 # n
      <4>1. tr2[i + 1] = tr[i + 1]
        BY <2>2, <3>1, <3>5
      <4> QED BY <3>2, <3>3, <4>1
    <3> QED BY <3>4, <3>5
  <2>4. tr2 # <<>>
    BY <1>1, <2>2
  <2> QED BY <1>3, <2>2, <2>3, <2>4 DEF EndsAt, Falling
<1>6. CASE step # iStep
  <2>1. tr2 = Append(tr, e)
    BY <1>1, <1>2, <1>6
  <2>2. /\ tr2 \in Seq(Entries) /\ Len(tr2) = n + 1 /\ tr2[n + 1] = e
        /\ \A i \in 1..n : tr2[i] = tr[i]
    BY <1>1, <1>3, <2>1 DEF n
  <2>3. ASSUME NEW i \in 1..n
        PROVE  tr2[i].num > tr2[i + 1].num /\ tr2[i].step + 1 < tr2[i + 1].step
    <3>1. tr2[i] = tr[i] /\ tr[i].num \in Nat /\ tr[i].step \in Nat
      BY <1>4, <2>2
    <3>2. CASE i = n
      <4>1. tr2[i + 1].num = new /\ tr2[i + 1].step = iStep + 1
        BY <1>3, <2>2, <3>2
      <4> QED BY <1>1, <1>6, <3>1, <3>2, <4>1
    <3>3. CASE i # n
      <4>1. i \in 1..(n - 1) /\ i + 1 \in 1..n
        BY <1>1, <3>3
      <4>2. tr2[i + 1] = tr[i + 1]
        BY <2>2, <4>1
      <4>3. tr[i].num > tr[i + 1].num /\ tr[i].step + 1 < tr[i + 1].step
        BY <1>1, <4>1 DEF Falling, n
      <4> QED BY <3>1, <4>2, <4>3
    <3> QED BY <3>2, <3>3
  <2>4. tr2 # <<>> /\ 1..(Len(tr2) - 1) = 1..n
    BY <1>1, <2>2
  <2> QED BY <1>3, <2>2, <2>3, <2>4 DEF EndsAt, Falling
<1> QED BY <1>5, <1>6

(* A step keeps what is reported true. *)
LEMMA StepRInv == SInv /\ RInv /\ Step => RInv'
<1> SUFFICES ASSUME SInv, RInv, Step PROVE RInv'
  OBVIOUS
<1> USE DEF data, runs
<1>1. PICK s, v, t, p, r : StepFrom(s, v, t, p, r)
  BY StepParts
<1>2. NumFalse(r) = NumFalse(t) /\ NumFalse(t) \in Nat /\ NumFalse(t) <= Len(F)
  BY <1>1, StepDoes
<1>3. /\ best' = CheckBestFalse(t) /\ search' = r
      /\ track' \in TrackStep(IF Restarting THEN <<>> ELSE track, NumFalse(t),
                              best'.step = iStep')
  BY <1>1 DEF StepFrom
<1>4. /\ pc = "step" /\ pc' = "step" /\ iStep' = iStep + 1 /\ parm' = parm
      /\ algorithm' = algorithm /\ found' = OnTarget(search')
  BY DEF Step
<1>5. /\ iStep \in Nat /\ best.num \in Nat /\ best.step \in Nat /\ Len(F) \in Nat
      /\ parm.restart \in Nat
  BY Call DEF SInv, Typed
<1>6. /\ \/ iStep = 0 /\ best.num = Len(F) + 1
         \/ iStep > 0 /\ best.step \in 1..iStep
      /\ parm.restart = 0 /\ iStep > 0 => EndsAt(track, best.num, best.step)
  BY <1>4 DEF RInv, BestOK, TrackOK
<1> DEFINE new == NumFalse(t)
<1>7. /\ new < best.num => best'.num = new /\ best'.step = iStep + 1
      /\ ~(new < best.num) => best'.num = best.num /\ best'.step = best.step
  BY <1>3 DEF CheckBestFalse
<1>8. NumFalse(search') = new /\ new \in Nat /\ new <= Len(F)
  BY <1>2, <1>3
<1> HIDE DEF new
<1>9. /\ best'.step \in 1..(iStep + 1) /\ best'.num <= new
      /\ best'.step = iStep + 1 <=> new < best.num
      /\ best'.step = iStep + 1 => best'.num = new
      /\ iStep = 0 => new < best.num
  BY <1>5, <1>6, <1>7, <1>8
<1>10. FoundOK'
  <2>1. OnTarget(search)' = OnTarget(search')
    BY <1>4 DEF OnTarget, KeepsCost, NumFalse
  <2> QED BY <1>4, <2>1, Zenon DEF FoundOK
<1>11. BestOK'
  <2>1. NumFalse(search)' = new
    BY <1>8 DEF NumFalse
  <2>2. iStep' > 0
    BY <1>4, <1>5
  <2> QED BY <1>4, <1>9, <2>1, <2>2 DEF BestOK
<1>12. TrackOK'
  <2> SUFFICES ASSUME parm.restart = 0 PROVE EndsAt(track', best'.num, best'.step)
    BY <1>4 DEF TrackOK, EndsAt, Falling
  <2>1. track' \in TrackStep(track, new, best'.step = iStep + 1)
    <3>1. ~Restarting
      BY DEF Restarting
    <3> QED BY <1>3, <1>4, <3>1 DEF new
  <2>2. CASE iStep = 0
    <3> DEFINE e == [num |-> new, step |-> iStep + 1]
    <3>1. track' = <<e>>
      BY <2>1, <2>2 DEF TrackStep
    <3>2. e \in Entries /\ e.num = new /\ e.step = iStep + 1
      BY <1>5, <1>8 DEF Entries
    <3>3. best'.num = new /\ best'.step = iStep + 1
      BY <1>7, <1>9, <2>2
    <3> HIDE DEF e
    <3>4. /\ track' \in Seq(Entries) /\ Len(track') = 1 /\ track'[1] = e /\ track' # <<>>
      BY <3>1, <3>2
    <3>5. 1..(Len(track') - 1) = {}
      BY <3>4
    <3> QED BY <3>2, <3>3, <3>4, <3>5 DEF EndsAt, Falling
  <2>3. CASE iStep # 0 /\ best'.step # iStep + 1
    <3>1. track' = track
      BY <1>5, <2>1, <2>3 DEF TrackStep
    <3> QED BY <1>5, <1>6, <1>7, <1>9, <2>3, <3>1
  <2>4. CASE iStep # 0 /\ best'.step = iStep + 1
    <3>1. track' \in TrackStep(track, new, TRUE)
      BY <2>1, <2>4
    <3>2. new < best.num /\ best.step <= iStep /\ EndsAt(track, best.num, best.step)
          /\ iStep > 0
      BY <1>5, <1>6, <1>9, <2>4
    <3>3. EndsAt(track', new, iStep + 1)
      BY <1>5, <1>8, <3>1, <3>2, TrackGoesOn
    <3> QED BY <1>9, <2>4, <3>3
  <2> QED BY <2>2, <2>3, <2>4
<1> QED BY <1>10, <1>11, <1>12 DEF RInv

(* And so does everything else. *)
LEMMA OtherRInv ==
    SInv /\ RInv /\ (StartRun \/ Crash \/ EndRun \/ Exit \/ UNCHANGED vars) => RInv'
<1> SUFFICES ASSUME SInv, RInv, StartRun \/ Crash \/ EndRun \/ Exit \/ UNCHANGED vars
             PROVE  RInv'
  OBVIOUS
<1>1. CASE StartRun
  <2>1. iStep' = 0 /\ best'.num = Len(F) + 1 /\ F' = F
    BY <1>1 DEF StartRun, NoBest, data, F
  <2> QED BY <2>1 DEF RInv, FoundOK, BestOK, TrackOK
<1>2. CASE Crash \/ EndRun \/ Exit
  <2>1. pc' # "step"
    BY <1>2 DEF Crash, EndRun, Exit
  <2> QED BY <2>1 DEF RInv, FoundOK, BestOK, TrackOK
<1>3. CASE UNCHANGED vars
  BY <1>3 DEF vars, RInv, FoundOK, BestOK, TrackOK, EndsAt, Falling, OnTarget, KeepsCost,
     NumFalse, F
<1> QED BY <1>1, <1>2, <1>3

(* What is reported stays true. *)
LEMMA NextRInv == SInv /\ RInv /\ [Next]_vars => RInv'
BY StepRInv, OtherRInv DEF Next, Ended

(* What a run reports is true of the states it has gone through. *)
THEOREM ReportInvariance == Spec => []RInv
<1>1. Init => RInv
  BY DEF Init, RInv, FoundOK, BestOK, TrackOK
<1> QED BY <1>1, NextRInv, SearchInvariance, PTL DEF Spec

(* A run has found a solution exactly when its last step has led to one,   *)
(* the best number of false clauses is that of the step noted with it, and *)
(* the track ends with it.                                                 *)
THEOREM RunIsExact == Spec => []RunExact
<1>1. SInv /\ RInv => RunExact
  <2> SUFFICES ASSUME SInv, RInv PROVE RunExact
    OBVIOUS
  <2>1. FoundExact
    <3> SUFFICES ASSUME pc = "step", iStep > 0, KeepsCost => Simple(F)
                 PROVE  found <=> \/ KeepsCost /\ ByCost
                                  \/ (~KeepsCost \/ parm.timeout) /\ ByNumber
      BY DEF FoundExact
    <3>1. found <=> OnTarget(search)
      BY DEF RInv, FoundOK
    <3>2. Exact(F, search) /\ F \in Formulas
      BY Call DEF SInv, Whole, Summed
    <3>3. NumFalse(search) = Cardinality(FalseClauses(F, search.val))
      BY <3>2, NumFalseIs, NumVarAssumption
    <3>4. KeepsCost => search.falseW = WeightOf(inst.weight, FalseClauses(F, search.val))
      BY DEF SInv, Whole, CostOK
    <3> QED BY <3>1, <3>3, <3>4, Zenon DEF OnTarget, ByCost, ByNumber
  <2>2. BestAccounts
    BY DEF RInv, BestOK, BestAccounts
  <2>3. TrackEndsAtBest
    <3> SUFFICES ASSUME pc = "step", iStep > 0, parm.restart = 0
                 PROVE  /\ track # <<>>
                        /\ track[Len(track)] = [num |-> best.num, step |-> best.step]
                        /\ Falling(track)
      BY DEF TrackEndsAtBest, Falling
    <3>1. EndsAt(track, best.num, best.step)
      BY DEF RInv, TrackOK
    <3>2. track[Len(track)] \in Entries
      BY <3>1 DEF EndsAt
    <3> QED BY <3>1, <3>2 DEF EndsAt, Entries
  <2> QED BY <2>1, <2>2, <2>3 DEF RunExact
<1> QED BY <1>1, SearchInvariance, ReportInvariance, PTL
-----------------------------------------------------------------------------
(* Where the steps go. *)

(* What is known of the variable that a step flips. *)
LEMMA StepPicks ==
    ASSUME SInv, Next, StepTaken
    PROVE  /\ Whole(search) /\ Summed(F, search) /\ search \in States(F) /\ F \in Formulas
           /\ CallOK /\ iStep' = iStep + 1 /\ iStep \in Nat
           /\ flip' \in Indices
           /\ \/ PicksGreedily(search, flip')
              \/ PicksWalking(F, search, flip', iStep + 1, parm)
              \/ algorithm = "gsat-tabu" /\ flip' \in PickGSATTABU(search, iStep + 1, parm)
              \/ algorithm = "saps" /\ flip' \in PickSAPS(search)
<1>1. CallOK /\ Whole(search) /\ iStep \in Nat /\ iStep' = iStep + 1 /\ ~Restarting
  BY DEF SInv, Typed, StepTaken
<1>2. Step
  <2>1. iStep' # iStep
    BY <1>1
  <2> QED BY <2>1 DEF Next, StepTaken, StartRun, Crash, EndRun, Exit, Ended, vars
<1>3. PICK s, v, t, p, r : StepFrom(s, v, t, p, r)
  BY <1>2, StepParts
<1>4. flip' \in Picks(F, search, iStep + 1, parm)
  BY <1>1, <1>3 DEF StepFrom
<1>5. Summed(F, search) /\ search \in States(F)
  BY <1>1 DEF Whole, Summed, Exact
<1>6. /\ F \in Formulas /\ \A c \in DOMAIN F : F[c] # <<>>
      /\ algorithm \in Algorithms /\ parm.noise \in {-1, 0, 1}
  BY <1>1, Call
<1> QED BY <1>1, <1>4, <1>5, <1>6, PicksAre, NumVarAssumption

(* The cost that the moves are judged by is that of the state. *)
LEMMA CostIs == \A val : CostOf(F, search, val) = Cost(val)
BY DEF CostOf, Cost

(* The best flip is the steepest descent. *)
LEMMA BestIsDescent ==
    ASSUME NEW v, Best(F, search, v)
    PROVE  v # NoVar /\ \A w \in Vars : Cost(Turned(search.val, v)) <= Cost(Turned(search.val, w))
<1>1. v # NoVar
  BY DEF Best, Vars, NoVar
<1> QED BY <1>1, CostIs DEF Best

(* The steepest descent is taken while there is one. *)
LEMMA DescentStep ==
    SInv /\ Next /\ StepTaken /\ algorithm \in {"gsat", "hsat", "gsat-w", "saps"} /\ Simple(F)
        /\ (\E u \in Vars : Improving(u)) => DescentOf(flip')
<1> SUFFICES ASSUME SInv, Next, StepTaken, algorithm \in {"gsat", "hsat", "gsat-w", "saps"},
                    Simple(F), NEW u \in Vars, Improving(u)
             PROVE  DescentOf(flip')
  OBVIOUS
<1>1. Exact(F, search) /\ F \in Formulas
  BY StepPicks DEF Summed
<1>2. Best(F, search, flip')
  <2>1. CASE PicksGreedily(search, flip')
    <3>1. flip' \in Least(search, Vars) /\ algorithm \in Greedy
      BY <2>1 DEF PicksGreedily
    <3>2. Scored
      BY <3>1 DEF Scored, Greedy, Weighted, Unit, KeepsCrit, NoveltyLike, WalkSatLike
    <3> QED BY <1>1, <3>1, <3>2, LeastIsBest, NumVarAssumption
  <2>2. CASE algorithm = "saps" /\ flip' \in PickSAPS(search)
    <3>1. CostOf(F, search, Turned(search.val, u)) < CostOf(F, search, search.val)
      BY CostIs DEF Improving
    <3> QED BY <1>1, <2>2, <3>1, SapsIsBest, NumVarAssumption
  <2>3. ~PicksWalking(F, search, flip', iStep + 1, parm) /\ algorithm # "gsat-tabu"
    BY DEF PicksWalking, Walkers, NoveltyLike, WalkSatLike
  <2> QED BY <2>1, <2>2, <2>3, StepPicks
<1> QED BY <1>2, BestIsDescent DEF DescentOf

(* A walk flips a variable of a false clause, if the clause lets it. *)
LEMMA WalkStep ==
    SInv /\ Next /\ StepTaken /\ algorithm \in Walker =>
        \/ flip' \in Vars /\ InFalseClause(flip')
        \/ /\ flip' \in Vars
           /\ algorithm \in {"gwsat", "gwsat-w", "hwsat"}
           /\ Simple(F) => DescentOf(flip')
        \/ flip' = NoVar /\ FalseClauses(F, search.val) = {}
        \/ flip' = NoVar /\ \E c \in FalseClauses(F, search.val) : StuckOn(c)
<1> SUFFICES ASSUME SInv, Next, StepTaken, algorithm \in Walker
             PROVE  \/ flip' \in Vars /\ InFalseClause(flip')
                    \/ /\ flip' \in Vars
                       /\ algorithm \in {"gwsat", "gwsat-w", "hwsat"}
                       /\ Simple(F) => DescentOf(flip')
                    \/ flip' = NoVar /\ FalseClauses(F, search.val) = {}
                    \/ flip' = NoVar /\ \E c \in FalseClauses(F, search.val) : StuckOn(c)
  OBVIOUS
<1>1. /\ Exact(F, search) /\ F \in Formulas /\ search \in States(F)
      /\ iStep' = iStep + 1
  BY StepPicks DEF Summed
<1>2. PicksWalking(F, search, flip', iStep + 1, parm)
  <2>1. algorithm \notin Greedy /\ algorithm # "gsat-tabu" /\ algorithm # "saps"
    BY DEF Walker, Greedy, NoveltyLike, WalkSatLike
  <2> QED BY <2>1, StepPicks DEF PicksGreedily
<1>3. CASE algorithm \in {"gwsat", "gwsat-w", "hwsat"} /\ flip' \in Least(search, Vars)
  <2>1. Scored
    BY <1>3 DEF Scored, Weighted, Unit, KeepsCrit, NoveltyLike, WalkSatLike
  <2>2. ASSUME Simple(F) PROVE DescentOf(flip')
    <3>1. Best(F, search, flip')
      BY <1>1, <1>3, <2>1, <2>2, LeastIsBest, NumVarAssumption
    <3> QED BY <3>1, BestIsDescent DEF DescentOf
  <2>3. flip' \in Vars
    BY <1>3 DEF Least
  <2> QED BY <1>3, <2>2, <2>3
<1>4. CASE flip' \in Vars /\ InFalse(F, search, flip')
  BY <1>4 DEF InFalse, VarsOf, InFalseClause
<1>5. CASE flip' = NoVar /\ FalseClauses(F, search.val) = {}
  BY <1>5
<1>6. ASSUME flip' = NoVar, NEW c \in FalseClauses(F, search.val),
             StuckAt(F, search, c, iStep + 1, parm)
      PROVE  StuckOn(c)
  BY <1>1, <1>6 DEF StuckAt, StuckOn, Tabu
<1> QED BY <1>2, <1>3, <1>4, <1>5, <1>6 DEF PicksWalking, WalksTo

(* What was flipped within the last steps is flipped only when it has to. *)
LEMMA TabuStep ==
    SInv /\ Next /\ StepTaken /\ flip' \in Vars /\ JustFlipped(flip') =>
        \/ algorithm \notin {"gsat-tabu", "walksat-tabu"}
        \/ algorithm = "gsat-tabu" /\ \A u \in Vars : Recent(u)
        \/ /\ algorithm = "walksat-tabu"
           /\ Simple(F) => Breaks(F, search.val, flip') = {}
<1> SUFFICES ASSUME SInv, Next, StepTaken, flip' \in Vars, JustFlipped(flip'),
                    algorithm \in {"gsat-tabu", "walksat-tabu"}
             PROVE  \/ algorithm = "gsat-tabu" /\ \A u \in Vars : Recent(u)
                    \/ /\ algorithm = "walksat-tabu"
                       /\ Simple(F) => Breaks(F, search.val, flip') = {}
  OBVIOUS
<1>1. /\ search \in States(F) /\ F \in Formulas /\ CallOK /\ iStep' = iStep + 1
      /\ iStep \in Nat
  BY StepPicks
<1>2. ASSUME NEW u \in Vars
      PROVE  Recent(u) <=> Tabu(search, u, iStep + 1, parm)
  <2>1. search.change[u] \in Int
    <3>1. search.change \in [Indices -> Int] /\ u \in Indices
      BY <1>1 DEF States, Vars, Indices
    <3> QED BY <3>1
  <2>2. parm.tabu \in Nat
    BY <1>1, Call
  <2> QED BY <1>1, <2>1, <2>2 DEF Recent, Tabu
<1>3. Tabu(search, flip', iStep + 1, parm)
  BY <1>2 DEF JustFlipped
<1>4. CASE algorithm = "gsat-tabu"
  <2>1. flip' \in PickGSATTABU(search, iStep + 1, parm)
    BY <1>4, StepPicks DEF PicksGreedily, PicksWalking, Greedy, Walkers, NoveltyLike, WalkSatLike
  <2>2. Free(search, iStep + 1, parm) = {}
    <3>1. flip' \notin Free(search, iStep + 1, parm)
      BY <1>3 DEF Free
    <3> QED BY <1>1, <2>1, <3>1, TabuGoes, NumVarAssumption
  <2>3. \A u \in Vars : Tabu(search, u, iStep + 1, parm)
    BY <2>2 DEF Free
  <2> QED BY <1>2, <1>4, <2>3
<1>5. CASE algorithm = "walksat-tabu"
  <2>1. PicksWalking(F, search, flip', iStep + 1, parm)
    BY <1>5, StepPicks DEF PicksGreedily, Greedy
  <2>2. flip' # NoVar
    BY DEF Vars, NoVar
  <2> QED BY <1>3, <1>5, <2>1, <2>2 DEF PicksWalking
<1> QED BY <1>4, <1>5

(* Each algorithm goes only where its kind of search may: down, within the *)
(* false clauses, past what is tabu.                                       *)
THEOREM MovesRightly == Spec => MovesAllowed
<1>1. SInv /\ [Next]_vars =>
         [StepTaken /\ algorithm \in {"gsat", "hsat", "gsat-w", "saps"} /\ Simple(F)
            /\ (\E u \in Vars : Improving(u)) => DescentOf(flip')]_vars
  BY DescentStep
<1>2. SInv /\ [Next]_vars =>
         [StepTaken /\ algorithm \in Walker =>
            \/ flip' \in Vars /\ InFalseClause(flip')
            \/ /\ flip' \in Vars
               /\ algorithm \in {"gwsat", "gwsat-w", "hwsat"}
               /\ Simple(F) => DescentOf(flip')
            \/ flip' = NoVar /\ FalseClauses(F, search.val) = {}
            \/ flip' = NoVar /\ \E c \in FalseClauses(F, search.val) : StuckOn(c)]_vars
  BY WalkStep
<1>3. SInv /\ [Next]_vars =>
         [StepTaken /\ flip' \in Vars /\ JustFlipped(flip') =>
            \/ algorithm \notin {"gsat-tabu", "walksat-tabu"}
            \/ algorithm = "gsat-tabu" /\ \A u \in Vars : Recent(u)
            \/ /\ algorithm = "walksat-tabu"
               /\ Simple(F) => Breaks(F, search.val, flip') = {}]_vars
  BY TabuStep
<1>4. Spec => Descent
  BY <1>1, SearchInvariance, PTL DEF Spec, Descent
<1>5. Spec => WalkInFalse
  BY <1>2, SearchInvariance, PTL DEF Spec, WalkInFalse
<1>6. Spec => TabuKept
  BY <1>3, SearchInvariance, PTL DEF Spec, TabuKept
<1> QED BY <1>4, <1>5, <1>6 DEF MovesAllowed
=============================================================================
