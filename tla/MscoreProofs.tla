---------------------------- MODULE MscoreProofs ----------------------------
(***************************************************************************)
(* mscore on every file: propagation, backjumps and restarts keep watches, *)
(* reasons and heap consistent, every learnt clause follows from what its  *)
(* trace names, propagation misses no clause, and the answer is a model of *)
(* the file or a core of it without one.  That it comes is left to TLC.    *)
(***************************************************************************)
EXTENDS Mscore, Loops, SequenceTheorems, FiniteSetTheorems

ClauseRecords == [lits : SUBSET Literals, watch : Seq(Literals), deps : SUBSET Nat]
Entries(lits) == [lit : lits, reason : Nat, level : Nat]

TypeInv ==
    /\ file \in Files
    /\ pc \in {"parse", "search", "analyze", "final", "count", "traverse", "sat", "unsat"}
    /\ cls \in Seq(ClauseRecords)
    /\ watches \in [Literals -> Seq(Nat)]
    /\ trail \in Seq(Entries(Literals))
    /\ trail_lim \in Seq(Nat)
    /\ qhead \in 0..Len(trail)
    /\ todo \in Seq(Nat)
    /\ heap \subseteq Variables
    /\ st_confl \in Id \cup {0}
    /\ resolvent \subseteq Literals /\ dep_stack \subseteq Id
    /\ starts \in Nat /\ conflictC \in Nat
    /\ model \subseteq Literals

(* The trail holds no literal twice and none with its negation. *)
Distinct(t) ==
    \A j, k \in DOMAIN t : /\ t[j].lit # -t[k].lit
                           /\ j # k => t[j].lit # t[k].lit

(* Each level begins with its decision and lies behind the one before. *)
Leveled(t, lim) ==
    /\ \A i \in DOMAIN lim : lim[i] < Len(t)
    /\ \A i, j \in DOMAIN lim : i < j => lim[i] < lim[j]
    /\ \A k \in DOMAIN t :
         /\ t[k].level <= Len(lim)
         /\ \A i \in DOMAIN lim : t[k].level >= i <=> k > lim[i]
         /\ t[k].reason = 0 => t[k].level > 0 /\ k = lim[t[k].level] + 1

(* The clause leaves only the literal of the entry. *)
Explains(c, t, k) ==
    /\ Len(c.watch) > 0
    /\ c.watch[1] = t[k].lit
    /\ \A l \in c.lits \ {t[k].lit} : \E j \in 1..(k - 1) : t[j].lit = -l

Reasoned(t, cs) ==
    \A k \in DOMAIN t : t[k].reason # 0 =>
        /\ t[k].reason \in DOMAIN cs
        /\ Explains(cs[t[k].reason], t, k)

(* The assignment as a whole, and its cut back to the end of a level. *)
Sound(t, lim, cs) == Distinct(t) /\ Leveled(t, lim) /\ Reasoned(t, cs)

(* Watches are the first two literals, or the only one. *)
WellWatched(c) ==
    /\ Range(c.watch) \subseteq c.lits
    /\ Len(c.watch) <= 2
    /\ Len(c.watch) = 2 => c.watch[1] # c.watch[2]

Watching == (\A c \in Id : WellWatched(cls[c])) /\ WatchesAgree

Assigning == Sound(trail, trail_lim, cls)

(* What is to be walked is the end of the list of p, the last true literal *)
(* taken up, which was assigned at this level.                             *)
Walking ==
    /\ decisionLevel > 0 => qhead >= trail_lim[decisionLevel]
    /\ todo # <<>> =>
         /\ pc = "search" /\ qhead > 0
         /\ Len(todo) <= Len(watches[p])
         /\ \A i \in DOMAIN todo : todo[i] = watches[p][Len(watches[p]) - Len(todo) + i]
         /\ decisionLevel > 0 => qhead > trail_lim[decisionLevel]

Phases ==
    /\ pc = "parse" => decisionLevel = 0 /\ qhead = 0 /\ Len(cls) <= Len(file)
    /\ pc # "parse" => Len(cls) >= Len(file)
    /\ pc = "analyze" => decisionLevel > 0 /\ AtLevel # {}
    /\ pc = "final" => decisionLevel = 0
    /\ pc \in {"analyze", "final"} => \A l \in resolvent : False(l)
    /\ st_confl # 0 => decisionLevel = 0 /\ \A l \in cls[st_confl].lits : False(l)

(* What can still be decided is queued, from the first clause on. *)
Queueing ==
    /\ pc = "parse" => /\ 1 \in heap
                       /\ \A k \in Id : \A l \in file[k] : 1..VarOf(l) \subseteq heap
    /\ HeapComplete

SolverInv == TypeInv /\ Watching /\ Assigning /\ Walking /\ Phases /\ Queueing


-----------------------------------------------------------------------------
(* The negation of a literal is one. *)
LEMMA LiteralsNegate ==
    ASSUME file \in Files
    PROVE  /\ Variables \subseteq Nat \ {0}
           /\ Literals \subseteq Int \ {0}
           /\ \A l \in Literals : -l \in Literals /\ VarOf(l) \in Variables /\ -(-l) = l
           /\ \A k \in DOMAIN file : file[k] \subseteq Literals /\ file[k] # {}
           /\ file \in Seq(SUBSET (Int \ {0}))
<1>1. /\ file \in Seq(SUBSET (Int \ {0}))
      /\ \A k \in DOMAIN file : file[k] # {} /\ file[k] \subseteq Int \ {0}
  BY FilesAssumption
<1>2. Variables \subseteq Nat \ {0}
  <2> SUFFICES ASSUME NEW x \in Variables, x # 1 PROVE x \in Nat \ {0}
    OBVIOUS
  <2>1. PICK l \in UNION Range(file) : x \in 1..VarOf(l)
    BY DEF Variables
  <2>2. l \in Int
    BY <1>1, <2>1 DEF Range
  <2> QED BY <2>1, <2>2 DEF VarOf
<1>3. Literals \subseteq Int \ {0}
  <2> SUFFICES ASSUME NEW l \in Literals PROVE l \in Int \ {0}
    OBVIOUS
  <2>1. PICK x \in Variables : l = x \/ l = -x
    BY DEF Literals
  <2> QED BY <1>2, <2>1
<1>4. \A l \in Literals : -l \in Literals /\ VarOf(l) \in Variables /\ -(-l) = l
  BY <1>2 DEF Literals, VarOf
<1>5. ASSUME NEW k \in DOMAIN file, NEW l \in file[k] PROVE l \in Literals
  <2>1. l \in Int \ {0} /\ l \in UNION Range(file)
    BY <1>1 DEF Range
  <2>2. VarOf(l) \in 1..VarOf(l) /\ (l = VarOf(l) \/ l = -VarOf(l))
    BY <2>1 DEF VarOf
  <2>3. VarOf(l) \in Variables
    BY <2>1, <2>2 DEF Variables
  <2> QED BY <2>2, <2>3 DEF Literals
<1> QED BY <1>1, <1>2, <1>3, <1>4, <1>5

CutTo(u, t, n) == u = SubSeq(t, 1, n)

(* A trail cut back to the end of a level is sound at that level, and what *)
(* is left is what was assigned there or before.                           *)
LEMMA CutIsSound ==
    ASSUME NEW Lits, Lits \subseteq Int,
           NEW t \in Seq(Entries(Lits)), NEW lim \in Seq(Nat), NEW cs,
           Sound(t, lim, cs),
           NEW level \in Nat, level < Len(lim),
           NEW u, CutTo(u, t, lim[level + 1]),
           NEW m, CutTo(m, lim, level)
    PROVE  /\ u \in Seq(Entries(Lits)) /\ m \in Seq(Nat)
           /\ Len(u) = lim[level + 1] /\ Len(u) <= Len(t) /\ Len(m) = level
           /\ \A k \in DOMAIN u : k \in DOMAIN t /\ u[k] = t[k]
           /\ \A k \in DOMAIN t : k <= Len(u) <=> t[k].level <= level
           /\ Sound(u, m, cs)
<1> DEFINE n == lim[level + 1]
<1>1. level + 1 \in DOMAIN lim /\ n \in Nat /\ n < Len(t)
  BY DEF Sound, Leveled
<1>2. /\ t \in [1..Len(t) -> Entries(Lits)] /\ Len(t) \in Nat
      /\ lim \in [1..Len(lim) -> Nat] /\ Len(lim) \in Nat
  BY LenProperties
<1>3. /\ u \in Seq(Entries(Lits)) /\ Len(u) = n
      /\ \A k \in 1..n : u[k] = t[k]
  <2>1. \A k \in 1..n : t[k] \in Entries(Lits)
    BY <1>1, <1>2
  <2> HIDE DEF n
  <2>2. u = SubSeq(t, 1, n)
    BY DEF CutTo, n
  <2> QED BY <2>1, <2>2, <1>1, SubSeqProperties
<1>4. /\ m \in Seq(Nat) /\ Len(m) = level
      /\ \A i \in 1..level : m[i] = lim[i]
  <2>1. \A i \in 1..level : lim[i] \in Nat
    BY <1>2
  <2> QED BY <2>1, SubSeqProperties DEF CutTo
<1>5. DOMAIN u = 1..n /\ DOMAIN m = 1..level
  BY <1>3, <1>4, LenProperties
<1> HIDE DEF n
<1>6. \A k \in DOMAIN t : k <= n <=> t[k].level <= level
  <2> SUFFICES ASSUME NEW k \in DOMAIN t PROVE k <= n <=> t[k].level <= level
    OBVIOUS
  <2>1. t[k].level \in Nat /\ k \in Nat
    BY <1>2 DEF Entries
  <2>2. t[k].level >= level + 1 <=> k > n
    BY <1>1 DEF Sound, Leveled, n
  <2> QED BY <2>1, <2>2, <1>1
<1>7. \A i \in DOMAIN m : m[i] = lim[i] /\ m[i] < n
  <2> SUFFICES ASSUME NEW i \in DOMAIN m PROVE m[i] = lim[i] /\ m[i] < n
    OBVIOUS
  <2>1. i \in DOMAIN lim /\ i < level + 1
    BY <1>5, <1>2
  <2>2. lim[i] < lim[level + 1]
    BY <2>1, <1>1 DEF Sound, Leveled
  <2> QED BY <2>2, <1>4, <1>5 DEF n
<1>8. Distinct(u)
  BY <1>1, <1>2, <1>3, <1>5 DEF Sound, Distinct
<1>9. Leveled(u, m)
  <2>1. \A i, j \in DOMAIN m : i < j => m[i] < m[j]
    BY <1>2, <1>4, <1>5 DEF Sound, Leveled
  <2>2. ASSUME NEW k \in DOMAIN u
        PROVE  /\ u[k].level <= Len(m)
               /\ \A i \in DOMAIN m : u[k].level >= i <=> k > m[i]
               /\ u[k].reason = 0 => u[k].level > 0 /\ k = m[u[k].level] + 1
    <3>1. k \in DOMAIN t /\ u[k] = t[k] /\ k <= n
      BY <1>1, <1>2, <1>3, <1>5
    <3>2. t[k].level <= level /\ t[k].level \in Nat
      BY <3>1, <1>6, <1>2 DEF Entries
    <3>3. \A i \in DOMAIN m : t[k].level >= i <=> k > m[i]
      BY <3>1, <1>2, <1>4, <1>5 DEF Sound, Leveled
    <3>4. t[k].reason = 0 => t[k].level > 0 /\ k = lim[t[k].level] + 1
      BY <3>1 DEF Sound, Leveled
    <3> QED BY <3>1, <3>2, <3>3, <3>4, <1>4
  <2> QED BY <2>1, <2>2, <1>7, <1>3 DEF Leveled
<1>10. Reasoned(u, cs)
  <2> SUFFICES ASSUME NEW k \in DOMAIN u, u[k].reason # 0
               PROVE  u[k].reason \in DOMAIN cs /\ Explains(cs[u[k].reason], u, k)
    BY DEF Reasoned
  <2>1. k \in DOMAIN t /\ u[k] = t[k] /\ k \in 1..n
    BY <1>1, <1>2, <1>3, <1>5
  <2>2. t[k].reason \in DOMAIN cs /\ Explains(cs[t[k].reason], t, k)
    BY <2>1 DEF Sound, Reasoned
  <2>3. \A j \in 1..(k - 1) : u[j] = t[j]
    <3>1. \A j \in 1..(k - 1) : j \in 1..n
      BY <2>1, <1>1
    <3> QED BY <3>1, <1>3
  <2> QED BY <2>1, <2>2, <2>3 DEF Explains
<1>11. Sound(u, m, cs)
  BY <1>8, <1>9, <1>10 DEF Sound
<1>12. \A k \in DOMAIN u : k \in DOMAIN t /\ u[k] = t[k]
  BY <1>1, <1>2, <1>3, <1>5
<1>13. Len(u) <= Len(t) /\ \A k \in DOMAIN t : k <= Len(u) <=> t[k].level <= level
  BY <1>1, <1>2, <1>3, <1>6
<1> QED BY <1>3, <1>4, <1>11, <1>12, <1>13 DEF n

(* An assignment to a variable without one. *)
LEMMA DistinctExtended ==
    ASSUME NEW Lits, Lits \subseteq Int \ {0},
           NEW t \in Seq(Entries(Lits)), Distinct(t), NEW e \in Entries(Lits),
           \A k \in DOMAIN t : t[k].lit # e.lit /\ t[k].lit # -e.lit
    PROVE  Distinct(Append(t, e))
<1> DEFINE u == Append(t, e)
<1>1. /\ Len(t) \in Nat /\ DOMAIN t = 1..Len(t) /\ DOMAIN u = 1..(Len(t) + 1)
      /\ u[Len(t) + 1] = e
      /\ \A k \in DOMAIN t : u[k] = t[k] /\ t[k] \in Entries(Lits)
  BY AppendProperties, LenProperties
<1> HIDE DEF u
<1>2. ASSUME NEW l \in Lits PROVE l # -l /\ -(-l) = l
  BY <1>2
<1>3. \A k \in DOMAIN t : t[k].lit \in Lits /\ e.lit \in Lits
  BY <1>1 DEF Entries
<1>4. ASSUME NEW j \in DOMAIN u, NEW k \in DOMAIN u
      PROVE  u[j].lit # -u[k].lit /\ (j # k => u[j].lit # u[k].lit)
  <2>1. CASE j \in DOMAIN t /\ k \in DOMAIN t
    BY <2>1, <1>1 DEF Distinct
  <2>2. CASE j \in DOMAIN t /\ k = Len(t) + 1
    BY <2>2, <1>1
  <2>3. CASE j = Len(t) + 1 /\ k \in DOMAIN t
    BY <2>3, <1>1, <1>2, <1>3
  <2>4. CASE j = Len(t) + 1 /\ k = Len(t) + 1
    BY <2>4, <1>1, <1>2 DEF Entries
  <2> QED BY <2>1, <2>2, <2>3, <2>4, <1>1
<1> QED BY <1>4, Zenon DEF Distinct, u

(* What a clause forces goes behind what it was forced by. *)
LEMMA ForcedIsSound ==
    ASSUME NEW Lits, Lits \subseteq Int \ {0},
           NEW t \in Seq(Entries(Lits)), NEW lim \in Seq(Nat), NEW cs,
           Sound(t, lim, cs),
           NEW e \in Entries(Lits), e.level = Len(lim), e.reason # 0,
           \A k \in DOMAIN t : t[k].lit # e.lit /\ t[k].lit # -e.lit,
           e.reason \in DOMAIN cs, Len(cs[e.reason].watch) > 0, cs[e.reason].watch[1] = e.lit,
           \A l \in cs[e.reason].lits \ {e.lit} : \E j \in DOMAIN t : t[j].lit = -l
    PROVE  Sound(Append(t, e), lim, cs)
<1> DEFINE u == Append(t, e)
<1>1. /\ Len(t) \in Nat /\ DOMAIN t = 1..Len(t) /\ DOMAIN u = 1..(Len(t) + 1)
      /\ Len(u) = Len(t) + 1 /\ u[Len(t) + 1] = e
      /\ \A k \in DOMAIN t : u[k] = t[k] /\ t[k] \in Entries(Lits)
      /\ DOMAIN lim = 1..Len(lim) /\ Len(lim) \in Nat
      /\ \A i \in DOMAIN lim : lim[i] \in Nat
  BY AppendProperties, LenProperties
<1> HIDE DEF u
<1>2. Distinct(u)
  BY DistinctExtended DEF Sound, u
<1>3. Leveled(u, lim)
  <2>1. \A i \in DOMAIN lim : lim[i] < Len(u)
    BY <1>1 DEF Sound, Leveled
  <2>2. ASSUME NEW k \in DOMAIN u
        PROVE  /\ u[k].level <= Len(lim)
               /\ \A i \in DOMAIN lim : u[k].level >= i <=> k > lim[i]
               /\ u[k].reason = 0 => u[k].level > 0 /\ k = lim[u[k].level] + 1
    <3>1. CASE k \in DOMAIN t
      BY <3>1, <1>1 DEF Sound, Leveled
    <3>2. CASE k = Len(t) + 1
      BY <3>2, <1>1 DEF Sound, Leveled
    <3> QED BY <3>1, <3>2, <1>1
  <2> QED BY <2>1, <2>2 DEF Sound, Leveled
<1>4. Reasoned(u, cs)
  <2> SUFFICES ASSUME NEW k \in DOMAIN u, u[k].reason # 0
               PROVE  u[k].reason \in DOMAIN cs /\ Explains(cs[u[k].reason], u, k)
    BY DEF Reasoned
  <2>1. CASE k \in DOMAIN t
    <3>1. t[k].reason \in DOMAIN cs /\ Explains(cs[t[k].reason], t, k)
      BY <2>1, <1>1 DEF Sound, Reasoned
    <3>2. \A j \in 1..(k - 1) : u[j] = t[j]
      BY <2>1, <1>1
    <3> QED BY <2>1, <3>1, <3>2, <1>1 DEF Explains
  <2>2. CASE k = Len(t) + 1
    <3>1. \A j \in DOMAIN t : j \in 1..(k - 1) /\ u[j] = t[j]
      BY <2>2, <1>1
    <3> QED BY <2>2, <3>1, <1>1 DEF Explains
  <2> QED BY <2>1, <2>2, <1>1
<1> QED BY <1>2, <1>3, <1>4 DEF Sound, u

(* A decision opens a level. *)
LEMMA DecidedIsSound ==
    ASSUME NEW Lits, Lits \subseteq Int \ {0},
           NEW t \in Seq(Entries(Lits)), NEW lim \in Seq(Nat), NEW cs,
           Sound(t, lim, cs),
           NEW e \in Entries(Lits), e.level = Len(lim) + 1, e.reason = 0,
           \A k \in DOMAIN t : t[k].lit # e.lit /\ t[k].lit # -e.lit
    PROVE  Sound(Append(t, e), Append(lim, Len(t)), cs)
<1> DEFINE u == Append(t, e)
           m == Append(lim, Len(t))
<1>1. /\ Len(t) \in Nat /\ DOMAIN t = 1..Len(t) /\ DOMAIN u = 1..(Len(t) + 1)
      /\ Len(u) = Len(t) + 1 /\ u[Len(t) + 1] = e
      /\ \A k \in DOMAIN t : u[k] = t[k] /\ t[k] \in Entries(Lits)
      /\ DOMAIN lim = 1..Len(lim) /\ Len(lim) \in Nat
      /\ \A i \in DOMAIN lim : lim[i] \in Nat
  BY AppendProperties, LenProperties
<1>2. /\ DOMAIN m = 1..(Len(lim) + 1) /\ Len(m) = Len(lim) + 1 /\ m[Len(lim) + 1] = Len(t)
      /\ \A i \in DOMAIN lim : m[i] = lim[i]
  BY <1>1, AppendProperties, LenProperties
<1> HIDE DEF u, m
<1>3. Distinct(u)
  BY DistinctExtended DEF Sound, u
<1>4. Leveled(u, m)
  <2>1. \A i \in DOMAIN lim : lim[i] < Len(t)
    BY <1>1 DEF Sound, Leveled
  <2>2. \A i \in DOMAIN m : i \in DOMAIN lim \/ i = Len(lim) + 1
    BY <1>1, <1>2
  <2>3. \A i \in DOMAIN m : m[i] < Len(u)
    BY <2>1, <2>2, <1>1, <1>2
  <2>4. \A i, j \in DOMAIN m : i < j => m[i] < m[j]
    BY <2>1, <2>2, <1>1, <1>2 DEF Sound, Leveled
  <2>5. ASSUME NEW k \in DOMAIN u
        PROVE  /\ u[k].level <= Len(m)
               /\ \A i \in DOMAIN m : u[k].level >= i <=> k > m[i]
               /\ u[k].reason = 0 => u[k].level > 0 /\ k = m[u[k].level] + 1
    <3>1. CASE k \in DOMAIN t
      <4>1. /\ t[k].level \in Nat /\ t[k].level <= Len(lim)
            /\ \A i \in DOMAIN lim : t[k].level >= i <=> k > lim[i]
            /\ t[k].reason = 0 => t[k].level > 0 /\ k = lim[t[k].level] + 1
        BY <3>1, <1>1 DEF Sound, Leveled, Entries
      <4>2. \A i \in DOMAIN m : u[k].level >= i <=> k > m[i]
        BY <3>1, <4>1, <2>2, <1>1, <1>2
      <4> QED BY <3>1, <4>1, <4>2, <1>1, <1>2
    <3>2. CASE k = Len(t) + 1
      <4>1. u[k].level = Len(m) /\ u[k].reason = 0 /\ u[k].level > 0 /\ k = m[u[k].level] + 1
        BY <3>2, <1>1, <1>2
      <4>2. \A i \in DOMAIN m : m[i] < k /\ i <= Len(m)
        BY <3>2, <2>1, <2>2, <1>1, <1>2
      <4> QED BY ONLY <4>1, <4>2, <1>1, <1>2
    <3> QED BY <3>1, <3>2, <1>1
  <2> QED BY <2>3, <2>4, <2>5 DEF Leveled
<1>5. Reasoned(u, cs)
  <2> SUFFICES ASSUME NEW k \in DOMAIN u, u[k].reason # 0
               PROVE  u[k].reason \in DOMAIN cs /\ Explains(cs[u[k].reason], u, k)
    BY DEF Reasoned
  <2>1. k \in DOMAIN t
    BY <1>1
  <2>2. t[k].reason \in DOMAIN cs /\ Explains(cs[t[k].reason], t, k)
    BY <2>1, <1>1 DEF Sound, Reasoned
  <2>3. \A j \in 1..(k - 1) : u[j] = t[j]
    BY <2>1, <1>1
  <2> QED BY <2>1, <2>2, <2>3, <1>1 DEF Explains
<1> QED BY <1>3, <1>4, <1>5 DEF Sound, u, m

(* Clauses may join and change watches, so long as a reason keeps its      *)
(* first.                                                                  *)
LEMMA ReasonsKept ==
    ASSUME NEW t, NEW lim, NEW cs, NEW ds,
           Sound(t, lim, cs),
           DOMAIN cs \subseteq DOMAIN ds,
           \A c \in DOMAIN cs : ds[c].lits = cs[c].lits,
           \A k \in DOMAIN t : t[k].reason \in DOMAIN cs =>
              LET c == t[k].reason
              IN  Len(ds[c].watch) > 0 /\ ds[c].watch[1] = cs[c].watch[1]
    PROVE  Sound(t, lim, ds)
  BY DEF Sound, Reasoned, Explains

-----------------------------------------------------------------------------
(* Lists of watches. *)
LEMMA AppendWatch ==
    ASSUME NEW s \in Seq(Nat), IsInjective(s), NEW n \in Nat, n \notin Range(s)
    PROVE  /\ Append(s, n) \in Seq(Nat)
           /\ Range(Append(s, n)) = Range(s) \cup {n}
           /\ IsInjective(Append(s, n))
<1> DEFINE u == Append(s, n)
<1>1. /\ u \in Seq(Nat) /\ Len(s) \in Nat /\ DOMAIN s = 1..Len(s) /\ DOMAIN u = 1..(Len(s) + 1)
      /\ u[Len(s) + 1] = n /\ \A k \in DOMAIN s : u[k] = s[k]
  BY AppendProperties, LenProperties
<1> HIDE DEF u
<1>2. \A k \in DOMAIN u : k \in DOMAIN s \/ k = Len(s) + 1
  BY <1>1
<1>3. Range(u) = Range(s) \cup {n}
  BY <1>1, <1>2 DEF Range
<1>4. IsInjective(u)
  BY <1>1, <1>2 DEF Range, IsInjective
<1> QED BY <1>1, <1>3, <1>4 DEF u

LEMMA RemoveWatch ==
    ASSUME NEW s \in Seq(Nat), IsInjective(s), NEW i \in 1..Len(s)
    PROVE  LET r == RemoveAt(s, i)
           IN  /\ r \in Seq(Nat) /\ Len(r) = Len(s) - 1
               /\ \A j \in DOMAIN r : r[j] = IF j < i THEN s[j] ELSE s[j + 1]
               /\ Range(r) = Range(s) \ {s[i]}
               /\ IsInjective(r)
<1> DEFINE a == SubSeq(s, 1, i - 1)
           n == Len(s)
           b == SubSeq(s, i + 1, n)
           r == RemoveAt(s, i)
<1>1. /\ s \in Seq(Nat) /\ n = Len(s) /\ n \in Nat /\ DOMAIN s = 1..n /\ \A k \in 1..n : s[k] \in Nat
      /\ i \in Nat /\ 1 <= i /\ i <= n
  BY LenProperties, ElementOfSeq
<1> HIDE DEF n
<1>2. /\ a \in Seq(Nat) /\ Len(a) = i - 1
      /\ \A k \in 1..(i - 1) : a[k] = s[k]
  <2>1. i - 1 \in Int /\ \A k \in 1..(i - 1) : s[k] \in Nat
    BY <1>1
  <2> QED BY <2>1, SubSeqProperties
<1>3. /\ b \in Seq(Nat) /\ Len(b) = n - i
      /\ \A k \in 1..(n - i) : b[k] = s[k + i]
  <2>1. i + 1 \in Int /\ \A k \in (i + 1)..n : s[k] \in Nat
    BY <1>1
  <2>2. n \in Int
    BY <1>1
  <2>3. /\ b \in Seq(Nat) /\ Len(b) = IF i + 1 <= n THEN n - (i + 1) + 1 ELSE 0
        /\ \A k \in 1..(n - (i + 1) + 1) : b[k] = s[(i + 1) + k - 1]
    BY <2>1, <2>2, SubSeqProperties
  <2> HIDE DEF b
  <2>4. Len(b) = n - i
    BY <2>3, <1>1
  <2>5. ASSUME NEW k \in 1..(n - i) PROVE b[k] = s[k + i]
    <3>1. k \in 1..(n - (i + 1) + 1) /\ (i + 1) + k - 1 = k + i
      BY <1>1
    <3> QED BY <2>3, <3>1
  <2> QED BY <2>3, <2>4, <2>5
<1> HIDE DEF a, b
<1>4. r = a \o b
  BY DEF r, RemoveAt, a, b, n
<1> HIDE DEF r
<1>5. /\ r \in Seq(Nat) /\ Len(r) = n - 1
      /\ \A j \in 1..(n - 1) : r[j] = IF j <= i - 1 THEN a[j] ELSE b[j - (i - 1)]
  <2>1. /\ r \in Seq(Nat) /\ Len(r) = Len(a) + Len(b)
        /\ \A j \in 1..(Len(a) + Len(b)) : r[j] = IF j <= Len(a) THEN a[j] ELSE b[j - Len(a)]
    BY <1>2, <1>3, <1>4, ConcatProperties
  <2> QED BY <2>1, <1>1, <1>2, <1>3
<1>6. DOMAIN r = 1..(n - 1)
  BY <1>5, LenProperties
<1>7. \A j \in DOMAIN r : r[j] = IF j < i THEN s[j] ELSE s[j + 1]
  <2> SUFFICES ASSUME NEW j \in DOMAIN r PROVE r[j] = IF j < i THEN s[j] ELSE s[j + 1]
    OBVIOUS
  <2>1. CASE j < i
    BY <2>1, <1>2, <1>5, <1>6
  <2>2. CASE ~(j < i)
    <3>0. j \in Nat /\ j <= n - 1 /\ i <= j
      BY <2>2, <1>1, <1>6
    <3> DEFINE q == j - (i - 1)
    <3>1. q \in Int /\ 1 <= q /\ q <= n - i /\ q + i = j + 1
      BY <3>0, <1>1
    <3>2. ~(j <= i - 1) /\ j \in 1..(n - 1)
      BY <3>0, <1>1
    <3>3. r[j] = b[q]
      BY <3>2, <1>5
    <3> HIDE DEF q
    <3>4. b[q] = s[q + i]
      BY <3>1, <1>1, <1>3
    <3> QED BY <2>2, <3>1, <3>3, <3>4
  <2> QED BY <2>1, <2>2
<1>8. Range(r) = Range(s) \ {s[i]}
  <2>1. ASSUME NEW j \in DOMAIN r PROVE r[j] \in Range(s) \ {s[i]}
    <3>1. j \in DOMAIN s /\ j + 1 \in DOMAIN s
      BY <1>1, <1>6
    <3> QED BY <3>1, <1>1, <1>7 DEF Range, IsInjective
  <2>2. ASSUME NEW k \in DOMAIN s, k # i PROVE s[k] \in Range(r)
    <3>1. CASE k < i
      <4>1. k \in DOMAIN r
        BY <3>1, <1>1, <1>6
      <4> QED BY <3>1, <4>1, <1>7 DEF Range
    <3>2. CASE k > i
      <4>1. k - 1 \in DOMAIN r /\ ~(k - 1 < i) /\ (k - 1) + 1 = k
        BY <3>2, <1>1, <1>6
      <4>2. r[k - 1] = s[k]
        BY <4>1, <1>7
      <4> QED BY <4>1, <4>2 DEF Range
    <3> QED BY <3>1, <3>2, <2>2, <1>1
  <2> QED BY <2>1, <2>2 DEF Range
<1>9. IsInjective(r)
  <2> SUFFICES ASSUME NEW j \in DOMAIN r, NEW k \in DOMAIN r, r[j] = r[k] PROVE j = k
    BY DEF IsInjective
  <2>1. j \in DOMAIN s /\ j + 1 \in DOMAIN s /\ k \in DOMAIN s /\ k + 1 \in DOMAIN s
    BY <1>1, <1>6, SMTT(30)
  <2> QED BY <2>1, <1>1, <1>6, <1>7 DEF IsInjective
<1> QED BY <1>5, <1>7, <1>8, <1>9, Zenon DEF r, n

(* What depends on the file only. *)
LEMMA SameFile ==
    ASSUME UNCHANGED file
    PROVE  /\ Variables' = Variables /\ Literals' = Literals
           /\ ClauseRecords' = ClauseRecords
  BY DEF Variables, Literals, ClauseRecords

(* A clause that joins is in the lists of its watches. *)
LEMMA JoinedIsWatched ==
    ASSUME TypeInv, Watching, UNCHANGED file,
           NEW lits \in SUBSET Literals, NEW watch \in Seq(Literals), NEW deps \in SUBSET Nat,
           WellWatched(Clause(lits, watch, deps)),
           cls' = Append(cls, Clause(lits, watch, deps)),
           watches' = WatchedBy(Len(cls) + 1, watch)
    PROVE  /\ cls' \in Seq(ClauseRecords') /\ watches' \in [Literals' -> Seq(Nat)]
           /\ Watching'
<1> DEFINE n == Len(cls) + 1
           r == Clause(lits, watch, deps)
<1>1. Variables' = Variables /\ Literals' = Literals /\ ClauseRecords' = ClauseRecords
  BY SameFile
<1>2. r \in ClauseRecords /\ r.watch = watch
  BY DEF Clause, ClauseRecords
<1>3. /\ n \in Nat /\ Id = 1..Len(cls) /\ n \notin Id /\ Id' = Id \cup {n}
      /\ cls' \in Seq(ClauseRecords) /\ cls'[n] = r
      /\ \A c \in Id : cls'[c] = cls[c]
  <2>1. cls \in Seq(ClauseRecords)
    BY DEF TypeInv
  <2>2. /\ Append(cls, r) \in Seq(ClauseRecords) /\ Len(Append(cls, r)) = Len(cls) + 1
        /\ \A i \in 1..Len(cls) : Append(cls, r)[i] = cls[i]
        /\ Append(cls, r)[Len(cls) + 1] = r
    BY <2>1, <1>2, AppendProperties
  <2>3. Len(cls) \in Nat /\ DOMAIN cls = 1..Len(cls) /\ DOMAIN Append(cls, r) = 1..(Len(cls) + 1)
    BY <2>1, <2>2, LenProperties
  <2> QED BY <2>2, <2>3 DEF Id
<1> HIDE DEF n, r
<1>4. \A l \in Literals : watches[l] \in Seq(Nat) /\ n \notin Range(watches[l]) /\ IsInjective(watches[l])
  BY <1>3 DEF TypeInv, Watching, WatchesAgree
<1>5. ASSUME NEW l \in Literals
      PROVE  /\ watches'[l] \in Seq(Nat)
             /\ Len(watch) = 2 /\ -l \in Range(watch) => Range(watches'[l]) = Range(watches[l]) \cup {n}
             /\ ~(Len(watch) = 2 /\ -l \in Range(watch)) => Range(watches'[l]) = Range(watches[l])
             /\ IsInjective(watches'[l])
  <2>1. watches'[l] = IF Len(watch) = 2 /\ -l \in Range(watch)
                      THEN Append(watches[l], n) ELSE watches[l]
    BY DEF WatchedBy, n
  <2>2. CASE Len(watch) = 2 /\ -l \in Range(watch)
    <3>1. watches'[l] = Append(watches[l], n)
      BY <2>1, <2>2
    <3>2. watches[l] \in Seq(Nat) /\ n \notin Range(watches[l]) /\ IsInjective(watches[l]) /\ n \in Nat
      BY <1>3, <1>4
    <3> QED BY <2>2, <3>1, <3>2, AppendWatch
  <2>3. CASE ~(Len(watch) = 2 /\ -l \in Range(watch))
    BY <2>1, <2>3, <1>4
  <2> QED BY <2>2, <2>3
<1>6. watches' \in [Literals -> Seq(Nat)]
  BY <1>5 DEF WatchedBy
<1>7. \A c \in Id' : WellWatched(cls'[c])
  <2>1. WellWatched(r)
    BY DEF r
  <2> QED BY <2>1, <1>3 DEF Watching
<1>8. ASSUME NEW l \in Literals
      PROVE  Range(watches'[l]) = {c \in Id' : Len(cls'[c].watch) = 2 /\ -l \in Range(cls'[c].watch)}
  <2>1. Range(watches[l]) = {c \in Id : Len(cls[c].watch) = 2 /\ -l \in Range(cls[c].watch)}
    BY DEF Watching, WatchesAgree
  <2> DEFINE W == {c \in Id' : Len(cls'[c].watch) = 2 /\ -l \in Range(cls'[c].watch)}
  <2>2. \A c \in Id : c \in Range(watches[l]) <=> c \in W
    BY <2>1, <1>3
  <2>3. n \in W <=> Len(watch) = 2 /\ -l \in Range(watch)
    BY <1>2, <1>3
  <2>4. Range(watches[l]) \subseteq Id /\ W \subseteq Id \cup {n}
    BY <2>1, <1>3
  <2> HIDE DEF W
  <2>5. Range(watches'[l]) = W
    <3>1. n \notin Id
      BY <1>3
    <3>2. CASE Len(watch) = 2 /\ -l \in Range(watch)
      <4>1. Range(watches'[l]) = Range(watches[l]) \cup {n}
        BY <3>2, <1>5
      <4> QED BY <4>1, <3>1, <3>2, <2>2, <2>3, <2>4, Zenon
    <3>3. CASE ~(Len(watch) = 2 /\ -l \in Range(watch))
      <4>1. Range(watches'[l]) = Range(watches[l])
        BY <3>3, <1>5
      <4>2. n \notin W
        BY <3>3, <2>3
      <4>3. W \subseteq Id
        BY <4>2, <2>4
      <4> QED BY <4>1, <4>3, <2>2, <2>4
    <3> QED BY <3>2, <3>3
  <2> QED BY <2>5 DEF W
<1>9. WatchesAgree'
  BY <1>1, <1>5, <1>8 DEF WatchesAgree
<1> QED BY <1>1, <1>3, <1>6, <1>7, <1>9 DEF Watching

-----------------------------------------------------------------------------
(* The clause at hand: it watches the negation of p, and another literal. *)
LEMMA AtHand ==
    ASSUME TypeInv, Watching, Walking, todo # <<>>,
           NEW c, c = Head(todo)
    PROVE  /\ c \in Id /\ cls[c] \in ClauseRecords
           /\ Len(cls[c].watch) = 2 /\ cls[c].watch \in Seq(Literals)
           /\ qhead \in DOMAIN trail /\ p \in Literals /\ -p \in cls[c].lits /\ False(-p)
           /\ first(c) \in cls[c].lits /\ first(c) # -p /\ first(c) \in Literals
           /\ Range(cls[c].watch) = {first(c), -p}
           /\ Len(watches[p]) - Len(todo) + 1 \in 1..Len(watches[p])
           /\ c = watches[p][Len(watches[p]) - Len(todo) + 1]
           /\ Len(todo) \in Nat \ {0} /\ Len(watches[p]) \in Nat
<1>1. todo \in Seq(Nat) /\ Len(todo) \in Nat \ {0} /\ c = todo[1] /\ 1 \in DOMAIN todo
  <2>1. todo \in Seq(Nat)
    BY DEF TypeInv
  <2>2. Len(todo) \in Nat \ {0}
    BY <2>1, EmptySeq
  <2> QED BY <2>1, <2>2, LenProperties
<1>2. /\ Literals \subseteq Int \ {0}
      /\ \A l \in Literals : -l \in Literals /\ -(-l) = l
  BY LiteralsNegate DEF TypeInv
<1>3. /\ qhead \in DOMAIN trail /\ p \in Literals
  <2>1. trail \in Seq(Entries(Literals)) /\ qhead \in 1..Len(trail)
    BY DEF TypeInv, Walking
  <2>2. DOMAIN trail = 1..Len(trail) /\ trail[qhead] \in Entries(Literals)
    BY <2>1, LenProperties, ElementOfSeq
  <2> QED BY <2>1, <2>2 DEF p, Entries
<1>4. False(-p)
  BY <1>2, <1>3 DEF False, TrueLits, p
<1>5. /\ Len(watches[p]) \in Nat /\ DOMAIN watches[p] = 1..Len(watches[p])
      /\ Len(watches[p]) - Len(todo) + 1 \in 1..Len(watches[p])
      /\ c = watches[p][Len(watches[p]) - Len(todo) + 1]
  <2>1. watches[p] \in Seq(Nat)
    BY <1>3 DEF TypeInv
  <2>2. Len(watches[p]) \in Nat /\ DOMAIN watches[p] = 1..Len(watches[p])
    BY <2>1, LenProperties
  <2>3. Len(todo) <= Len(watches[p])
    BY DEF Walking
  <2>4. c = watches[p][Len(watches[p]) - Len(todo) + 1]
    BY <1>1 DEF Walking
  <2> QED BY <2>2, <2>3, <2>4, <1>1
<1>6. c \in Range(watches[p])
  BY <1>5 DEF Range
<1>7. c \in Id /\ Len(cls[c].watch) = 2 /\ -p \in Range(cls[c].watch)
  BY <1>3, <1>6 DEF Watching, WatchesAgree
<1>8. cls[c] \in ClauseRecords /\ cls[c].watch \in Seq(Literals) /\ cls[c].lits \subseteq Literals
  <2>1. cls[c] \in ClauseRecords
    BY <1>7, LenProperties, ElementOfSeq DEF TypeInv, Id
  <2> QED BY <2>1 DEF ClauseRecords
<1>9. /\ DOMAIN cls[c].watch = {1, 2} /\ Range(cls[c].watch) \subseteq cls[c].lits
      /\ cls[c].watch[1] # cls[c].watch[2]
  <2>1. DOMAIN cls[c].watch = 1..2
    BY <1>7, <1>8, LenProperties
  <2> QED BY <2>1, <1>7 DEF Watching, WellWatched
<1>10. Range(cls[c].watch) = {cls[c].watch[1], cls[c].watch[2]}
  BY <1>9 DEF Range
<1>11. first(c) # -p /\ Range(cls[c].watch) = {first(c), -p}
  BY <1>7, <1>9, <1>10 DEF first
<1> QED BY <1>1, <1>3, <1>4, <1>5, <1>7, <1>8, <1>9, <1>11

(* The watches of one clause change: the other clauses and all literals    *)
(* stay, and a reason keeps its first watch, as that is true.              *)
LEMMA RewatchedKeeps ==
    ASSUME TypeInv, Watching, Assigning, Walking, todo # <<>>,
           NEW c, c = Head(todo), NEW l \in cls[c].lits, l # first(c),
           cls' = Rewatched(c, l), UNCHANGED file
    PROVE  /\ cls' \in Seq(ClauseRecords') /\ Id' = Id /\ Len(cls') = Len(cls)
           /\ \A d \in Id : cls'[d].lits = cls[d].lits /\ cls'[d].deps = cls[d].deps
           /\ \A d \in Id \ {c} : cls'[d] = cls[d]
           /\ cls'[c].watch = <<first(c), l>> /\ Len(cls'[c].watch) = 2
           /\ Range(cls'[c].watch) = {first(c), l}
           /\ \A d \in Id : WellWatched(cls'[d])
           /\ Sound(trail, trail_lim, cls')
<1> DEFINE r == [cls[c] EXCEPT !.watch = <<first(c), l>>]
<1>1. /\ c \in Id /\ cls[c] \in ClauseRecords /\ Len(cls[c].watch) = 2
      /\ first(c) \in cls[c].lits /\ first(c) \in Literals /\ False(-p)
      /\ cls[c].watch[1] # -p => first(c) = cls[c].watch[1]
  BY AtHand DEF first
<1>2. cls \in Seq(ClauseRecords) /\ Id = 1..Len(cls) /\ Len(cls) \in Nat
  BY LenProperties DEF TypeInv, Id
<1>3. <<first(c), l>> \in Seq(Literals) /\ Len(<<first(c), l>>) = 2
  BY <1>1 DEF ClauseRecords
<1>4. r \in ClauseRecords /\ r.lits = cls[c].lits /\ r.deps = cls[c].deps /\ r.watch = <<first(c), l>>
  BY <1>1, <1>3 DEF ClauseRecords
<1>5. cls' = [cls EXCEPT ![c] = r]
  BY DEF Rewatched
<1> HIDE DEF r
<1>6. /\ cls' \in Seq(ClauseRecords) /\ Len(cls') = Len(cls)
      /\ \A j \in 1..Len(cls) : cls'[j] = IF j = c THEN r ELSE cls[j]
  BY <1>1, <1>2, <1>4, <1>5, ExceptSeq
<1>7. Id' = Id
  BY <1>2, <1>6, LenProperties DEF Id
<1>8. \A d \in Id : cls'[d] = IF d = c THEN r ELSE cls[d]
  BY <1>2, <1>6
<1>9. Range(<<first(c), l>>) = {first(c), l} /\ <<first(c), l>>[1] = first(c) /\ <<first(c), l>>[2] = l
  BY DEF Range
<1>10. \A d \in Id : WellWatched(cls'[d])
  <2>1. WellWatched(r)
    BY <1>1, <1>3, <1>4, <1>9 DEF WellWatched
  <2> QED BY <2>1, <1>8 DEF Watching
<1>11. Sound(trail, trail_lim, cls')
  <2>1. Sound(trail, trail_lim, cls)
    BY DEF Assigning
  <2>2. ASSUME NEW k \in DOMAIN trail, trail[k].reason \in Id
        PROVE  /\ Len(cls'[trail[k].reason].watch) > 0
               /\ cls'[trail[k].reason].watch[1] = cls[trail[k].reason].watch[1]
    <3>1. /\ trail[k].reason # 0 /\ Len(cls[trail[k].reason].watch) > 0
          /\ cls[trail[k].reason].watch[1] = trail[k].lit
      BY <2>1, <2>2, <1>2 DEF Sound, Reasoned, Explains
    <3>2. CASE trail[k].reason = c
      <4>1. trail[k].lit # -p
        BY <2>1, <2>2, AtHand DEF Sound, Distinct, p
      <4> QED BY <3>1, <3>2, <4>1, <1>1, <1>3, <1>4, <1>8, <1>9
    <3>3. CASE trail[k].reason # c
      BY <3>1, <3>3, <2>2, <1>8
    <3> QED BY <3>2, <3>3
  <2>3. \A d \in DOMAIN cls : cls'[d].lits = cls[d].lits
    BY <1>4, <1>8 DEF Id
  <2>4. DOMAIN cls \subseteq DOMAIN cls'
    BY <1>7 DEF Id
  <2> QED BY <2>1, <2>2, <2>3, <2>4, ReasonsKept DEF Id
<1>12. \A d \in Id : cls'[d].lits = cls[d].lits /\ cls'[d].deps = cls[d].deps
  BY <1>4, <1>8
<1> QED BY <1>1, <1>3, <1>4, <1>6, <1>7, <1>8, <1>9, <1>10, <1>11, <1>12, SameFile

(* Swapping the watches of a clause changes no list. *)
LEMMA SwappedIsWatched ==
    ASSUME TypeInv, Watching, Assigning, Walking, todo # <<>>,
           NEW c, c = Head(todo),
           cls' = Rewatched(c, -p), UNCHANGED <<file, watches>>
    PROVE  Watching'
<1>1. -p \in cls[c].lits /\ -p # first(c) /\ Range(cls[c].watch) = {first(c), -p} /\ Len(cls[c].watch) = 2
  BY AtHand
<1>2. /\ Id' = Id /\ \A d \in Id \ {c} : cls'[d] = cls[d]
      /\ Range(cls'[c].watch) = {first(c), -p} /\ Len(cls'[c].watch) = 2
      /\ \A d \in Id : WellWatched(cls'[d])
  BY <1>1, RewatchedKeeps
<1>3. \A d \in Id : Len(cls'[d].watch) = Len(cls[d].watch) /\ Range(cls'[d].watch) = Range(cls[d].watch)
  BY <1>1, <1>2
<1>4. ASSUME NEW l \in Literals
      PROVE  Range(watches[l]) = {d \in Id : Len(cls'[d].watch) = 2 /\ -l \in Range(cls'[d].watch)}
  BY <1>3 DEF Watching, WatchesAgree
<1>5. WatchesAgree'
  BY <1>2, <1>4, SameFile DEF Watching, WatchesAgree
<1> QED BY <1>2, <1>5 DEF Watching

MovedTo(c, l) == [watches EXCEPT ![p]  = RemoveAt(@, Len(@) - Len(todo) + 1),
                                 ![-l] = Append(@, c)]

(* A clause that found another watch leaves one list for another. *)
LEMMA MovedIsWatched ==
    ASSUME TypeInv, Watching, Assigning, Walking, todo # <<>>,
           NEW c, c = Head(todo), NEW l \in NewWatches(c),
           cls' = Rewatched(c, l), UNCHANGED file,
           watches' = MovedTo(c, l)
    PROVE  /\ watches' \in [Literals' -> Seq(Nat)]
           /\ Watching'
           /\ Len(watches'[p]) = Len(watches[p]) - 1
           /\ \A j \in 1..(Len(watches[p]) - 1) : j >= Len(watches[p]) - Len(todo) + 1
                  => watches'[p][j] = watches[p][j + 1]
<1> DEFINE at == Len(watches[p]) - Len(todo) + 1
           gone == RemoveAt(watches[p], at)
<1>1. /\ c \in Id /\ Len(cls[c].watch) = 2 /\ p \in Literals /\ -p \in cls[c].lits
      /\ first(c) # -p /\ first(c) \in cls[c].lits
      /\ Range(cls[c].watch) = {first(c), -p} /\ cls[c] \in ClauseRecords
      /\ at \in 1..Len(watches[p]) /\ c = watches[p][at] /\ Len(watches[p]) \in Nat
  BY AtHand
<1>2. l \in cls[c].lits /\ l # first(c) /\ l # -p /\ l \in Literals
  BY <1>1 DEF NewWatches, ClauseRecords
<1>3. /\ Literals \subseteq Int \ {0}
      /\ \A m \in Literals : -m \in Literals /\ -(-m) = m
  BY LiteralsNegate DEF TypeInv
<1>4. -l \in Literals /\ -l # p /\ -(-l) = l
  BY <1>1, <1>2, <1>3
<1>5. /\ Id' = Id /\ \A d \in Id \ {c} : cls'[d] = cls[d]
      /\ Range(cls'[c].watch) = {first(c), l} /\ Len(cls'[c].watch) = 2
      /\ \A d \in Id : WellWatched(cls'[d])
  BY <1>2, RewatchedKeeps
<1>6. /\ watches \in [Literals -> Seq(Nat)]
      /\ \A m \in Literals : /\ IsInjective(watches[m])
                               /\ Range(watches[m]) = {d \in Id : Len(cls[d].watch) = 2 /\ -m \in Range(cls[d].watch)}
  BY DEF TypeInv, Watching, WatchesAgree
<1>7. /\ gone \in Seq(Nat) /\ Len(gone) = Len(watches[p]) - 1
      /\ \A j \in DOMAIN gone : gone[j] = IF j < at THEN watches[p][j] ELSE watches[p][j + 1]
      /\ Range(gone) = Range(watches[p]) \ {c}
      /\ IsInjective(gone)
  <2>1. watches[p] \in Seq(Nat) /\ IsInjective(watches[p])
    BY <1>1, <1>6
  <2>2. at \in 1..Len(watches[p]) /\ c = watches[p][at]
    BY <1>1
  <2> HIDE DEF at
  <2> QED BY <2>1, <2>2, RemoveWatch, Zenon
<1>8. c \notin Range(watches[-l]) /\ c \in Nat
  <2>1. -(-l) \notin Range(cls[c].watch)
    BY <1>1, <1>2, <1>4
  <2>2. c \in Nat
    BY <1>1, LenProperties DEF TypeInv, Id
  <2> QED BY <2>1, <2>2, <1>4, <1>6
<1>9. /\ Append(watches[-l], c) \in Seq(Nat)
      /\ Range(Append(watches[-l], c)) = Range(watches[-l]) \cup {c}
      /\ IsInjective(Append(watches[-l], c))
  BY <1>4, <1>6, <1>8, AppendWatch
<1>10. /\ watches' \in [Literals -> Seq(Nat)]
       /\ watches'[p] = gone /\ watches'[-l] = Append(watches[-l], c)
       /\ \A m \in Literals \ {p, -l} : watches'[m] = watches[m]
  <2>1. watches' = [watches EXCEPT ![p] = gone, ![-l] = Append(watches[-l], c)]
    BY <1>4, <1>1, <1>6 DEF MovedTo
  <2> DEFINE long == Append(watches[-l], c)
  <2>2. gone \in Seq(Nat) /\ long \in Seq(Nat)
    BY <1>7, <1>9
  <2>3. watches \in [Literals -> Seq(Nat)] /\ p \in Literals /\ -l \in Literals /\ -l # p
    BY <1>1, <1>4, <1>6
  <2> DEFINE q == -l
  <2>4. watches' = [watches EXCEPT ![p] = gone, ![q] = long]
    BY <2>1
  <2>5. q \in Literals /\ q # p
    BY <2>3
  <2> HIDE DEF gone, at, long, q
  <2>6. /\ watches' \in [Literals -> Seq(Nat)]
        /\ watches'[p] = gone /\ watches'[q] = long
        /\ \A m \in Literals \ {p, q} : watches'[m] = watches[m]
    BY <2>2, <2>3, <2>4, <2>5
  <2> QED BY <2>6 DEF long, q
<1> HIDE DEF gone, at
<1>11. ASSUME NEW m \in Literals
       PROVE  /\ Range(watches'[m]) = {d \in Id' : Len(cls'[d].watch) = 2 /\ -m \in Range(cls'[d].watch)}
              /\ IsInjective(watches'[m])
  <2> DEFINE W == {d \in Id' : Len(cls'[d].watch) = 2 /\ -m \in Range(cls'[d].watch)}
  <2>1. /\ W \subseteq Id
        /\ \A d \in Id \ {c} : d \in W <=> d \in Range(watches[m])
        /\ c \in W <=> -m \in {first(c), l}
        /\ Range(watches[m]) \subseteq Id
        /\ c \in Range(watches[m]) <=> -m \in {first(c), -p}
    <3>1. Range(watches[m]) = {d \in Id : Len(cls[d].watch) = 2 /\ -m \in Range(cls[d].watch)}
      BY <1>6
    <3>2. \A d \in Id \ {c} : d \in W <=> d \in Range(watches[m])
      BY <3>1, <1>5
    <3>3. c \in W <=> -m \in {first(c), l}
      BY <1>1, <1>5
    <3>4. c \in Range(watches[m]) <=> -m \in {first(c), -p}
      BY <3>1, <1>1
    <3> QED BY <3>1, <3>2, <3>3, <3>4, <1>5
  <2> HIDE DEF W
  <2>2. -m = -p <=> m = p
    BY <1>1, <1>3
  <2>3. -m = l <=> m = -l
    BY <1>2, <1>3
  <2>4. CASE m = p
    <3>1. c \notin W
      BY <2>1, <2>4, <1>1, <1>2
    <3>2. Range(watches'[m]) \subseteq Id /\ \A d \in Id : d \in Range(watches'[m]) <=> d \in W
      BY <2>1, <2>4, <3>1, <1>1, <1>7, <1>10
    <3>3. Range(watches'[m]) = W
      BY <3>2, <2>1, Zenon
    <3> QED BY <2>4, <3>3, <1>7, <1>10 DEF W
  <2>5. CASE m = -l
    <3>1. c \in W
      BY <2>1, <2>3, <2>5
    <3>2. Range(watches'[m]) \subseteq Id /\ \A d \in Id : d \in Range(watches'[m]) <=> d \in W
      BY <2>1, <2>5, <3>1, <1>1, <1>9, <1>10
    <3>3. Range(watches'[m]) = W
      BY <3>2, <2>1, Zenon
    <3> QED BY <2>5, <3>3, <1>9, <1>10 DEF W
  <2>6. CASE m # p /\ m # -l
    <3>1. c \in W <=> c \in Range(watches[m])
      BY <2>1, <2>2, <2>3, <2>6
    <3>2. Range(watches'[m]) \subseteq Id /\ \A d \in Id : d \in Range(watches'[m]) <=> d \in W
      BY <2>1, <2>6, <3>1, <1>1, <1>10
    <3>3. Range(watches'[m]) = W
      BY <3>2, <2>1, Zenon
    <3> QED BY <2>6, <3>3, <1>6, <1>10 DEF W
  <2> QED BY <2>4, <2>5, <2>6
<1>12. WatchesAgree'
  BY <1>11, SameFile DEF WatchesAgree
<1>13. \A j \in 1..(Len(watches[p]) - 1) : j >= at => watches'[p][j] = watches[p][j + 1]
  <2>1. DOMAIN gone = 1..(Len(watches[p]) - 1)
    BY <1>7, LenProperties
  <2> SUFFICES ASSUME NEW j \in 1..(Len(watches[p]) - 1), j >= at
               PROVE  watches'[p][j] = watches[p][j + 1]
    OBVIOUS
  <2>2. gone[j] = IF j < at THEN watches[p][j] ELSE watches[p][j + 1]
    BY <2>1, <1>7
  <2>3. at \in Int /\ j \in Int
    BY <1>1 DEF at
  <2>4. ~(j < at)
    BY <2>3
  <2> QED BY <2>2, <2>4, <1>10
<1> QED BY <1>5, <1>7, <1>10, <1>12, <1>13, SameFile DEF Watching, at

-----------------------------------------------------------------------------
(* Steps that leave the clauses, or the assignment, as they are. *)
LEMMA SameClauses ==
    ASSUME Watching, UNCHANGED <<file, cls, watches>>
    PROVE  Watching' /\ Id' = Id
  BY SameFile DEF Watching, WatchesAgree, Id

LEMMA SameTrail ==
    ASSUME UNCHANGED trail
    PROVE  /\ TrueLits' = TrueLits
           /\ \A l : False(l)' = False(l) /\ True(l)' = True(l) /\ Unassigned(l)' = Unassigned(l)
           /\ \A l : LevelOf(l)' = LevelOf(l)
<1>1. TrueLits' = TrueLits
  BY DEF TrueLits
<1>2. \A l : False(l)' = False(l) /\ True(l)' = True(l)
  BY <1>1 DEF False, True
<1>3. \A l : Unassigned(l)' = Unassigned(l)
  BY <1>2 DEF Unassigned
<1>4. \A l : LevelOf(l)' = LevelOf(l)
  BY DEF LevelOf, Place
<1> QED BY <1>1, <1>2, <1>3, <1>4

(* What a false literal is false by is one place on the trail. *)
LEMMA OnePlace ==
    ASSUME TypeInv, Assigning, NEW k \in DOMAIN trail, NEW l \in Literals, trail[k].lit = -l
    PROVE  Place(l) = k /\ LevelOf(l) = trail[k].level
<1>1. \A j \in DOMAIN trail : trail[j].lit = -l => j = k
  BY DEF Assigning, Sound, Distinct
<1>2. Place(l) = k
  BY <1>1 DEF Place
<1> QED BY <1>2 DEF LevelOf

LEMMA FalseIsPlaced ==
    ASSUME TypeInv, Assigning, NEW l \in Literals, False(l)
    PROVE  /\ Place(l) \in DOMAIN trail /\ trail[Place(l)].lit = -l
           /\ LevelOf(l) = trail[Place(l)].level /\ LevelOf(l) \in Nat
<1>1. PICK k \in DOMAIN trail : trail[k].lit = -l
  BY DEF False, TrueLits
<1>2. Place(l) = k /\ LevelOf(l) = trail[k].level
  BY <1>1, OnePlace
<1>3. trail[k] \in Entries(Literals)
  BY ElementOfSeq, LenProperties DEF TypeInv
<1> QED BY <1>1, <1>2, <1>3 DEF Entries

(* The state as far as it is plain. *)
LEMMA TypeFacts ==
    ASSUME TypeInv
    PROVE  /\ Literals \subseteq Int \ {0}
           /\ \A l \in Literals : -l \in Literals /\ -(-l) = l /\ VarOf(l) \in Variables
           /\ trail \in Seq(Entries(Literals)) /\ DOMAIN trail = 1..Len(trail) /\ Len(trail) \in Nat
           /\ \A k \in DOMAIN trail : /\ trail[k].lit \in Literals
                                      /\ trail[k].reason \in Nat /\ trail[k].level \in Nat
           /\ trail_lim \in Seq(Nat) /\ DOMAIN trail_lim = 1..decisionLevel /\ decisionLevel \in Nat
           /\ \A i \in DOMAIN trail_lim : trail_lim[i] \in Nat
           /\ Id = 1..Len(cls) /\ Len(cls) \in Nat
           /\ \A c \in Id : /\ cls[c].lits \subseteq Literals /\ cls[c].watch \in Seq(Literals)
                             /\ cls[c].deps \subseteq Nat
           /\ file \in Seq(SUBSET (Int \ {0})) /\ Len(file) \in Nat /\ DOMAIN file = 1..Len(file)
           /\ \A k \in DOMAIN file : file[k] \subseteq Literals /\ file[k] # {}
<1>1. /\ Literals \subseteq Int \ {0}
      /\ \A l \in Literals : -l \in Literals /\ -(-l) = l /\ VarOf(l) \in Variables
      /\ file \in Seq(SUBSET (Int \ {0}))
      /\ \A k \in DOMAIN file : file[k] \subseteq Literals /\ file[k] # {}
  BY LiteralsNegate DEF TypeInv
<1>2. trail \in Seq(Entries(Literals)) /\ DOMAIN trail = 1..Len(trail) /\ Len(trail) \in Nat
  BY LenProperties DEF TypeInv
<1>3. \A k \in DOMAIN trail : trail[k] \in Entries(Literals)
  BY <1>2, ElementOfSeq
<1>4. trail_lim \in Seq(Nat) /\ DOMAIN trail_lim = 1..decisionLevel /\ decisionLevel \in Nat
  BY LenProperties DEF TypeInv, decisionLevel
<1>5. \A i \in DOMAIN trail_lim : trail_lim[i] \in Nat
  BY <1>4, ElementOfSeq DEF decisionLevel
<1>6. cls \in Seq(ClauseRecords) /\ Id = 1..Len(cls) /\ Len(cls) \in Nat
  BY LenProperties DEF TypeInv, Id
<1>7. \A c \in Id : cls[c] \in ClauseRecords
  BY <1>6, ElementOfSeq
<1>8. Len(file) \in Nat /\ DOMAIN file = 1..Len(file)
  BY <1>1, LenProperties
<1> QED BY <1>1, <1>2, <1>3, <1>4, <1>5, <1>6, <1>7, <1>8 DEF Entries, ClauseRecords

(* The next true literal is taken up. *)
LEMMA DequeueKeeps ==
    ASSUME SolverInv, Dequeue
    PROVE  SolverInv'
<1> USE DEF SolverInv
<1>1. pc = "search" /\ qhead \in Nat /\ qhead < Len(trail) /\ qhead + 1 \in DOMAIN trail
  BY TypeFacts DEF TypeInv, Dequeue
<1>2. /\ UNCHANGED <<file, pc, cls, watches, trail, trail_lim, heap, st_confl, resolvent, dep_stack,
                     starts, conflictC, model, core, cl_scheds, depcount>>
      /\ qhead' = qhead + 1 /\ todo' = watches[trail[qhead + 1].lit]
  BY DEF Dequeue, analysis, counters, trace
<1>3. Literals' = Literals /\ Variables' = Variables /\ ClauseRecords' = ClauseRecords /\ Id' = Id
  BY <1>2, SameFile, SameClauses
<1>4. trail[qhead + 1].lit \in Literals /\ todo' \in Seq(Nat)
  BY <1>1, <1>2, TypeFacts DEF TypeInv
<1>5. TypeInv'
  BY <1>1, <1>2, <1>3, <1>4, TypeFacts DEF TypeInv
<1>6. Watching'
  BY <1>2, SameClauses
<1>7. Assigning'
  BY <1>2 DEF Assigning
<1>8. Walking'
  <2>1. p' = trail[qhead + 1].lit /\ todo' = watches'[p'] /\ Len(todo') \in Nat
    BY <1>2, <1>4, LenProperties DEF p
  <2>2. decisionLevel' = decisionLevel /\ decisionLevel \in Nat
    BY <1>2, TypeFacts DEF decisionLevel
  <2>3. decisionLevel > 0 => qhead' > trail_lim[decisionLevel] /\ trail_lim[decisionLevel] \in Nat
    BY <1>1, <1>2, <2>2, TypeFacts DEF Walking
  <2>4. \A i \in DOMAIN todo' : todo'[i] = watches'[p'][Len(watches'[p']) - Len(todo') + i]
    BY <2>1, <1>4, LenProperties
  <2> QED BY <1>1, <1>2, <2>1, <2>2, <2>3, <2>4 DEF Walking
<1>9. Phases'
  BY <1>1, <1>2, SameTrail DEF Phases, decisionLevel
<1>10. Queueing'
  BY <1>1, <1>2, <1>3, SameTrail DEF Queueing, HeapComplete
<1> QED BY <1>5, <1>6, <1>7, <1>8, <1>9, <1>10

(* What is true or false stays so when the trail grows. *)
LEMMA TrailGrows ==
    ASSUME TypeInv, NEW e \in Entries(Literals), trail' = Append(trail, e)
    PROVE  /\ trail' \in Seq(Entries(Literals)) /\ Len(trail') = Len(trail) + 1
           /\ TrueLits' = TrueLits \cup {e.lit}
           /\ \A l : False(l) => False(l)'
           /\ \A x : Unassigned(x)' => Unassigned(x)
           /\ \A k \in DOMAIN trail : trail'[k] = trail[k]
<1>1. /\ trail' \in Seq(Entries(Literals)) /\ Len(trail') = Len(trail) + 1
      /\ \A k \in 1..Len(trail) : trail'[k] = trail[k]
      /\ trail'[Len(trail) + 1] = e
  BY TypeFacts, AppendProperties
<1>2. DOMAIN trail' = 1..(Len(trail) + 1) /\ DOMAIN trail = 1..Len(trail) /\ Len(trail) \in Nat
  BY <1>1, TypeFacts, LenProperties
<1>3. \A k \in DOMAIN trail' : k \in DOMAIN trail \/ k = Len(trail) + 1
  BY <1>2
<1>4. TrueLits' = TrueLits \cup {e.lit}
  BY <1>1, <1>2, <1>3 DEF TrueLits
<1> QED BY <1>1, <1>2, <1>4 DEF False, True, Unassigned

(* The rest of the list after the clause at hand. *)
LEMMA WalkedOn ==
    ASSUME TypeInv, Walking, todo # <<>>, todo' = Tail(todo),
           watches[p] \in Seq(Nat), watches'[p] \in Seq(Nat),
           \/ watches'[p] = watches[p]
           \/ /\ Len(watches'[p]) = Len(watches[p]) - 1
              /\ \A j \in 1..(Len(watches[p]) - 1) : j >= Len(watches[p]) - Len(todo) + 1
                    => watches'[p][j] = watches[p][j + 1]
    PROVE  /\ todo' \in Seq(Nat) /\ Len(todo') <= Len(watches'[p])
           /\ \A i \in DOMAIN todo' : todo'[i] = watches'[p][Len(watches'[p]) - Len(todo') + i]
<1> DEFINE s == watches[p]
           t == watches'[p]
           n == Len(s)
           w == Len(todo)
<1>1. /\ todo' \in Seq(Nat) /\ Len(todo') = w - 1 /\ DOMAIN todo = 1..w
      /\ \A i \in 1..(w - 1) : todo'[i] = todo[i + 1]
      /\ DOMAIN todo' = 1..(w - 1) /\ w \in Nat /\ w > 0 /\ n \in Nat
  <2>1. todo \in Seq(Nat)
    BY DEF TypeInv
  <2>2. todo' \in Seq(Nat) /\ Len(todo') = w - 1 /\ \A i \in 1..Len(todo') : todo'[i] = todo[i + 1]
    BY <2>1, HeadTailProperties
  <2>3. w \in Nat \ {0} /\ n \in Nat /\ DOMAIN todo = 1..w /\ DOMAIN todo' = 1..Len(todo')
    BY <2>1, <2>2, EmptySeq, LenProperties
  <2> QED BY <2>2, <2>3
<1>2. w <= n /\ \A i \in DOMAIN todo : todo[i] = s[n - w + i]
  BY DEF Walking
<1>3. Len(t) \in Nat /\ (t = s => Len(t) = n)
  BY LenProperties
<1>4. \/ t = s
      \/ Len(t) = n - 1 /\ \A j \in 1..(n - 1) : j >= n - w + 1 => t[j] = s[j + 1]
  OBVIOUS
<1> HIDE DEF n, w
<1>5. ASSUME NEW i \in 1..(w - 1)
      PROVE  todo'[i] = t[Len(t) - (w - 1) + i]
  <2>1. i \in Int /\ i >= 1 /\ i <= w - 1 /\ i + 1 \in DOMAIN todo
    BY <1>1
  <2>2. todo'[i] = s[n - w + (i + 1)]
    BY <2>1, <1>1, <1>2
  <2> DEFINE j == n - w + i
  <2>3. j \in 1..(n - 1) /\ j >= n - w + 1 /\ n - w + (i + 1) = j + 1
    BY <2>1, <1>1, <1>2
  <2>4. n - (w - 1) + i = j + 1 /\ (n - 1) - (w - 1) + i = j
    BY <2>1, <1>1
  <2>5. todo'[i] = s[j + 1]
    BY <2>2, <2>3
  <2>6. CASE t = s
    BY <2>4, <2>5, <2>6, <1>3
  <2>7. CASE Len(t) = n - 1 /\ \A k \in 1..(n - 1) : k >= n - w + 1 => t[k] = s[k + 1]
    <3>1. t[j] = s[j + 1]
      BY <2>3, <2>7
    <3> QED BY <3>1, <2>4, <2>5, <2>7
  <2> QED BY <2>6, <2>7, <1>4
<1>6. Len(todo') <= Len(t)
  BY <1>1, <1>2, <1>3, <1>4
<1> QED BY <1>1, <1>5, <1>6

(* A clause that has a true watch, another watch, one literal left or none.*)
LEMMA VisitKeeps ==
    ASSUME SolverInv, Visit
    PROVE  SolverInv'
<1> USE DEF SolverInv
<1>1. pc = "search" /\ todo # <<>>
  BY DEF Visit
<1> DEFINE c == Head(todo)
<1>2. /\ UNCHANGED <<file, trail_lim, heap, st_confl, starts, conflictC, model, core, cl_scheds, depcount>>
      /\ WatchTrue(c) \/ FoundWatch(c) \/ Unit(c) \/ Contradicted(c)
  BY DEF Visit, counters, trace
<1>3. /\ c \in Id /\ qhead \in DOMAIN trail /\ p \in Literals /\ -p \in cls[c].lits /\ False(-p)
      /\ first(c) \in cls[c].lits /\ first(c) # -p /\ first(c) \in Literals
  BY <1>1, AtHand
<1>4. /\ Literals' = Literals /\ Variables' = Variables /\ ClauseRecords' = ClauseRecords
      /\ decisionLevel' = decisionLevel
  BY <1>2, SameFile DEF decisionLevel
<1>c. c = Head(todo)
  OBVIOUS
<1> HIDE DEF c
<1>5. SUFFICES ASSUME NEW l \in cls[c].lits, l # first(c), cls' = Rewatched(c, l),
                      FoundWatch(c) => l \in NewWatches(c) /\ watches' = MovedTo(c, l),
                      ~FoundWatch(c) => l = -p /\ UNCHANGED watches
               PROVE  SolverInv'
  <2>1. CASE FoundWatch(c)
    BY <2>1 DEF FoundWatch, NewWatches, MovedTo
  <2>2. CASE ~FoundWatch(c)
    BY <1>2, <1>3, <2>2 DEF WatchTrue, Unit, Contradicted
  <2> QED BY <2>1, <2>2
<1>6. /\ cls' \in Seq(ClauseRecords') /\ Id' = Id /\ Len(cls') = Len(cls)
      /\ \A d \in Id : cls'[d].lits = cls[d].lits
      /\ Sound(trail, trail_lim, cls')
      /\ cls'[c].watch = <<first(c), l>> /\ Len(cls'[c].watch) = 2
  <2>1. UNCHANGED file /\ cls' = Rewatched(c, l) /\ l # first(c) /\ l \in cls[c].lits
    BY <1>2, <1>5
  <2> QED BY <2>1, <1>1, <1>c, RewatchedKeeps
<1>7. /\ Watching' /\ watches' \in [Literals -> Seq(Nat)]
      /\ \/ watches'[p] = watches[p]
         \/ /\ Len(watches'[p]) = Len(watches[p]) - 1
            /\ \A j \in 1..(Len(watches[p]) - 1) : j >= Len(watches[p]) - Len(todo) + 1
                  => watches'[p][j] = watches[p][j + 1]
  <2>1. CASE FoundWatch(c)
    <3>1. /\ UNCHANGED file /\ cls' = Rewatched(c, l) /\ l \in NewWatches(c)
          /\ watches' = MovedTo(c, l)
      BY <2>1, <1>2, <1>5
    <3> QED BY <3>1, <1>1, <1>4, <1>c, MovedIsWatched
  <2>2. CASE ~FoundWatch(c)
    <3>1. UNCHANGED <<file, watches>> /\ cls' = Rewatched(c, -p)
      BY <2>2, <1>2, <1>5
    <3>2. Watching'
      BY <3>1, <1>1, <1>c, SwappedIsWatched
    <3> QED BY <3>1, <3>2 DEF TypeInv
  <2> QED BY <2>1, <2>2
<1>8. watches[p] \in Seq(Nat) /\ watches'[p] \in Seq(Nat)
  BY <1>3, <1>7 DEF TypeInv
<1>9. /\ starts \in Nat /\ conflictC \in Nat /\ heap \subseteq Variables /\ model \subseteq Literals
      /\ st_confl \in Id \cup {0} /\ file \in Files
      /\ dep_stack \subseteq Id /\ resolvent \subseteq Literals
  BY DEF TypeInv
<1>10. CASE Contradicted(c)
  <2>1. /\ pc' = (IF decisionLevel = 0 THEN "final" ELSE "analyze")
        /\ resolvent' = cls[c].lits /\ dep_stack' = {c} /\ qhead' = Len(trail) /\ todo' = <<>>
        /\ UNCHANGED <<watches, trail>> /\ NewWatches(c) = {} /\ False(first(c))
    BY <1>10 DEF Contradicted, Conflict
  <2>2. \A m \in resolvent' : False(m)
    BY <2>1, <1>3 DEF NewWatches
  <2>3. TypeInv'
    <3>1. resolvent' \subseteq Literals /\ dep_stack' \subseteq Id' /\ qhead' \in 0..Len(trail') /\ todo' \in Seq(Nat)
      BY <2>1, <1>3, <1>6, TypeFacts
    <3>2. /\ pc' \in {"parse", "search", "analyze", "final", "count", "traverse", "sat", "unsat"}
          /\ trail_lim' \in Seq(Nat) /\ trail' \in Seq(Entries(Literals))
      BY <2>1, <1>2, TypeFacts
    <3> QED BY <3>1, <3>2, <1>2, <1>4, <1>6, <1>7, <1>9 DEF TypeInv
  <2>4. Assigning' /\ \A m : False(m)' = False(m) /\ LevelOf(m)' = LevelOf(m)
    BY <2>1, <1>2, <1>6, SameTrail DEF Assigning
  <2>5. decisionLevel > 0 => LevelOf(-p) = decisionLevel
    <3> SUFFICES ASSUME decisionLevel > 0 PROVE LevelOf(-p) = decisionLevel
      OBVIOUS
    <3>1. trail[qhead].lit = -(-p) /\ -p \in Literals
      BY <1>3, TypeFacts DEF p
    <3>2. LevelOf(-p) = trail[qhead].level
      BY <3>1, <1>3, OnePlace
    <3>3. decisionLevel \in DOMAIN trail_lim /\ qhead > trail_lim[decisionLevel]
      BY <1>1, TypeFacts DEF Walking
    <3>4. trail[qhead].level >= decisionLevel /\ trail[qhead].level <= decisionLevel
      BY <3>3, <1>3 DEF Assigning, Sound, Leveled, decisionLevel
    <3> QED BY <3>2, <3>4, <1>3, TypeFacts
  <2>6. Walking'
    <3>1. decisionLevel > 0 => qhead' >= trail_lim[decisionLevel]
      BY <2>1, TypeFacts DEF Assigning, Sound, Leveled
    <3> QED BY <2>1, <3>1, <1>2, <1>4 DEF Walking
  <2>7. Phases'
    <3>1. pc' = "analyze" => -p \in AtLevel'
      BY <2>1, <2>4, <2>5, <1>3, <1>4, TypeFacts DEF AtLevel
    <3>2. st_confl # 0 => \A m \in cls'[st_confl].lits : False(m)'
      BY <2>4, <1>6, <1>9 DEF Phases
    <3>3. Len(cls') >= Len(file')
      BY <1>1, <1>2, <1>6 DEF Phases
    <3>4. /\ pc' # "parse" /\ (pc' = "analyze" => decisionLevel' > 0) /\ (pc' = "final" => decisionLevel' = 0)
          /\ st_confl # 0 => decisionLevel' = 0
      BY <2>1, <1>4, TypeFacts DEF Phases
    <3> QED BY <3>1, <3>2, <3>3, <3>4, <2>2, <2>4, <1>2 DEF Phases
  <2>8. Queueing'
    BY <2>1, <1>1, <1>2, <1>4, SameTrail DEF Queueing, HeapComplete
  <2> QED BY <2>3, <2>4, <2>6, <2>7, <2>8, <1>7
<1>11. CASE ~Contradicted(c)
  <2>1. UNCHANGED <<pc, qhead, resolvent, dep_stack>> /\ todo' = Tail(todo)
    BY <1>2, <1>11 DEF WatchTrue, FoundWatch, Unit, analysis
  <2>2. todo' \in Seq(Nat) /\ Len(todo') <= Len(watches'[p])
        /\ \A i \in DOMAIN todo' : todo'[i] = watches'[p][Len(watches'[p]) - Len(todo') + i]
    BY <2>1, <1>1, <1>7, <1>8, WalkedOn
  <2>3. /\ trail' \in Seq(Entries(Literals)) /\ Len(trail') >= Len(trail) /\ trail'[qhead] = trail[qhead]
        /\ \A m : False(m) => False(m)'
        /\ \A x : Unassigned(x)' => Unassigned(x)
        /\ Sound(trail', trail_lim, cls')
    <3>1. CASE Unit(c)
      <4> DEFINE e == Entry(first(c), c, decisionLevel)
      <4>1. /\ trail' = Append(trail, e) /\ NewWatches(c) = {} /\ Unassigned(first(c)) /\ l = -p
        BY <3>1, <1>5 DEF Unit, FoundWatch
      <4>2. e \in Entries(Literals) /\ e.lit = first(c) /\ e.reason = c /\ c # 0 /\ e.level = decisionLevel
        <5>1. first(c) \in Literals /\ c \in Nat /\ c # 0
          BY <1>3, TypeFacts
        <5>2. decisionLevel \in Nat
          BY TypeFacts
        <5> QED BY <5>1, <5>2 DEF Entry, Entries
      <4>3. \A k \in DOMAIN trail : trail[k].lit # first(c) /\ trail[k].lit # -first(c)
        BY <4>1 DEF Unassigned, True, False, TrueLits
      <4>4. \A m \in cls'[c].lits \ {first(c)} : \E j \in DOMAIN trail : trail[j].lit = -m
        <5>1. \A m \in cls[c].lits \ {first(c)} : False(m)
          BY <4>1, <1>3 DEF NewWatches
        <5> QED BY <5>1, <1>3, <1>6 DEF False, TrueLits
      <4>5. cls'[c].watch[1] = first(c) /\ Len(cls'[c].watch) > 0 /\ c \in DOMAIN cls'
        BY <1>3, <1>6 DEF Id
      <4> HIDE DEF e
      <4>6. Sound(trail', trail_lim, cls')
        <5>1. Literals \subseteq Int \ {0} /\ trail \in Seq(Entries(Literals)) /\ trail_lim \in Seq(Nat)
          BY TypeFacts
        <5>2. e.level = Len(trail_lim)
          BY <4>2 DEF decisionLevel
        <5>3. Sound(Append(trail, e), trail_lim, cls')
          BY ONLY <5>1, <5>2, <4>2, <4>3, <4>4, <4>5, <1>6, ForcedIsSound
        <5> QED BY <5>3, <4>1
      <4>7. Len(trail) + 1 >= Len(trail)
        BY TypeFacts
      <4> QED BY <4>1, <4>2, <4>6, <4>7, <1>3, TrailGrows
    <3>2. CASE ~Unit(c)
      <4>1. UNCHANGED trail
        BY <3>2, <1>2, <1>11 DEF WatchTrue, FoundWatch
      <4> QED BY <4>1, <1>6, SameTrail, TypeFacts
    <3> QED BY <3>1, <3>2
  <2>4. p' = p
    BY <2>1, <2>3 DEF p
  <2>5. TypeInv'
    <3>1. qhead \in 0..Len(trail')
      BY <2>3, <1>3, TypeFacts, LenProperties
    <3>2. pc' \in {"parse", "search", "analyze", "final", "count", "traverse", "sat", "unsat"}
      BY <2>1, <1>1
    <3>3. trail_lim' \in Seq(Nat)
      BY <1>2, TypeFacts
    <3> QED BY <2>1, <2>2, <2>3, <3>1, <3>2, <3>3, <1>2, <1>4, <1>6, <1>7, <1>9 DEF TypeInv
  <2>6. Assigning'
    BY <2>3, <1>2 DEF Assigning
  <2>7. Walking'
    <3>1. decisionLevel > 0 => qhead > trail_lim[decisionLevel]
      BY <1>1 DEF Walking
    <3>2. decisionLevel > 0 => qhead >= trail_lim[decisionLevel]
      BY DEF Walking
    <3>3. qhead > 0
      BY <1>1 DEF Walking
    <3> QED BY <2>1, <2>2, <2>4, <3>1, <3>2, <3>3, <1>1, <1>2, <1>4 DEF Walking
  <2>8. Phases'
    <3>1. st_confl # 0 => decisionLevel' = 0 /\ \A m \in cls'[st_confl].lits : False(m)'
      BY <2>3, <1>4, <1>6, <1>9 DEF Phases
    <3>2. Len(cls') >= Len(file')
      BY <1>1, <1>2, <1>6 DEF Phases
    <3> QED BY <3>1, <3>2, <2>1, <1>1, <1>2 DEF Phases
  <2>9. Queueing'
    BY <2>1, <2>3, <1>1, <1>2, <1>4 DEF Queueing, HeapComplete
  <2> QED BY <2>5, <2>6, <2>7, <2>8, <2>9, <1>7
<1> QED BY <1>10, <1>11

-----------------------------------------------------------------------------
(* Backjumps. *)
LimUpto(level) == IF decisionLevel > level THEN SubSeq(trail_lim, 1, level) ELSE trail_lim

LEMMA Cancelled ==
    ASSUME TypeInv, Assigning, NEW level \in 0..decisionLevel
    PROVE  /\ Upto(level) \in Seq(Entries(Literals)) /\ LimUpto(level) \in Seq(Nat)
           /\ Len(Upto(level)) = Kept(level) /\ Kept(level) \in Nat /\ Kept(level) <= Len(trail)
           /\ Len(LimUpto(level)) = level
           /\ DOMAIN Upto(level) = 1..Kept(level)
           /\ \A k \in DOMAIN Upto(level) : k \in DOMAIN trail /\ Upto(level)[k] = trail[k]
           /\ \A k \in DOMAIN trail : k <= Kept(level) <=> trail[k].level <= level
           /\ Sound(Upto(level), LimUpto(level), cls)
<1>1. /\ trail \in Seq(Entries(Literals)) /\ DOMAIN trail = 1..Len(trail) /\ Len(trail) \in Nat
      /\ trail_lim \in Seq(Nat) /\ Len(trail_lim) = decisionLevel /\ decisionLevel \in Nat
      /\ Literals \subseteq Int
      /\ Sound(trail, trail_lim, cls)
      /\ level \in Nat /\ level <= decisionLevel
  BY TypeFacts DEF Assigning, decisionLevel
<1>2. CASE level < decisionLevel
  <2>1. Kept(level) = trail_lim[level + 1] /\ LimUpto(level) = SubSeq(trail_lim, 1, level)
    BY <1>1, <1>2 DEF Kept, LimUpto
  <2>2. Upto(level) = SubSeq(trail, 1, trail_lim[level + 1])
    BY <2>1 DEF Upto
  <2>3. /\ Upto(level) \in Seq(Entries(Literals)) /\ LimUpto(level) \in Seq(Nat)
        /\ Len(Upto(level)) = Kept(level) /\ Len(Upto(level)) <= Len(trail) /\ Len(LimUpto(level)) = level
        /\ \A k \in DOMAIN Upto(level) : k \in DOMAIN trail /\ Upto(level)[k] = trail[k]
        /\ \A k \in DOMAIN trail : k <= Len(Upto(level)) <=> trail[k].level <= level
        /\ Sound(Upto(level), LimUpto(level), cls)
    <3>1. CutTo(Upto(level), trail, trail_lim[level + 1]) /\ CutTo(LimUpto(level), trail_lim, level)
      BY <2>1, <2>2 DEF CutTo
    <3>2. level < Len(trail_lim) /\ level \in Nat
      BY <1>1, <1>2
    <3>3. /\ Upto(level) \in Seq(Entries(Literals)) /\ LimUpto(level) \in Seq(Nat)
          /\ Len(Upto(level)) = trail_lim[level + 1] /\ Len(Upto(level)) <= Len(trail) /\ Len(LimUpto(level)) = level
          /\ \A k \in DOMAIN Upto(level) : k \in DOMAIN trail /\ Upto(level)[k] = trail[k]
          /\ \A k \in DOMAIN trail : k <= Len(Upto(level)) <=> trail[k].level <= level
          /\ Sound(Upto(level), LimUpto(level), cls)
      BY ONLY <3>1, <3>2, <1>1, CutIsSound, Zenon
    <3> QED BY <3>3, <2>1
  <2> QED BY <2>3, LenProperties
<1>3. CASE level = decisionLevel
  <2>1. Kept(level) = Len(trail) /\ LimUpto(level) = trail_lim
    BY <1>1, <1>3 DEF Kept, LimUpto
  <2>2. Upto(level) = trail
    BY <2>1, <1>1, SubSeqFull DEF Upto
  <2>3. \A k \in DOMAIN trail : k <= Kept(level) <=> trail[k].level <= level
    BY <2>1, <1>1, <1>3 DEF Sound, Leveled
  <2> QED BY <2>1, <2>2, <2>3, <1>1, <1>3
<1> QED BY <1>1, <1>2, <1>3

(* What is taken back can be decided again. *)
LEMMA Requeued ==
    ASSUME TypeInv, Assigning, HeapComplete, pc \in {"search", "analyze"},
           NEW level \in 0..decisionLevel,
           \A k \in DOMAIN Upto(level) : Upto(level)[k].lit \in TrueLits'
    PROVE  /\ Undone(level) \subseteq Variables
           /\ \A x \in Variables : Unassigned(x)' => x \in heap \cup Undone(level)
<1>1. /\ DOMAIN Upto(level) = 1..Kept(level) /\ Kept(level) \in Nat /\ Kept(level) <= Len(trail)
      /\ \A k \in DOMAIN Upto(level) : Upto(level)[k] = trail[k]
  BY Cancelled
<1>2. /\ DOMAIN trail = 1..Len(trail) /\ Len(trail) \in Nat
      /\ \A k \in DOMAIN trail : trail[k].lit \in Literals /\ VarOf(trail[k].lit) \in Variables
      /\ Variables \subseteq Nat \ {0}
  BY TypeFacts, LiteralsNegate DEF TypeInv
<1>3. Undone(level) \subseteq Variables
  BY <1>1, <1>2 DEF Undone
<1>4. ASSUME NEW x \in Variables, Unassigned(x)', ~Unassigned(x)
      PROVE  x \in Undone(level)
  <2>1. PICK k \in DOMAIN trail : trail[k].lit = x \/ trail[k].lit = -x
    BY <1>4 DEF Unassigned, True, False, TrueLits
  <2>2. trail[k].lit \notin TrueLits'
    BY <2>1, <1>4 DEF Unassigned, True, False
  <2>3. ~(k \in 1..Kept(level))
    BY <2>2, <1>1
  <2>4. k \in (Kept(level) + 1)..Len(trail)
    BY <2>3, <1>1, <1>2
  <2>5. VarOf(trail[k].lit) = x
    BY <2>1, <1>2 DEF VarOf
  <2> QED BY <2>4, <2>5 DEF Undone
<1> QED BY <1>3, <1>4 DEF HeapComplete

(* A restart takes everything back to what follows without decisions. *)
LEMMA RestartKeeps ==
    ASSUME SolverInv, Restart
    PROVE  SolverInv'
<1> USE DEF SolverInv
<1>1. /\ pc = "search" /\ todo = <<>> /\ qhead = Len(trail) /\ st_confl = 0
      /\ UNCHANGED <<file, pc, cls, watches, todo, st_confl, resolvent, dep_stack, model, core, cl_scheds, depcount>>
      /\ starts' = starts + 1 /\ conflictC' = 0
      /\ trail' = Upto(0) /\ trail_lim' = LimUpto(0) /\ heap' = heap \cup Undone(0)
      /\ qhead' = IF decisionLevel > 0 THEN Kept(0) ELSE qhead
  BY DEF Restart, Propagated, cancelUntil, CancelLevels, LimUpto, analysis, trace
<1>2. Literals' = Literals /\ Variables' = Variables /\ ClauseRecords' = ClauseRecords /\ Id' = Id
  BY <1>1, SameFile, SameClauses
<1>3. decisionLevel \in Nat /\ 0 \in 0..decisionLevel /\ Len(trail) \in Nat
  BY TypeFacts
<1>4. /\ trail' \in Seq(Entries(Literals)) /\ trail_lim' \in Seq(Nat) /\ decisionLevel' = 0
      /\ Len(trail') = Kept(0) /\ Kept(0) \in Nat /\ Kept(0) <= Len(trail)
      /\ Sound(trail', trail_lim', cls)
  BY <1>1, <1>3, Cancelled DEF decisionLevel
<1>5. \A k \in DOMAIN Upto(0) : Upto(0)[k].lit \in TrueLits'
  BY <1>1 DEF TrueLits
<1>6. Undone(0) \subseteq Variables /\ \A x \in Variables : Unassigned(x)' => x \in heap'
  BY <1>1, <1>3, <1>5, Requeued DEF Queueing
<1>7. qhead' \in 0..Len(trail')
  <2>1. decisionLevel = 0 => Kept(0) = Len(trail)
    BY DEF Kept
  <2> QED BY <2>1, <1>1, <1>3, <1>4
<1>8. TypeInv'
  <2>1. starts' \in Nat /\ conflictC' \in Nat /\ heap' \subseteq Variables
    BY <1>1, <1>6 DEF TypeInv
  <2> QED BY <2>1, <1>1, <1>2, <1>4, <1>7 DEF TypeInv
<1>9. Watching' /\ Assigning'
  BY <1>1, <1>4, SameClauses DEF Assigning
<1>10. Walking' /\ Phases' /\ Queueing'
  BY <1>1, <1>2, <1>4, <1>6 DEF Walking, Phases, Queueing, HeapComplete
<1> QED BY <1>8, <1>9, <1>10

(* A decision opens a level. *)
LEMMA DecideKeeps ==
    ASSUME SolverInv, Decide
    PROVE  SolverInv'
<1> USE DEF SolverInv
<1>1. /\ pc = "search" /\ todo = <<>> /\ qhead = Len(trail) /\ st_confl = 0
      /\ UNCHANGED <<file, pc, cls, watches, qhead, todo, st_confl, resolvent, dep_stack, starts, conflictC,
                     model, core, cl_scheds, depcount>>
      /\ trail_lim' = Append(trail_lim, Len(trail))
  BY DEF Decide, Searching, Propagated, analysis, counters, trace
<1>2. Literals' = Literals /\ Variables' = Variables /\ ClauseRecords' = ClauseRecords /\ Id' = Id
  BY <1>1, SameFile, SameClauses
<1>3. SUFFICES ASSUME NEW x \in heap, Unassigned(x),
                      NEW passed, passed \subseteq {y \in heap : ~Unassigned(y)},
                      heap' = heap \ (passed \cup {x}),
                      trail' = Append(trail, Entry(-x, 0, decisionLevel + 1))
               PROVE  SolverInv'
  BY DEF Decide
<1> DEFINE e == Entry(-x, 0, decisionLevel + 1)
<1>4. /\ Variables \subseteq Nat \ {0} /\ x \in Variables /\ -x \in Literals /\ -(-x) = x
      /\ heap \subseteq Variables
  BY LiteralsNegate DEF TypeInv, Literals
<1>5. e \in Entries(Literals) /\ e.lit = -x /\ e.reason = 0 /\ e.level = decisionLevel + 1
  BY <1>4, TypeFacts DEF Entry, Entries
<1>6. \A k \in DOMAIN trail : trail[k].lit # e.lit /\ trail[k].lit # -e.lit
  BY <1>3, <1>4, <1>5 DEF Unassigned, True, False, TrueLits
<1> HIDE DEF e
<1>7. trail' = Append(trail, e)
  BY <1>3 DEF e
<1>8. Sound(trail', trail_lim', cls')
  BY <1>1, <1>5, <1>6, <1>7, TypeFacts, DecidedIsSound DEF Assigning, decisionLevel
<1>9. /\ trail' \in Seq(Entries(Literals)) /\ Len(trail') = Len(trail) + 1 /\ TrueLits' = TrueLits \cup {-x}
  BY <1>5, <1>7, TrailGrows
<1>10. trail_lim' \in Seq(Nat) /\ decisionLevel' = decisionLevel + 1 /\ trail_lim'[decisionLevel + 1] = Len(trail)
  BY <1>1, TypeFacts, AppendProperties DEF decisionLevel
<1>11. TypeInv'
  <2>1. qhead' \in 0..Len(trail') /\ heap' \subseteq Variables
    BY <1>1, <1>3, <1>4, <1>9, TypeFacts
  <2> QED BY <2>1, <1>1, <1>2, <1>9, <1>10 DEF TypeInv
<1>12. Watching' /\ Assigning'
  BY <1>1, <1>8, SameClauses DEF Assigning
<1>13. Walking' /\ Phases'
  BY <1>1, <1>10, TypeFacts DEF Walking, Phases
<1>14. Queueing'
  <2>1. ASSUME NEW y \in Variables, Unassigned(y)' PROVE y \in heap'
    <3>1. Unassigned(y) /\ y # x
      BY <2>1, <1>9 DEF Unassigned, True, False
    <3> QED BY <3>1, <1>1, <1>3 DEF Queueing, HeapComplete
  <2> QED BY <2>1, <1>1, <1>2 DEF Queueing, HeapComplete
<1> QED BY <1>11, <1>12, <1>13, <1>14

(* The model is kept, and everything taken back. *)
LEMMA ModelFoundKeeps ==
    ASSUME SolverInv, ModelFound
    PROVE  SolverInv'
<1> USE DEF SolverInv
<1>1. /\ pc = "search" /\ pc' = "sat" /\ todo = <<>> /\ qhead = Len(trail) /\ st_confl = 0
      /\ UNCHANGED <<file, cls, watches, todo, st_confl, resolvent, dep_stack, starts, conflictC>>
      /\ model' = TrueLits /\ trail' = Upto(0) /\ trail_lim' = LimUpto(0) /\ heap' = Undone(0)
      /\ qhead' = IF decisionLevel > 0 THEN Kept(0) ELSE qhead
  BY DEF ModelFound, Searching, Propagated, CancelLevels, LimUpto, analysis, counters
<1>2. Literals' = Literals /\ Variables' = Variables /\ ClauseRecords' = ClauseRecords /\ Id' = Id
  BY <1>1, SameFile, SameClauses
<1>3. decisionLevel \in Nat /\ 0 \in 0..decisionLevel /\ Len(trail) \in Nat
  BY TypeFacts
<1>4. /\ trail' \in Seq(Entries(Literals)) /\ trail_lim' \in Seq(Nat) /\ decisionLevel' = 0
      /\ Len(trail') = Kept(0) /\ Kept(0) \in Nat /\ Kept(0) <= Len(trail)
      /\ Sound(trail', trail_lim', cls)
  BY <1>1, <1>3, Cancelled DEF decisionLevel
<1>5. \A k \in DOMAIN Upto(0) : Upto(0)[k].lit \in TrueLits'
  BY <1>1 DEF TrueLits
<1>6. Undone(0) \subseteq Variables
  BY <1>1, <1>3, <1>5, Requeued DEF Queueing
<1>7. qhead' \in 0..Len(trail')
  <2>1. decisionLevel = 0 => Kept(0) = Len(trail)
    BY DEF Kept
  <2> QED BY <2>1, <1>1, <1>3, <1>4
<1>8. model' \subseteq Literals
  BY <1>1, TypeFacts DEF TrueLits
<1>9. TypeInv'
  BY <1>1, <1>2, <1>4, <1>6, <1>7, <1>8 DEF TypeInv
<1>10. Watching' /\ Assigning'
  BY <1>1, <1>4, SameClauses DEF Assigning
<1>11. Walking' /\ Phases' /\ Queueing'
  BY <1>1, <1>2, <1>4 DEF Walking, Phases, Queueing, HeapComplete
<1> QED BY <1>9, <1>10, <1>11

(* Two unit clauses of the file against each other. *)
LEMMA StartConflictKeeps ==
    ASSUME SolverInv, StartConflict
    PROVE  SolverInv'
<1> USE DEF SolverInv
<1>1. /\ pc = "search" /\ todo = <<>> /\ st_confl # 0 /\ pc' = "final"
      /\ resolvent' = cls[st_confl].lits /\ dep_stack' = {st_confl}
      /\ UNCHANGED <<file, cls, watches, trail, trail_lim, qhead, todo, heap, st_confl, starts, conflictC, model>>
  BY DEF StartConflict, Propagated, Conflict, solver, assigned, counters
<1>2. Literals' = Literals /\ Variables' = Variables /\ ClauseRecords' = ClauseRecords /\ Id' = Id
  BY <1>1, SameFile, SameClauses
<1>3. st_confl \in Id /\ resolvent' \subseteq Literals /\ dep_stack' \subseteq Id
  BY <1>1, TypeFacts DEF TypeInv
<1>4. decisionLevel' = decisionLevel /\ decisionLevel = 0
  BY <1>1 DEF decisionLevel, Phases
<1>5. TypeInv'
  BY <1>1, <1>2, <1>3 DEF TypeInv
<1>6. Watching' /\ Assigning'
  BY <1>1, SameClauses DEF Assigning
<1>7. Walking' /\ Phases' /\ Queueing'
  BY <1>1, <1>2, <1>4, SameTrail DEF Walking, Phases, Queueing, HeapComplete
<1> QED BY <1>5, <1>6, <1>7

(* The latest of the marked literals has a reason, whose other literals    *)
(* are false: the resolvent stays false, and in analyze the current level  *)
(* stays in it.                                                            *)
LEMMA ResolvableAtLevel ==
    ASSUME SolverInv, pc = "analyze", \A l \in AtLevel : AtLevel # {l},
           NEW k \in Marked, \A j \in Marked : j <= k
    PROVE  /\ trail[k].reason # 0
           /\ \E l \in AtLevel : l # -trail[k].lit
<1> USE DEF SolverInv
<1>1. /\ decisionLevel \in Nat /\ decisionLevel > 0 /\ AtLevel # {} /\ resolvent \subseteq Literals
      /\ \A l \in resolvent : False(l)
  BY TypeFacts DEF Phases, TypeInv
<1>2. k \in DOMAIN trail
  BY DEF Marked
<1>3. PICK l \in AtLevel : l # -trail[k].lit
  BY <1>1
<1>4. l \in resolvent /\ l \in Literals /\ False(l) /\ LevelOf(l) = decisionLevel
  BY <1>1, <1>3 DEF AtLevel
<1> DEFINE j == Place(l)
<1>5. j \in DOMAIN trail /\ trail[j].lit = -l /\ trail[j].level = decisionLevel
  BY <1>4, FalseIsPlaced
<1>6. j \in Marked
  BY <1>4, <1>5, TypeFacts DEF Marked
<1>7. j # k /\ j <= k
  BY <1>3, <1>4, <1>5, <1>6, TypeFacts
<1> HIDE DEF j
<1>8. decisionLevel \in DOMAIN trail_lim /\ trail_lim[decisionLevel] \in Nat
  BY <1>1, TypeFacts
<1>9. j > trail_lim[decisionLevel]
  BY <1>1, <1>5, <1>8 DEF Assigning, Sound, Leveled
<1>10. k > trail_lim[decisionLevel] + 1 /\ k \in Nat
  BY <1>2, <1>5, <1>7, <1>8, <1>9, TypeFacts
<1>11. trail[k].level = decisionLevel
  <2>1. trail[k].level >= decisionLevel /\ trail[k].level <= decisionLevel
    BY <1>2, <1>8, <1>10 DEF Assigning, Sound, Leveled, decisionLevel
  <2> QED BY <2>1, <1>1, <1>2, TypeFacts
<1>12. trail[k].reason = 0 => k = trail_lim[decisionLevel] + 1
  BY <1>2, <1>11 DEF Assigning, Sound, Leveled
<1> QED BY <1>3, <1>8, <1>10, <1>12

LEMMA ResolvableFinally ==
    ASSUME SolverInv, pc = "final", NEW k \in Marked
    PROVE  trail[k].reason # 0
<1> USE DEF SolverInv
<1>1. k \in DOMAIN trail /\ decisionLevel = 0
  BY DEF Marked, Phases
<1>2. trail[k].level <= 0 /\ trail[k].level \in Nat
  BY <1>1, TypeFacts DEF Assigning, Sound, Leveled, decisionLevel
<1> QED BY <1>1, <1>2 DEF Assigning, Sound, Leveled

LEMMA ResolvedKeeps ==
    ASSUME SolverInv, pc \in {"analyze", "final"},
           NEW k \in Marked, trail[k].reason # 0,
           pc = "analyze" => \E l \in AtLevel : l # -trail[k].lit,
           resolvent' = (resolvent \ {-trail[k].lit}) \cup Rest(trail[k].reason),
           dep_stack' = dep_stack \cup {trail[k].reason},
           UNCHANGED <<file, pc, solver, counters, model>>
    PROVE  SolverInv'
<1> USE DEF SolverInv
<1>1. UNCHANGED <<file, pc, cls, watches, trail, trail_lim, qhead, todo, heap, st_confl, starts, conflictC, model>>
  BY DEF solver, assigned, counters
<1>2. Literals' = Literals /\ Variables' = Variables /\ ClauseRecords' = ClauseRecords /\ Id' = Id
  BY <1>1, SameFile, SameClauses
<1> DEFINE r == trail[k].reason
<1>3. k \in DOMAIN trail /\ r \in Id /\ Explains(cls[r], trail, k)
  BY DEF Marked, Assigning, Sound, Reasoned, Id
<1>4. \A l \in Rest(r) : l \in Literals /\ False(l)
  <2>1. Rest(r) = cls[r].lits \ {trail[k].lit}
    BY <1>3 DEF Rest, Explains
  <2>2. ASSUME NEW l \in Rest(r) PROVE False(l)
    <3>1. PICK j \in 1..(k - 1) : trail[j].lit = -l
      BY <2>1, <2>2, <1>3 DEF Explains
    <3>2. j \in DOMAIN trail
      BY <3>1, <1>3, TypeFacts
    <3> QED BY <3>1, <3>2 DEF False, TrueLits
  <2> QED BY <2>1, <2>2, <1>3, TypeFacts
<1> HIDE DEF r
<1>5. resolvent' = (resolvent \ {-trail[k].lit}) \cup Rest(r) /\ dep_stack' = dep_stack \cup {r}
  BY DEF r
<1>6. resolvent' \subseteq Literals /\ dep_stack' \subseteq Id /\ \A l \in resolvent' : False(l)
  BY <1>3, <1>4, <1>5 DEF TypeInv, Phases
<1>7. pc = "analyze" => AtLevel' # {}
  <2> SUFFICES ASSUME pc = "analyze" PROVE AtLevel' # {}
    OBVIOUS
  <2>1. PICK l \in AtLevel : l # -trail[k].lit
    OBVIOUS
  <2>2. l \in resolvent' /\ LevelOf(l) = decisionLevel
    BY <2>1, <1>5 DEF AtLevel
  <2>3. LevelOf(l)' = decisionLevel'
    BY <2>2, <1>1, SameTrail DEF decisionLevel
  <2> QED BY <2>2, <2>3 DEF AtLevel
<1>8. TypeInv'
  BY <1>1, <1>2, <1>6 DEF TypeInv
<1>9. Watching' /\ Assigning'
  BY <1>1, SameClauses DEF Assigning
<1>10. Walking' /\ Queueing'
  BY <1>1, <1>2, SameTrail DEF Walking, Queueing, HeapComplete, decisionLevel, p
<1>11. Phases'
  BY <1>1, <1>2, <1>6, <1>7, SameTrail DEF Phases, decisionLevel
<1> QED BY <1>8, <1>9, <1>10, <1>11

LEMMA ResolveKeeps ==
    ASSUME SolverInv, Resolve
    PROVE  SolverInv'
<1>1. /\ pc = "analyze" /\ \A l \in AtLevel : AtLevel # {l}
      /\ UNCHANGED <<file, pc, solver, counters, model>>
  BY DEF Resolve
<1>2. SUFFICES ASSUME NEW k \in Marked, \A j \in Marked : j <= k,
                      resolvent' = (resolvent \ {-trail[k].lit}) \cup Rest(trail[k].reason),
                      dep_stack' = dep_stack \cup {trail[k].reason}
               PROVE  SolverInv'
  BY DEF Resolve, ResolveLatest
<1>3. trail[k].reason # 0 /\ \E l \in AtLevel : l # -trail[k].lit
  BY <1>1, <1>2, ResolvableAtLevel
<1> QED BY <1>1, <1>2, <1>3, ResolvedKeeps

LEMMA ResolveFinalKeeps ==
    ASSUME SolverInv, ResolveFinal
    PROVE  SolverInv'
<1>1. pc = "final" /\ UNCHANGED <<file, pc, solver, counters, model>>
  BY DEF ResolveFinal
<1>2. SUFFICES ASSUME NEW k \in Marked,
                      resolvent' = (resolvent \ {-trail[k].lit}) \cup Rest(trail[k].reason),
                      dep_stack' = dep_stack \cup {trail[k].reason}
               PROVE  SolverInv'
  BY DEF ResolveFinal, ResolveLatest
<1>3. trail[k].reason # 0
  BY <1>1, <1>2, ResolvableFinally
<1> QED BY <1>1, <1>2, <1>3, ResolvedKeeps

-----------------------------------------------------------------------------
(* Clauses that join. *)
LEMMA JoinKeeps ==
    ASSUME TypeInv, NEW r \in ClauseRecords, cls' = Append(cls, r),
           NEW t, NEW lim, Sound(t, lim, cls)
    PROVE  /\ Id' = Id \cup {Len(cls) + 1} /\ Len(cls') = Len(cls) + 1 /\ cls'[Len(cls) + 1] = r
           /\ Len(cls) + 1 \notin Id
           /\ \A c \in Id : cls'[c] = cls[c]
           /\ Sound(t, lim, cls')
<1>1. cls \in Seq(ClauseRecords) /\ Id = 1..Len(cls) /\ Len(cls) \in Nat
  BY LenProperties DEF TypeInv, Id
<1>2. /\ cls' \in Seq(ClauseRecords) /\ Len(cls') = Len(cls) + 1 /\ cls'[Len(cls) + 1] = r
      /\ \A c \in 1..Len(cls) : cls'[c] = cls[c]
  BY <1>1, AppendProperties
<1>3. DOMAIN cls' = 1..(Len(cls) + 1)
  BY <1>2, LenProperties
<1>4. Id' = Id \cup {Len(cls) + 1} /\ Len(cls) + 1 \notin Id
  BY <1>1, <1>3 DEF Id
<1>5. Sound(t, lim, cls')
  BY <1>1, <1>2, <1>4 DEF Sound, Reasoned, Id
<1> QED BY <1>1, <1>2, <1>4, <1>5

(* The clause learnt asserts the literal that is left at the level of the  *)
(* others: they stay false, and it is no longer.                           *)
LEMMA LearnKeeps ==
    ASSUME SolverInv, Learn
    PROVE  SolverInv'
<1> USE DEF SolverInv
<1>1. /\ pc = "analyze" /\ pc' = "search" /\ resolvent' = {} /\ dep_stack' = {} /\ conflictC' = conflictC + 1
      /\ UNCHANGED <<file, todo, st_confl, starts, model>>
  BY DEF Learn
<1>2. SUFFICES ASSUME NEW l \in AtLevel, NEW level \in 0..decisionLevel,
                      AtLevel = {l}, IsLevelOf(resolvent \ {l}, level),
                      NEW watch \in LearntWatches(l, resolvent \ {l}),
                      cls' = Append(cls, Clause(resolvent, watch, dep_stack)),
                      watches' = WatchedBy(Len(cls) + 1, watch),
                      trail' = Append(Upto(level), Entry(l, Len(cls) + 1, level)),
                      CancelLevels(level),
                      heap' = heap \cup Undone(level)
               PROVE  SolverInv'
  BY DEF Learn
<1> DEFINE n == Len(cls) + 1
           r == Clause(resolvent, watch, dep_stack)
           e == Entry(l, n, level)
           u == Upto(level)
<1>3. /\ decisionLevel \in Nat /\ decisionLevel > 0 /\ level \in Nat /\ n \in Nat /\ n # 0
      /\ resolvent \subseteq Literals /\ dep_stack \subseteq Nat /\ st_confl = 0 /\ todo = <<>>
      /\ l \in resolvent /\ LevelOf(l) = decisionLevel
      /\ \A m \in resolvent : False(m) /\ (m # l => LevelOf(m) # decisionLevel)
  <2>1. decisionLevel \in Nat /\ decisionLevel > 0 /\ level \in Nat /\ n \in Nat /\ n # 0
    BY <1>1, TypeFacts DEF Phases
  <2>2. resolvent \subseteq Literals /\ dep_stack \subseteq Nat
    BY TypeFacts DEF TypeInv
  <2>3. st_confl = 0 /\ todo = <<>> /\ \A m \in resolvent : False(m)
    BY <1>1, <2>1 DEF Phases, Walking
  <2>4. l \in resolvent /\ LevelOf(l) = decisionLevel /\ \A m \in resolvent : m # l => LevelOf(m) # decisionLevel
    BY <1>2 DEF AtLevel
  <2> QED BY <2>1, <2>2, <2>3, <2>4
<1>4. /\ Literals' = Literals /\ Variables' = Variables /\ ClauseRecords' = ClauseRecords
  BY <1>1, SameFile
<1>5. level < decisionLevel
  BY <1>2, <1>3 DEF IsLevelOf
<1>6. /\ u \in Seq(Entries(Literals)) /\ LimUpto(level) \in Seq(Nat)
      /\ Len(u) = Kept(level) /\ Kept(level) \in Nat /\ Kept(level) <= Len(trail)
      /\ Len(LimUpto(level)) = level
      /\ DOMAIN u = 1..Kept(level)
      /\ \A k \in DOMAIN u : k \in DOMAIN trail /\ u[k] = trail[k]
      /\ \A k \in DOMAIN trail : k <= Kept(level) <=> trail[k].level <= level
      /\ Sound(u, LimUpto(level), cls)
  BY Cancelled
<1> HIDE DEF u
<1>7. trail_lim' = LimUpto(level) /\ qhead' = Kept(level) /\ decisionLevel' = level
  BY <1>2, <1>5, <1>6 DEF CancelLevels, LimUpto, decisionLevel
<1>8. /\ watch \in Seq(Literals) /\ Len(watch) > 0 /\ watch[1] = l /\ Len(watch) <= 2
      /\ Range(watch) \subseteq resolvent /\ (Len(watch) = 2 => watch[1] # watch[2])
  <2>1. CASE resolvent \ {l} = {}
    <3>1. watch = <<l>>
      BY <2>1, <1>2 DEF LearntWatches
    <3> QED BY <3>1, <1>3 DEF Range
  <2>2. CASE resolvent \ {l} # {}
    <3>1. PICK m \in resolvent \ {l} : watch = <<l, m>>
      BY <2>2, <1>2 DEF LearntWatches, LatestOf
    <3> QED BY <3>1, <1>3 DEF Range
  <2> QED BY <2>1, <2>2
<1>9. r \in ClauseRecords /\ r.lits = resolvent /\ r.watch = watch /\ WellWatched(r)
  BY <1>3, <1>8 DEF Clause, ClauseRecords, WellWatched
<1>10. /\ cls' \in Seq(ClauseRecords') /\ watches' \in [Literals' -> Seq(Nat)]
       /\ Watching'
  BY <1>1, <1>2, <1>3, <1>8, <1>9, JoinedIsWatched
<1>11. e \in Entries(Literals) /\ e.lit = l /\ e.reason = n /\ e.level = level
  BY <1>3 DEF Entry, Entries
<1> HIDE DEF r, e
<1>12. cls' = Append(cls, r) /\ trail' = Append(u, e)
  BY <1>2 DEF r, e, u
<1>13. /\ Id' = Id \cup {n} /\ Len(cls') = n /\ cls'[n] = r /\ Sound(u, LimUpto(level), cls')
  BY <1>6, <1>9, <1>12, JoinKeeps
<1>14. \A k \in DOMAIN u : u[k].lit # l /\ u[k].lit # -l
  <2> SUFFICES ASSUME NEW k \in DOMAIN u PROVE u[k].lit # l /\ u[k].lit # -l
    OBVIOUS
  <2>1. Place(l) \in DOMAIN trail /\ trail[Place(l)].lit = -l /\ trail[Place(l)].level = decisionLevel
    BY <1>3, FalseIsPlaced
  <2>2. ~(Place(l) <= Kept(level)) /\ k <= Kept(level) /\ k \in DOMAIN trail /\ u[k] = trail[k]
    BY <2>1, <1>3, <1>5, <1>6
  <2>3. k # Place(l)
    BY <2>2
  <2>4. trail[Place(l)].lit # trail[k].lit /\ trail[Place(l)].lit # -trail[k].lit
    BY <2>1, <2>2, <2>3 DEF Assigning, Sound, Distinct
  <2> QED BY <2>1, <2>2, <2>4
<1>15. \A m \in r.lits \ {l} : \E j \in DOMAIN u : u[j].lit = -m
  <2> SUFFICES ASSUME NEW m \in resolvent, m # l PROVE \E j \in DOMAIN u : u[j].lit = -m
    BY <1>9
  <2>1. /\ Place(m) \in DOMAIN trail /\ trail[Place(m)].lit = -m /\ trail[Place(m)].level = LevelOf(m)
    BY <1>3, FalseIsPlaced
  <2>2. LevelOf(m) <= level
    BY <1>2 DEF IsLevelOf
  <2>3. Place(m) \in DOMAIN u
    BY <2>1, <2>2, <1>6, TypeFacts
  <2> QED BY <2>1, <2>3, <1>6
<1>16. Sound(trail', trail_lim', cls')
  <2>1. /\ Literals \subseteq Int \ {0} /\ e.level = Len(LimUpto(level)) /\ e.reason # 0 /\ e.reason \in DOMAIN cls'
        /\ cls'[e.reason] = r /\ Len(r.watch) > 0 /\ r.watch[1] = e.lit
    BY <1>3, <1>6, <1>8, <1>9, <1>11, <1>13, TypeFacts DEF Id
  <2> QED BY <2>1, <1>6, <1>7, <1>11, <1>12, <1>13, <1>14, <1>15, ForcedIsSound
<1>17. /\ trail' \in Seq(Entries(Literals)) /\ Len(trail') = Kept(level) + 1
       /\ \A k \in DOMAIN u : trail'[k] = u[k]
       /\ DOMAIN trail' = 1..(Kept(level) + 1)
  BY <1>6, <1>11, <1>12, AppendProperties, LenProperties
<1>18. \A k \in DOMAIN u : u[k].lit \in TrueLits'
  <2>1. \A k \in DOMAIN u : k \in DOMAIN trail'
    BY <1>6, <1>17
  <2> QED BY <2>1, <1>17 DEF TrueLits
<1>19. Undone(level) \subseteq Variables /\ \A x \in Variables : Unassigned(x)' => x \in heap'
  BY <1>1, <1>2, <1>18, Requeued DEF Queueing, u
<1>20. TypeInv'
  <2>1. qhead' \in 0..Len(trail') /\ trail_lim' \in Seq(Nat)
    BY <1>6, <1>7, <1>17
  <2>2. heap' \subseteq Variables /\ conflictC' \in Nat
    BY <1>1, <1>2, <1>19 DEF TypeInv
  <2> QED BY <2>1, <2>2, <1>1, <1>3, <1>4, <1>10, <1>17 DEF TypeInv
<1>21. Assigning'
  BY <1>16 DEF Assigning
<1>22. Walking'
  <2>1. level > 0 => Kept(level) >= LimUpto(level)[level]
    BY <1>3, <1>6, LenProperties DEF Sound, Leveled
  <2> QED BY <2>1, <1>1, <1>3, <1>7 DEF Walking
<1>23. Phases'
  <2>1. Len(cls') >= Len(file')
    BY <1>1, <1>13, TypeFacts DEF Phases
  <2> QED BY <2>1, <1>1, <1>3 DEF Phases
<1>24. Queueing'
  BY <1>1, <1>4, <1>19 DEF Queueing, HeapComplete
<1> QED BY <1>10, <1>20, <1>21, <1>22, <1>23, <1>24

(* The empty clause is watched by nothing. *)
LEMMA EndTraceKeeps ==
    ASSUME SolverInv, EndTrace
    PROVE  SolverInv'
<1> USE DEF SolverInv
<1> DEFINE r == Clause({}, <<>>, dep_stack)
<1>1. /\ pc = "final" /\ pc' = "count" /\ resolvent = {} /\ dep_stack' = {} /\ cls' = Append(cls, r)
      /\ UNCHANGED <<file, watches, trail, trail_lim, qhead, todo, heap, st_confl, resolvent, starts, conflictC, model>>
  BY DEF EndTrace, assigned, counters
<1>2. /\ Literals' = Literals /\ Variables' = Variables /\ ClauseRecords' = ClauseRecords
  BY <1>1, SameFile
<1>3. dep_stack \subseteq Nat
  BY TypeFacts DEF TypeInv
<1>4. <<>> \in Seq(Literals) /\ Len(<<>>) = 0 /\ Range(<<>>) = {}
  BY DEF Range
<1>5. r \in ClauseRecords /\ WellWatched(r)
  BY <1>3, <1>4 DEF Clause, ClauseRecords, WellWatched
<1>6. watches' = WatchedBy(Len(cls) + 1, <<>>)
  BY <1>1, <1>4 DEF WatchedBy, TypeInv
<1>7. /\ cls' \in Seq(ClauseRecords') /\ Watching'
  BY <1>1, <1>3, <1>4, <1>5, <1>6, JoinedIsWatched
<1> HIDE DEF r
<1>8. /\ Id' = Id \cup {Len(cls) + 1} /\ Len(cls') = Len(cls) + 1 /\ \A c \in Id : cls'[c] = cls[c]
      /\ Sound(trail, trail_lim, cls')
  BY <1>1, <1>5, JoinKeeps DEF Assigning
<1>9. TypeInv'
  BY <1>1, <1>2, <1>7, <1>8 DEF TypeInv
<1>10. Assigning'
  BY <1>1, <1>8 DEF Assigning
<1>11. Walking' /\ Queueing'
  BY <1>1, <1>2 DEF Walking, Queueing, HeapComplete, decisionLevel
<1>12. Phases'
  <2>1. Len(cls') >= Len(file')
    BY <1>1, <1>8, TypeFacts DEF Phases
  <2>2. st_confl # 0 => \A l \in cls'[st_confl].lits : False(l)'
    BY <1>1, <1>8, SameTrail DEF Phases, TypeInv
  <2> QED BY <2>1, <2>2, <1>1 DEF Phases, decisionLevel
<1> QED BY <1>7, <1>9, <1>10, <1>11, <1>12

(* A clause that is not empty has a first literal. *)
LEMMA LeastIsIn ==
    ASSUME NEW lits, lits \subseteq Int \ {0}, lits # {}
    PROVE  least(lits) \in lits
<1> DEFINE T == {index(l) : l \in lits}
<1>1. \A l \in lits : index(l) \in Nat
  BY DEF index, VarOf
<1>2. T \subseteq Nat /\ T # {}
  BY <1>1
<1>3. PICK x \in T : \A y \in T : x <= y
  BY <1>2, LeastNatural
<1>4. PICK l \in lits : x = index(l)
  BY <1>3
<1>5. \A m \in lits : index(l) <= index(m)
  BY <1>3, <1>4
<1> QED BY <1>5 DEF least

LEMMA WatchedIsWell ==
    ASSUME TypeInv, NEW lits, lits \subseteq Literals, lits # {}, NEW deps
    PROVE  /\ least(lits) \in lits
           /\ Watched(lits) \in Seq(Literals)
           /\ Len(Watched(lits)) > 0 /\ Watched(lits)[1] = least(lits)
           /\ WellWatched(Clause(lits, Watched(lits), deps))
<1>1. Literals \subseteq Int \ {0}
  BY TypeFacts
<1>2. least(lits) \in lits
  BY <1>1, LeastIsIn
<1>3. CASE IsUnit(lits)
  <2>1. Watched(lits) = <<least(lits)>>
    BY <1>3 DEF Watched
  <2> QED BY <2>1, <1>2 DEF WellWatched, Clause, Range
<1>4. CASE ~IsUnit(lits)
  <2>1. lits \ {least(lits)} # {}
    BY <1>2, <1>4 DEF IsUnit
  <2> DEFINE m == least(lits \ {least(lits)})
  <2>2. m \in lits /\ m # least(lits)
    BY <2>1, <1>1, LeastIsIn
  <2>3. Watched(lits) = <<least(lits), m>>
    BY <1>4 DEF Watched
  <2> QED BY <2>2, <2>3, <1>2 DEF WellWatched, Clause, Range
<1> QED BY <1>3, <1>4

LEMMA AddClauseKeeps ==
    ASSUME SolverInv, add_clause
    PROVE  SolverInv'
<1> USE DEF SolverInv
<1> DEFINE c == Len(cls) + 1
           lits == file[c]
           unit == least(lits)
           r == Clause(lits, Watched(lits), {})
           e == Entry(unit, c, 0)
<1>1. /\ pc = "parse" /\ Len(cls) < Len(file)
      /\ cls' = Append(cls, r) /\ watches' = WatchedBy(c, Watched(lits)) /\ heap' = newVars(lits)
      /\ trail' = (IF IsUnit(lits) /\ Unassigned(unit) THEN Append(trail, e) ELSE trail)
      /\ st_confl' = (IF IsUnit(lits) /\ False(unit) THEN c ELSE st_confl)
      /\ UNCHANGED <<file, pc, trail_lim, qhead, todo, resolvent, dep_stack, starts, conflictC, model>>
  BY DEF add_clause, analysis, counters
<1>2. /\ Literals' = Literals /\ Variables' = Variables /\ ClauseRecords' = ClauseRecords
  BY <1>1, SameFile
<1>3. /\ c \in DOMAIN file /\ c # 0 /\ c \in Nat /\ lits \subseteq Literals /\ lits # {}
      /\ decisionLevel = 0 /\ qhead = 0 /\ decisionLevel' = 0 /\ Len(cls) + 1 <= Len(file)
  BY <1>1, TypeFacts DEF Phases, decisionLevel
<1>4. /\ unit \in lits /\ Watched(lits) \in Seq(Literals) /\ WellWatched(r)
      /\ Len(Watched(lits)) > 0 /\ Watched(lits)[1] = unit
  BY <1>3, WatchedIsWell
<1>5. r \in ClauseRecords /\ r.lits = lits /\ r.watch = Watched(lits)
  BY <1>3, <1>4 DEF Clause, ClauseRecords
<1>6. /\ cls' \in Seq(ClauseRecords') /\ watches' \in [Literals' -> Seq(Nat)]
      /\ Watching'
  <2>1. lits \in SUBSET Literals /\ {} \in SUBSET Nat /\ UNCHANGED file
    BY <1>1, <1>3
  <2> QED BY <2>1, <1>1, <1>4, JoinedIsWatched
<1>7. e \in Entries(Literals) /\ e.lit = unit /\ e.reason = c /\ e.level = 0
  BY <1>3, <1>4 DEF Entry, Entries
<1> HIDE DEF r, e
<1>8. /\ Id' = Id \cup {c} /\ Len(cls') = c /\ cls'[c] = r /\ \A d \in Id : cls'[d] = cls[d]
      /\ Sound(trail, trail_lim, cls')
  BY <1>1, <1>5, JoinKeeps DEF Assigning
<1> HIDE DEF c, lits, unit
<1>9. /\ trail' \in Seq(Entries(Literals)) /\ \A m : False(m) => False(m)'
      /\ Sound(trail', trail_lim, cls') /\ Len(trail') \in Nat
  <2>1. CASE IsUnit(lits) /\ Unassigned(unit)
    <3>1. trail' = Append(trail, e)
      BY <2>1, <1>1
    <3>2. \A k \in DOMAIN trail : trail[k].lit # e.lit /\ trail[k].lit # -e.lit
      BY <2>1, <1>7 DEF Unassigned, True, False, TrueLits
    <3>3. lits = {unit}
      BY <2>1 DEF IsUnit, unit
    <3>4. /\ Literals \subseteq Int \ {0} /\ e.level = Len(trail_lim) /\ e.reason # 0 /\ e.reason \in DOMAIN cls'
          /\ Len(cls'[e.reason].watch) > 0 /\ cls'[e.reason].watch[1] = e.lit
          /\ \A m \in cls'[e.reason].lits \ {e.lit} : \E j \in DOMAIN trail : trail[j].lit = -m
      BY <3>3, <1>3, <1>4, <1>5, <1>7, <1>8, TypeFacts DEF Id, decisionLevel
    <3>5. Sound(trail', trail_lim, cls')
      BY <3>1, <3>2, <3>4, <1>7, <1>8, TypeFacts, ForcedIsSound
    <3> QED BY <3>1, <3>5, <1>7, TrailGrows, LenProperties
  <2>2. CASE ~(IsUnit(lits) /\ Unassigned(unit))
    BY <2>2, <1>1, <1>8, SameTrail, TypeFacts
  <2> QED BY <2>1, <2>2
<1>10. heap' \subseteq Variables /\ heap \subseteq heap' /\ \A l \in lits : 1..VarOf(l) \subseteq heap'
  <2>1. \A l \in lits : 1..VarOf(l) \subseteq Variables
    BY <1>3 DEF Variables, lits, Range
  <2> QED BY <2>1, <1>1 DEF newVars, TypeInv
<1>11. TypeInv'
  <2>1. qhead' \in 0..Len(trail') /\ st_confl' \in Id' \cup {0}
    BY <1>1, <1>3, <1>8, <1>9 DEF TypeInv
  <2>2. dep_stack' \subseteq Id'
    BY <1>1, <1>8 DEF TypeInv
  <2> QED BY <2>1, <2>2, <1>1, <1>2, <1>6, <1>9, <1>10 DEF TypeInv
<1>12. Assigning'
  BY <1>1, <1>9 DEF Assigning
<1>13. Walking'
  BY <1>1, <1>3 DEF Walking
<1>14. Phases'
  <2>1. ASSUME st_confl' # 0, NEW m \in cls'[st_confl'].lits PROVE False(m)'
    <3>1. CASE IsUnit(lits) /\ False(unit)
      <4>1. st_confl' = c /\ lits = {unit}
        BY <3>1, <1>1 DEF IsUnit, unit
      <4> QED BY <4>1, <3>1, <2>1, <1>5, <1>8, <1>9
    <3>2. CASE ~(IsUnit(lits) /\ False(unit))
      <4>1. st_confl' = st_confl /\ st_confl \in Id
        BY <3>2, <2>1, <1>1 DEF TypeInv
      <4> QED BY <4>1, <2>1, <1>8, <1>9 DEF Phases
    <3> QED BY <3>1, <3>2
  <2>2. Len(cls') <= Len(file')
    BY <1>1, <1>3, <1>8 DEF c
  <2> QED BY <2>1, <2>2, <1>1, <1>3 DEF Phases
<1>15. Queueing'
  <2>1. 1 \in heap'
    BY <1>1, <1>10 DEF Queueing
  <2>2. ASSUME NEW k \in Id', NEW l \in file'[k] PROVE 1..VarOf(l) \subseteq heap'
    <3>1. CASE k = c
      BY <3>1, <2>2, <1>1, <1>10 DEF lits
    <3>2. CASE k \in Id
      BY <3>2, <2>2, <1>1, <1>10 DEF Queueing
    <3> QED BY <3>1, <3>2, <1>8
  <2> QED BY <2>1, <2>2, <1>1 DEF Queueing, HeapComplete
<1> QED BY <1>6, <1>11, <1>12, <1>13, <1>14, <1>15

LEMMA SolveKeeps ==
    ASSUME SolverInv, solve
    PROVE  SolverInv'
<1> USE DEF SolverInv
<1>1. /\ pc = "parse" /\ Len(cls) = Len(file) /\ pc' = "search"
      /\ UNCHANGED <<file, cls, watches, trail, trail_lim, qhead, todo, heap, st_confl, resolvent, dep_stack,
                     starts, conflictC, model>>
  BY DEF solve, solver, assigned, analysis, counters
<1>2. /\ Literals' = Literals /\ Variables' = Variables /\ ClauseRecords' = ClauseRecords /\ Id' = Id
  BY <1>1, SameFile, SameClauses
<1>3. \A x \in Variables : x \in heap
  <2> SUFFICES ASSUME NEW x \in Variables, x # 1 PROVE x \in heap
    BY <1>1 DEF Queueing
  <2>1. PICK l \in UNION Range(file) : x \in 1..VarOf(l)
    BY DEF Variables
  <2>2. PICK k \in DOMAIN file : l \in file[k]
    BY <2>1 DEF Range
  <2>3. k \in Id
    BY <2>2, <1>1, TypeFacts
  <2> QED BY <2>1, <2>2, <2>3, <1>1 DEF Queueing
<1>4. TypeInv' /\ Watching' /\ Assigning'
  BY <1>1, <1>2, SameClauses DEF TypeInv, Assigning
<1>5. Walking'
  BY <1>1 DEF Walking, decisionLevel, p
<1>6. Phases'
  <2>1. Len(cls') >= Len(file')
    BY <1>1, TypeFacts
  <2> QED BY <2>1, <1>1, SameTrail DEF Phases, decisionLevel
<1>7. Queueing'
  BY <1>1, <1>2, <1>3 DEF Queueing, HeapComplete
<1> QED BY <1>4, <1>5, <1>6, <1>7

(* The walk over the trace leaves the solver alone. *)
LEMMA WalkKeepsSolver ==
    ASSUME SolverInv, Core
    PROVE  SolverInv'
<1> USE DEF SolverInv
<1>1. /\ pc \in {"count", "traverse"} /\ pc' \in {"count", "traverse", "unsat"}
      /\ UNCHANGED <<file, cls, watches, trail, trail_lim, qhead, todo, heap, st_confl, resolvent, dep_stack,
                     starts, conflictC, model>>
  BY DEF Core, compute_dep_counts, begin_traversal, next_cl2traverse, end_traversal,
         solver, assigned, analysis, counters
<1>2. /\ Literals' = Literals /\ Variables' = Variables /\ ClauseRecords' = ClauseRecords /\ Id' = Id
  BY <1>1, SameFile, SameClauses
<1>3. TypeInv' /\ Watching' /\ Assigning'
  BY <1>1, <1>2, SameClauses DEF TypeInv, Assigning
<1>4. Walking' /\ Phases' /\ Queueing'
  BY <1>1, <1>2, SameTrail DEF Walking, Phases, Queueing, HeapComplete, decisionLevel
<1> QED BY <1>3, <1>4

LEMMA SolverInit ==
    ASSUME Init
    PROVE  SolverInv
<1>1. /\ file \in Files /\ pc = "parse" /\ cls = <<>> /\ watches = [l \in Literals |-> <<>>]
      /\ trail = <<>> /\ trail_lim = <<>> /\ qhead = 0 /\ todo = <<>> /\ heap = {1} /\ st_confl = 0
      /\ resolvent = {} /\ dep_stack = {} /\ starts = 0 /\ conflictC = 0 /\ model = {}
  BY DEF Init
<1>2. <<>> \in Seq(Nat) /\ Len(<<>>) = 0 /\ DOMAIN <<>> = {} /\ Range(<<>>) = {}
  BY DEF Range
<1>3. 1 \in Variables /\ Id = {} /\ decisionLevel = 0
  BY <1>1, <1>2 DEF Variables, Id, decisionLevel
<1>4. TypeInv
  BY <1>1, <1>2, <1>3 DEF TypeInv
<1>5. Watching
  BY <1>1, <1>2, <1>3 DEF Watching, WatchesAgree, IsInjective
<1>6. Assigning
  BY <1>1, <1>2 DEF Assigning, Sound, Distinct, Leveled, Reasoned
<1>7. Walking /\ Queueing
  BY <1>1, <1>3 DEF Walking, Queueing, HeapComplete
<1>8. Phases
  BY <1>1, <1>2, <1>3, <1>4, TypeFacts DEF Phases
<1> QED BY <1>4, <1>5, <1>6, <1>7, <1>8 DEF SolverInv

LEMMA SolverStutters ==
    ASSUME SolverInv, UNCHANGED vars
    PROVE  SolverInv'
<1> USE DEF SolverInv
<1>1. UNCHANGED <<file, pc, cls, watches, trail, trail_lim, qhead, todo, heap, st_confl, resolvent, dep_stack,
                  starts, conflictC, model>>
  BY DEF vars, solver, assigned, analysis, counters
<1>2. /\ Literals' = Literals /\ Variables' = Variables /\ ClauseRecords' = ClauseRecords /\ Id' = Id
  BY <1>1, SameFile, SameClauses
<1>3. TypeInv' /\ Watching' /\ Assigning'
  BY <1>1, <1>2, SameClauses DEF TypeInv, Assigning
<1>4. Walking'
  BY <1>1 DEF Walking, decisionLevel, p
<1>5. Phases'
  <2>1. AtLevel' = AtLevel
    BY <1>1, SameTrail DEF AtLevel, decisionLevel
  <2> QED BY <2>1, <1>1, SameTrail DEF Phases, decisionLevel
<1>6. Queueing'
  BY <1>1, <1>2, SameTrail DEF Queueing, HeapComplete
<1> QED BY <1>3, <1>4, <1>5, <1>6

LEMMA SolverStays ==
    ASSUME SolverInv, [Next]_vars
    PROVE  SolverInv'
<1>1. CASE Parsing
  BY <1>1, AddClauseKeeps, SolveKeeps DEF Parsing
<1>2. CASE Search
  BY <1>2, DequeueKeeps, VisitKeeps, StartConflictKeeps, RestartKeeps, DecideKeeps, ModelFoundKeeps DEF Search
<1>3. CASE Analysis
  BY <1>3, ResolveKeeps, LearnKeeps, ResolveFinalKeeps, EndTraceKeeps DEF Analysis
<1>4. CASE Core
  BY <1>4, WalkKeepsSolver
<1>5. CASE UNCHANGED vars
  BY <1>5, SolverStutters
<1> QED BY <1>1, <1>2, <1>3, <1>4, <1>5 DEF Next

-----------------------------------------------------------------------------
(* What the trace says. *)
Follows(cs, ids, lits) ==
    \A true : (\A d \in ids : Satisfies(true, cs[d].lits)) => Satisfies(true, lits)

(* A clause of the file is as it was read; one that was learnt follows     *)
(* from clauses before it.                                                 *)
Traced(cs) ==
    \A c \in DOMAIN cs :
        /\ learnt(c) => cs[c].deps \subseteq 1..(c - 1) /\ Follows(cs, cs[c].deps, cs[c].lits)
        /\ ~learnt(c) => cs[c].deps = {} /\ cs[c].lits = file[c]

TraceInv ==
    /\ Traced(cls)
    /\ pc \in {"analyze", "final"} => Follows(cls, dep_stack, resolvent)
    /\ pc \in {"count", "traverse", "unsat"} => learnt(Len(cls)) /\ cls[Len(cls)].lits = {}

(* Of two clauses that hold, one with a literal and one with its negation, *)
(* the rest holds together.                                                *)
LEMMA Resolution ==
    ASSUME NEW l \in Int \ {0}, NEW a, NEW b, NEW true,
           Satisfies(true, a), Satisfies(true, b)
    PROVE  Satisfies(true, (a \ {-l}) \cup (b \ {l}))
<1>1. ~(Holds(l, true) /\ Holds(-l, true))
  BY DEF Holds
<1>2. PICK m \in a : Holds(m, true)
  BY DEF Satisfies
<1>3. PICK n \in b : Holds(n, true)
  BY DEF Satisfies
<1>4. m # -l \/ n # l
  BY <1>1, <1>2, <1>3
<1> QED BY <1>2, <1>3, <1>4 DEF Satisfies

(* The literals and the names of the clauses stay. *)
LEMMA TraceStays ==
    ASSUME Traced(cls), UNCHANGED file, Id' = Id,
           \A c \in Id : cls'[c].lits = cls[c].lits /\ cls'[c].deps = cls[c].deps,
           Id = 1..Len(cls), Len(cls) \in Nat
    PROVE  /\ Traced(cls)'
           /\ \A ids \in SUBSET Id : \A lits : Follows(cls, ids, lits) => Follows(cls', ids, lits)
<1>1. \A ids \in SUBSET Id : \A lits : Follows(cls, ids, lits) => Follows(cls', ids, lits)
  BY DEF Follows
<1>2. \A c : learnt(c)' = learnt(c)
  BY DEF learnt
<1>3. ASSUME NEW c \in Id
      PROVE  /\ learnt(c)' => cls'[c].deps \subseteq 1..(c - 1) /\ Follows(cls', cls'[c].deps, cls'[c].lits)
             /\ ~learnt(c)' => cls'[c].deps = {} /\ cls'[c].lits = file'[c]
  <2>1. CASE learnt(c)
    <3>1. cls[c].deps \subseteq 1..(c - 1) /\ Follows(cls, cls[c].deps, cls[c].lits)
      BY <2>1 DEF Traced, Id
    <3>2. cls[c].deps \subseteq Id
      BY <3>1
    <3> QED BY <2>1, <3>1, <3>2, <1>1, <1>2
  <2>2. CASE ~learnt(c)
    BY <2>2, <1>2 DEF Traced, Id
  <2> QED BY <2>1, <2>2
<1> QED BY <1>1, <1>3 DEF Traced, Id

(* A clause that joins, read or learnt. *)
LEMMA TraceGrows ==
    ASSUME Traced(cls), UNCHANGED file, Id = 1..Len(cls), Len(cls) \in Nat,
           NEW n, n = Len(cls) + 1, Id' = Id \cup {n},
           \A c \in Id : cls'[c] = cls[c],
           learnt(n) => cls'[n].deps \subseteq Id /\ Follows(cls, cls'[n].deps, cls'[n].lits),
           ~learnt(n) => cls'[n].deps = {} /\ cls'[n].lits = file[n]
    PROVE  Traced(cls)'
<1>1. \A ids \in SUBSET Id : \A lits : Follows(cls, ids, lits) => Follows(cls', ids, lits)
  BY DEF Follows
<1>2. \A c : learnt(c)' = learnt(c)
  BY DEF learnt
<1>3. ASSUME NEW c \in Id'
      PROVE  /\ learnt(c)' => cls'[c].deps \subseteq 1..(c - 1) /\ Follows(cls', cls'[c].deps, cls'[c].lits)
             /\ ~learnt(c)' => cls'[c].deps = {} /\ cls'[c].lits = file'[c]
  <2>1. CASE c \in Id /\ learnt(c)
    <3>1. cls[c].deps \subseteq 1..(c - 1) /\ Follows(cls, cls[c].deps, cls[c].lits)
      BY <2>1 DEF Traced, Id
    <3>2. cls[c].deps \subseteq Id
      BY <2>1, <3>1
    <3> QED BY <2>1, <3>1, <3>2, <1>1, <1>2
  <2>2. CASE c \in Id /\ ~learnt(c)
    BY <2>2, <1>2 DEF Traced, Id
  <2>3. CASE c = n /\ learnt(n)
    <3>1. cls'[n].deps \subseteq Id /\ Follows(cls', cls'[n].deps, cls'[n].lits)
      BY <2>3, <1>1
    <3>2. Id = 1..(n - 1)
      OBVIOUS
    <3> QED BY <2>3, <3>1, <3>2, <1>2
  <2>4. CASE c = n /\ ~learnt(n)
    BY <2>4, <1>2
  <2>5. c \in Id \/ c = n
    BY ONLY <1>3, Id' = Id \cup {n}, Zenon
  <2>6. CASE c \in Id
    BY ONLY <2>6, <2>1, <2>2, Zenon
  <2>7. CASE c = n
    BY ONLY <2>7, <2>3, <2>4, Zenon
  <2> QED BY ONLY <2>5, <2>6, <2>7, Zenon
<1> QED BY <1>3 DEF Traced, Id

(* The clauses stay, and what is resolved still follows. *)
LEMMA TraceUntouched ==
    ASSUME SolverInv, TraceInv, UNCHANGED <<file, cls>>,
           pc' \in {"analyze", "final"} => Follows(cls, dep_stack', resolvent'),
           pc' \in {"count", "traverse", "unsat"} => pc \in {"count", "traverse", "unsat"}
    PROVE  TraceInv'
<1>1. \A c : learnt(c)' = learnt(c)
  BY DEF learnt
<1>2. Traced(cls)'
  BY <1>1 DEF TraceInv, Traced, Follows
<1>3. pc' \in {"analyze", "final"} => Follows(cls', dep_stack', resolvent')
  OBVIOUS
<1>4. pc' \in {"count", "traverse", "unsat"} => learnt(Len(cls))' /\ cls'[Len(cls')].lits = {}
  BY <1>1 DEF TraceInv
<1> QED BY <1>2, <1>3, <1>4 DEF TraceInv

LEMMA VisitTraced ==
    ASSUME SolverInv, TraceInv, Visit
    PROVE  TraceInv'
<1>1. pc = "search" /\ todo # <<>> /\ UNCHANGED file
  BY DEF Visit
<1> DEFINE c == Head(todo)
<1>2. WatchTrue(c) \/ FoundWatch(c) \/ Unit(c) \/ Contradicted(c)
  BY DEF Visit
<1>3. c \in Id /\ -p \in cls[c].lits /\ first(c) # -p
  BY <1>1, AtHand DEF SolverInv
<1>4. c = Head(todo)
  OBVIOUS
<1> HIDE DEF c
<1>5. SUFFICES ASSUME NEW l \in cls[c].lits, l # first(c), cls' = Rewatched(c, l)
               PROVE  TraceInv'
  BY <1>2, <1>3 DEF FoundWatch, NewWatches, WatchTrue, Unit, Contradicted
<1>6. Id' = Id /\ \A d \in Id : cls'[d].lits = cls[d].lits /\ cls'[d].deps = cls[d].deps
  BY <1>1, <1>4, <1>5, RewatchedKeeps DEF SolverInv
<1>7. Id = 1..Len(cls) /\ Len(cls) \in Nat
  BY TypeFacts DEF SolverInv
<1>8. Traced(cls)'
  BY <1>1, <1>6, <1>7, TraceStays DEF TraceInv
<1>9. CASE Contradicted(c)
  <2>1. pc' \in {"analyze", "final"} /\ resolvent' = cls[c].lits /\ dep_stack' = {c}
    BY <1>9 DEF Contradicted, Conflict
  <2>2. Follows(cls', dep_stack', resolvent')
    BY <2>1, <1>3, <1>6 DEF Follows
  <2> QED BY <2>1, <2>2, <1>8 DEF TraceInv
<1>10. CASE ~Contradicted(c)
  <2>1. pc' = "search"
    BY <1>1, <1>2, <1>10 DEF WatchTrue, FoundWatch, Unit
  <2> QED BY <2>1, <1>8 DEF TraceInv
<1> QED BY <1>9, <1>10

(* A step of the resolution: the reason has the literal that the resolvent *)
(* has the negation of.                                                    *)
LEMMA ResolvedTraced ==
    ASSUME SolverInv, TraceInv, pc \in {"analyze", "final"},
           NEW k \in Marked, trail[k].reason # 0,
           resolvent' = (resolvent \ {-trail[k].lit}) \cup Rest(trail[k].reason),
           dep_stack' = dep_stack \cup {trail[k].reason},
           UNCHANGED <<file, pc, cls>>
    PROVE  TraceInv'
<1> DEFINE r == trail[k].reason
           l == trail[k].lit
<1>1. k \in DOMAIN trail /\ r \in Id /\ Explains(cls[r], trail, k)
  BY DEF Marked, SolverInv, Assigning, Sound, Reasoned, Id
<1>2. l \in Int \ {0} /\ Rest(r) = cls[r].lits \ {l}
  BY <1>1, TypeFacts DEF SolverInv, Rest, Explains
<1>3. dep_stack' = dep_stack \cup {r} /\ resolvent' = (resolvent \ {-l}) \cup (cls[r].lits \ {l})
  BY <1>2
<1> HIDE DEF r, l
<1>4. Follows(cls, dep_stack', resolvent')
  <2> SUFFICES ASSUME NEW true, \A d \in dep_stack' : Satisfies(true, cls[d].lits)
               PROVE  Satisfies(true, resolvent')
    BY DEF Follows
  <2>1. Satisfies(true, resolvent) /\ Satisfies(true, cls[r].lits)
    BY <1>3 DEF TraceInv, Follows
  <2>2. Satisfies(true, (resolvent \ {-l}) \cup (cls[r].lits \ {l}))
    BY <2>1, <1>2, Resolution
  <2> QED BY <2>2, <1>3
<1> QED BY <1>4, TraceUntouched

LEMMA ResolveTraced ==
    ASSUME SolverInv, TraceInv, Resolve
    PROVE  TraceInv'
<1>1. /\ pc = "analyze" /\ \A l \in AtLevel : AtLevel # {l}
      /\ UNCHANGED <<file, pc, cls>>
  BY DEF Resolve, solver
<1>2. SUFFICES ASSUME NEW k \in Marked, \A j \in Marked : j <= k,
                      resolvent' = (resolvent \ {-trail[k].lit}) \cup Rest(trail[k].reason),
                      dep_stack' = dep_stack \cup {trail[k].reason}
               PROVE  TraceInv'
  BY DEF Resolve, ResolveLatest
<1>3. trail[k].reason # 0
  BY <1>1, <1>2, ResolvableAtLevel
<1> QED BY <1>1, <1>2, <1>3, ResolvedTraced

LEMMA ResolveFinalTraced ==
    ASSUME SolverInv, TraceInv, ResolveFinal
    PROVE  TraceInv'
<1>1. pc = "final" /\ UNCHANGED <<file, pc, cls>>
  BY DEF ResolveFinal, solver
<1>2. SUFFICES ASSUME NEW k \in Marked,
                      resolvent' = (resolvent \ {-trail[k].lit}) \cup Rest(trail[k].reason),
                      dep_stack' = dep_stack \cup {trail[k].reason}
               PROVE  TraceInv'
  BY DEF ResolveFinal, ResolveLatest
<1>3. trail[k].reason # 0
  BY <1>1, <1>2, ResolvableFinally
<1> QED BY <1>1, <1>2, <1>3, ResolvedTraced

(* What was resolved becomes a clause. *)
LEMMA LearntTraced ==
    ASSUME SolverInv, TraceInv, pc \in {"analyze", "final"}, UNCHANGED file,
           NEW r \in ClauseRecords, cls' = Append(cls, r), r.lits = resolvent, r.deps = dep_stack
    PROVE  /\ Traced(cls)' /\ learnt(Len(cls))' /\ cls'[Len(cls')].lits = resolvent
<1>1. /\ Id' = Id \cup {Len(cls) + 1} /\ Len(cls') = Len(cls) + 1 /\ cls'[Len(cls) + 1] = r
      /\ \A c \in Id : cls'[c] = cls[c]
  BY JoinKeeps DEF SolverInv, Assigning
<1>2. Id = 1..Len(cls) /\ Len(cls) \in Nat /\ Len(file) \in Nat /\ Len(cls) >= Len(file)
  BY TypeFacts DEF SolverInv, Phases
<1> DEFINE n == Len(cls) + 1
<1>3. n = Len(cls) + 1 /\ learnt(n)
  BY <1>2 DEF learnt
<1>4. dep_stack \subseteq Id /\ Follows(cls, dep_stack, resolvent)
  BY DEF SolverInv, TypeInv, TraceInv
<1>5. cls'[n].deps \subseteq Id /\ Follows(cls', cls'[n].deps, cls'[n].lits)
  BY <1>1, <1>4 DEF Follows
<1> HIDE DEF n
<1>6. Traced(cls)'
  BY <1>1, <1>2, <1>3, <1>5, TraceGrows DEF TraceInv
<1> QED BY <1>1, <1>3, <1>6 DEF learnt

LEMMA LearnTraced ==
    ASSUME SolverInv, TraceInv, Learn
    PROVE  TraceInv'
<1>1. pc = "analyze" /\ pc' = "search" /\ UNCHANGED file
  BY DEF Learn
<1>2. SUFFICES ASSUME NEW l \in AtLevel, NEW watch \in LearntWatches(l, resolvent \ {l}),
                      cls' = Append(cls, Clause(resolvent, watch, dep_stack))
               PROVE  TraceInv'
  BY DEF Learn
<1> DEFINE r == Clause(resolvent, watch, dep_stack)
<1>3. resolvent \subseteq Literals /\ dep_stack \subseteq Nat /\ l \in resolvent
  BY TypeFacts DEF SolverInv, TypeInv, AtLevel
<1>4. watch \in Seq(Literals)
  <2>1. CASE resolvent \ {l} = {}
    <3>1. watch = <<l>> /\ l \in Literals
      BY <2>1, <1>2, <1>3 DEF LearntWatches
    <3> QED BY <3>1
  <2>2. CASE resolvent \ {l} # {}
    <3>1. PICK m \in resolvent \ {l} : watch = <<l, m>>
      BY <2>2, <1>2 DEF LearntWatches, LatestOf
    <3> QED BY <3>1, <1>3
  <2> QED BY <2>1, <2>2
<1>5. r \in ClauseRecords /\ r.lits = resolvent /\ r.deps = dep_stack
  BY <1>3, <1>4 DEF Clause, ClauseRecords
<1> HIDE DEF r
<1>6. cls' = Append(cls, r)
  BY <1>2 DEF r
<1>7. Traced(cls)'
  BY <1>1, <1>5, <1>6, LearntTraced
<1> QED BY <1>1, <1>7 DEF TraceInv

LEMMA EndTraceTraced ==
    ASSUME SolverInv, TraceInv, EndTrace
    PROVE  TraceInv'
<1> DEFINE r == Clause({}, <<>>, dep_stack)
<1>1. pc = "final" /\ pc' = "count" /\ resolvent = {} /\ cls' = Append(cls, r) /\ UNCHANGED file
  BY DEF EndTrace
<1>2. dep_stack \subseteq Nat /\ <<>> \in Seq(Literals)
  BY TypeFacts DEF SolverInv, TypeInv
<1>3. r \in ClauseRecords /\ r.lits = resolvent /\ r.deps = dep_stack
  BY <1>1, <1>2 DEF Clause, ClauseRecords
<1> HIDE DEF r
<1>4. Traced(cls)' /\ learnt(Len(cls))' /\ cls'[Len(cls')].lits = {}
  BY <1>1, <1>3, LearntTraced
<1> QED BY <1>1, <1>4 DEF TraceInv

LEMMA AddClauseTraced ==
    ASSUME SolverInv, TraceInv, add_clause
    PROVE  TraceInv'
<1> DEFINE n == Len(cls) + 1
           r == Clause(file[n], Watched(file[n]), {})
<1>1. pc = "parse" /\ Len(cls) < Len(file) /\ cls' = Append(cls, r) /\ UNCHANGED <<file, pc>>
  BY DEF add_clause
<1>2. /\ Id = 1..Len(cls) /\ Len(cls) \in Nat /\ Len(file) \in Nat
      /\ file[n] \subseteq Literals /\ file[n] # {}
  BY <1>1, TypeFacts DEF SolverInv
<1>3. Watched(file[n]) \in Seq(Literals)
  BY <1>2, WatchedIsWell DEF SolverInv
<1>4. r \in ClauseRecords /\ r.lits = file[n] /\ r.deps = {}
  BY <1>2, <1>3 DEF Clause, ClauseRecords
<1> HIDE DEF r
<1>5. /\ Id' = Id \cup {n} /\ cls'[n] = r /\ \A c \in Id : cls'[c] = cls[c]
  BY <1>1, <1>4, JoinKeeps DEF SolverInv, Assigning
<1>6. n = Len(cls) + 1 /\ ~learnt(n)
  BY <1>1, <1>2 DEF learnt
<1>7. cls'[n].deps = {} /\ cls'[n].lits = file[n]
  BY <1>4, <1>5
<1> HIDE DEF n
<1>8. Traced(cls)'
  BY <1>1, <1>2, <1>5, <1>6, <1>7, TraceGrows DEF TraceInv
<1> QED BY <1>1, <1>8 DEF TraceInv

(* The other steps do not touch the clauses, and a conflict is at first    *)
(* what a clause says.                                                     *)
LEMMA TraceKeeps ==
    ASSUME SolverInv, TraceInv, [Next]_vars
    PROVE  TraceInv'
<1>1. CASE solve \/ Dequeue \/ Restart \/ Decide \/ ModelFound
  <2>1. UNCHANGED <<file, cls>> /\ pc' \in {"search", "sat"}
    BY <1>1 DEF solve, Dequeue, Restart, Decide, ModelFound, Propagated, Searching, solver
  <2> QED BY <2>1, TraceUntouched
<1>2. CASE StartConflict
  <2>1. /\ UNCHANGED <<file, cls>> /\ pc' = "final"
        /\ resolvent' = cls[st_confl].lits /\ dep_stack' = {st_confl}
    BY <1>2 DEF StartConflict, Conflict, solver
  <2>2. Follows(cls, dep_stack', resolvent')
    BY <2>1 DEF Follows
  <2> QED BY <2>1, <2>2, TraceUntouched
<1>3. CASE Core
  <2>1. /\ UNCHANGED <<file, cls>> /\ pc \in {"count", "traverse"} /\ pc' \in {"count", "traverse", "unsat"}
    BY <1>3 DEF Core, compute_dep_counts, begin_traversal, next_cl2traverse, end_traversal, solver
  <2> QED BY <2>1, TraceUntouched
<1>4. CASE UNCHANGED vars
  <2>1. UNCHANGED <<file, cls, pc, dep_stack, resolvent>>
    BY <1>4 DEF vars, solver, analysis
  <2> QED BY <2>1, TraceUntouched DEF TraceInv
<1> QED BY <1>1, <1>2, <1>3, <1>4, AddClauseTraced, VisitTraced, ResolveTraced, ResolveFinalTraced,
           LearnTraced, EndTraceTraced DEF Next, Parsing, Search, Analysis

LEMMA TraceInit ==
    ASSUME Init
    PROVE  TraceInv
<1>1. pc = "parse" /\ DOMAIN cls = {}
  BY DEF Init
<1> QED BY <1>1 DEF TraceInv, Traced

LEMMA TraceIsSound ==
    ASSUME SolverInv, TraceInv
    PROVE  TraceSound
<1>1. ASSUME NEW ids, NEW lits, Follows(cls, ids, lits) PROVE Implies(LitsOf(ids), lits)
  <2> SUFFICES ASSUME NEW true, \A c \in LitsOf(ids) : Satisfies(true, c) PROVE Satisfies(true, lits)
    BY DEF Implies, Models
  <2> QED BY <1>1 DEF Follows, LitsOf
<1>2. \A c \in Id : learnt(c) => cls[c].deps \subseteq 1..(c - 1) /\ Implies(LitsOf(cls[c].deps), cls[c].lits)
  BY <1>1 DEF TraceInv, Traced, Id
<1>3. pc \in {"analyze", "final"} => Implies(LitsOf(dep_stack), resolvent) /\ \A l \in resolvent : False(l)
  BY <1>1 DEF TraceInv, SolverInv, Phases
<1> QED BY <1>2, <1>3 DEF TraceSound

(* In mscore the trace of a learnt clause names clauses before it that     *)
(* imply it, and what analyze has collected of it always implies what is   *)
(* left of the conflict, all of whose literals are false.                  *)
THEOREM LearntClausesFollow == Spec => []TraceSound
<1>1. Init => SolverInv /\ TraceInv
  BY SolverInit, TraceInit
<1>2. SolverInv /\ TraceInv /\ [Next]_vars => (SolverInv /\ TraceInv)'
  BY SolverStays, TraceKeeps
<1>3. SolverInv /\ TraceInv => TraceSound
  BY TraceIsSound
<1> QED BY <1>1, <1>2, <1>3, PTL DEF Spec

-----------------------------------------------------------------------------
(* The walk over the trace.  V is visited (and, the second time, still to  *)
(* be visited again), D is done.                                           *)
LearntIds == {c \in Id : learnt(c)}
LearntDeps(c) == {d \in cls[c].deps : learnt(d)}
FileDeps(c) == {d \in cls[c].deps : ~learnt(d)}
Namers(S, d) == {c \in S : Names(c, d)}

(* Every clause that was come to is named, by the visited ones that often. *)
Counting(V) ==
    /\ V \subseteq LearntIds /\ cl_scheds \subseteq LearntIds /\ V \cap cl_scheds = {}
    /\ Len(cls) \in V \cup cl_scheds
    /\ \A c \in V : LearntDeps(c) \subseteq V \cup cl_scheds
    /\ \A d \in LearntIds : d \in V \cup cl_scheds <=> depcount[d] > 0
    /\ \A d \in LearntIds : depcount[d] = (IF d = Len(cls) THEN 1 ELSE 0) + Cardinality(Namers(V, d))

(* A clause is queued as soon as no clause that waits names it. *)
TraversingBy(V, D, queue, counts, files) ==
    /\ V \subseteq LearntIds /\ D \subseteq LearntIds /\ queue \subseteq LearntIds
    /\ V \cap queue = {} /\ V \cap D = {} /\ D \cap queue = {}
    /\ Len(cls) \in V \cup D \cup queue
    /\ \A c \in V \cup D \cup queue : LearntDeps(c) \subseteq V \cup D \cup queue
    /\ \A c \in D : FileDeps(c) \subseteq files
    /\ \A d \in V : counts[d] > 0
    /\ \A d \in D \cup queue : counts[d] = 0
    /\ \A d \in LearntIds : counts[d] = Cardinality(Namers(V \cup queue, d))

Traversing(V, D) == TraversingBy(V, D, cl_scheds, depcount, core)

(* What the empty clause was resolved from, back to the file. *)
Collected(D) ==
    /\ D \subseteq LearntIds /\ Len(cls) \in D
    /\ \A c \in D : LearntDeps(c) \subseteq D /\ FileDeps(c) \subseteq core

WalkInv ==
    /\ core \subseteq Id \ LearntIds
    /\ pc \notin {"count", "traverse", "unsat"} => core = {} /\ cl_scheds = {}
    /\ pc \in {"count", "traverse"} => depcount \in [Id -> Nat]
    /\ pc = "count" => \E V : Counting(V)
    /\ pc = "traverse" => \E V, D : Traversing(V, D)
    /\ pc = "unsat" => cl_scheds = {} /\ \E D : Collected(D)

(* The dependencies of a clause come before it. *)
LEMMA DepsComeBefore ==
    ASSUME SolverInv, TraceInv, NEW c \in Id
    PROVE  /\ cls[c].deps \subseteq 1..(c - 1) /\ cls[c].deps \subseteq Id
           /\ LearntDeps(c) \subseteq LearntIds /\ FileDeps(c) \subseteq Id \ LearntIds
           /\ c \in Nat /\ c \notin cls[c].deps
<1>1. Id = 1..Len(cls) /\ Len(cls) \in Nat
  BY TypeFacts DEF SolverInv
<1>2. cls[c].deps \subseteq 1..(c - 1)
  BY DEF TraceInv, Traced, Id
<1>3. cls[c].deps \subseteq Id /\ c \in Nat /\ c \notin cls[c].deps
  BY <1>1, <1>2
<1> QED BY <1>2, <1>3 DEF LearntDeps, FileDeps, LearntIds

(* There are finitely many. *)
LEMMA NamersCounted ==
    ASSUME SolverInv, NEW S, S \subseteq Id, NEW d
    PROVE  IsFiniteSet(Namers(S, d)) /\ Cardinality(Namers(S, d)) \in Nat
<1>1. Id = 1..Len(cls) /\ Len(cls) \in Nat
  BY TypeFacts DEF SolverInv
<1>2. IsFiniteSet(Id)
  BY <1>1, FS_Interval
<1>3. Namers(S, d) \subseteq Id
  BY DEF Namers
<1> QED BY <1>2, <1>3, FS_Subset, FS_CardinalityType

(* One clause more counts once, where it names the clause. *)
LEMMA NamersGrow ==
    ASSUME SolverInv, NEW S, S \subseteq Id, NEW c \in Id, c \notin S, NEW d
    PROVE  /\ Cardinality(Namers(S, d)) \in Nat
           /\ Cardinality(Namers(S \cup {c}, d))
                = Cardinality(Namers(S, d)) + (IF Names(c, d) THEN 1 ELSE 0)
<1>3. IsFiniteSet(Namers(S, d)) /\ Cardinality(Namers(S, d)) \in Nat
  BY NamersCounted
<1>4. CASE Names(c, d)
  <2>1. Namers(S \cup {c}, d) = Namers(S, d) \cup {c} /\ c \notin Namers(S, d)
    BY <1>4 DEF Namers
  <2> QED BY <2>1, <1>3, <1>4, FS_AddElement
<1>5. CASE ~Names(c, d)
  <2>1. Namers(S \cup {c}, d) = Namers(S, d)
    BY <1>5 DEF Namers
  <2> QED BY <2>1, <1>3, <1>5
<1> QED BY <1>4, <1>5

(* The walk changes no clause. *)
LEMMA WalkStays ==
    ASSUME UNCHANGED <<file, cls>>
    PROVE  /\ Id' = Id /\ LearntIds' = LearntIds
           /\ \A c : learnt(c)' = learnt(c) /\ LearntDeps(c)' = LearntDeps(c) /\ FileDeps(c)' = FileDeps(c)
           /\ \A S, d : Namers(S, d)' = Namers(S, d)
<1>1. \A c : learnt(c)' = learnt(c)
  BY DEF learnt
<1>2. Id' = Id
  BY DEF Id
<1> QED BY <1>1, <1>2 DEF LearntIds, LearntDeps, FileDeps, Namers, Names

LEMMA CountKeeps ==
    ASSUME SolverInv, TraceInv, WalkInv, compute_dep_counts
    PROVE  WalkInv'
<1>1. pc = "count" /\ UNCHANGED <<file, pc, cls, core>>
  BY DEF compute_dep_counts, solver
<1>2. depcount \in [Id -> Nat] /\ \E V : Counting(V)
  BY <1>1 DEF WalkInv
<1>3. SUFFICES ASSUME NEW c \in cl_scheds, NEW V, Counting(V),
                      cl_scheds' = (cl_scheds \ {c}) \cup {d \in cls[c].deps : learnt(d) /\ depcount[d] = 0},
                      depcount' = [d \in Id |-> IF learnt(d) /\ Names(c, d) THEN depcount[d] + 1 ELSE depcount[d]]
               PROVE  WalkInv'
  BY <1>2 DEF compute_dep_counts
<1> DEFINE W == V \cup {c}
           e == Len(cls)
<1>4. /\ V \subseteq LearntIds /\ cl_scheds \subseteq LearntIds /\ V \cap cl_scheds = {}
      /\ e \in V \cup cl_scheds
      /\ \A b \in V : LearntDeps(b) \subseteq V \cup cl_scheds
      /\ \A d \in LearntIds : d \in V \cup cl_scheds <=> depcount[d] > 0
      /\ \A d \in LearntIds : depcount[d] = (IF d = e THEN 1 ELSE 0) + Cardinality(Namers(V, d))
  BY <1>3 DEF Counting
<1>5. c \in LearntIds /\ c \in Id /\ V \subseteq Id /\ c \notin V
  BY <1>3, <1>4 DEF LearntIds
<1>6. LearntDeps(c) \subseteq LearntIds /\ c \notin LearntDeps(c)
  BY <1>5, DepsComeBefore DEF LearntDeps
<1>7. \A d \in LearntIds : depcount[d] \in Nat /\ (d \in LearntDeps(c) <=> Names(c, d))
  BY <1>2 DEF LearntIds, LearntDeps, Names
<1>8. cl_scheds' = (cl_scheds \ {c}) \cup {d \in LearntDeps(c) : depcount[d] = 0}
  BY <1>3 DEF LearntDeps
<1>9. \A d \in LearntIds : depcount'[d] = depcount[d] + (IF Names(c, d) THEN 1 ELSE 0)
  BY <1>3, <1>7 DEF LearntIds
<1>10. depcount' \in [Id -> Nat]
  BY <1>2, <1>3
<1>11. \A d \in LearntDeps(c) : depcount[d] = 0 <=> d \notin V \cup cl_scheds
  BY <1>4, <1>6, <1>7
<1>12. W \cup cl_scheds' = V \cup cl_scheds \cup LearntDeps(c)
  BY <1>3, <1>8, <1>11
<1>13. W \subseteq LearntIds /\ cl_scheds' \subseteq LearntIds /\ W \cap cl_scheds' = {} /\ e \in W \cup cl_scheds'
  BY <1>4, <1>5, <1>6, <1>8, <1>11, <1>12
<1>14. \A b \in W : LearntDeps(b) \subseteq W \cup cl_scheds'
  BY <1>4, <1>12
<1>15. \A d \in LearntIds : d \in W \cup cl_scheds' <=> depcount'[d] > 0
  BY <1>4, <1>7, <1>9, <1>12
<1>16. \A d \in LearntIds : depcount'[d] = (IF d = e THEN 1 ELSE 0) + Cardinality(Namers(W, d))
  <2> SUFFICES ASSUME NEW d \in LearntIds
               PROVE  depcount'[d] = (IF d = e THEN 1 ELSE 0) + Cardinality(Namers(W, d))
    OBVIOUS
  <2>1. /\ Cardinality(Namers(V, d)) \in Nat
        /\ Cardinality(Namers(W, d)) = Cardinality(Namers(V, d)) + (IF Names(c, d) THEN 1 ELSE 0)
    BY <1>5, NamersGrow
  <2>2. depcount[d] = (IF d = e THEN 1 ELSE 0) + Cardinality(Namers(V, d))
    BY <1>4
  <2>3. depcount'[d] = depcount[d] + (IF Names(c, d) THEN 1 ELSE 0)
    BY <1>9
  <2> QED BY ONLY <2>1, <2>2, <2>3
<1> HIDE DEF W
<1>17. Counting(W)'
  BY <1>1, <1>13, <1>14, <1>15, <1>16, WalkStays DEF Counting
<1> QED BY <1>1, <1>10, <1>17, WalkStays DEF WalkInv

(* No clause names the empty one, which is the last. *)
LEMMA LastIsUnnamed ==
    ASSUME SolverInv, TraceInv, NEW S, S \subseteq Id
    PROVE  Cardinality(Namers(S, Len(cls))) = 0
<1>1. Id = 1..Len(cls) /\ Len(cls) \in Nat
  BY TypeFacts DEF SolverInv
<1>2. \A c \in Id : Len(cls) \notin cls[c].deps
  <2> SUFFICES ASSUME NEW c \in Id, Len(cls) \in cls[c].deps PROVE FALSE
    OBVIOUS
  <2>1. Len(cls) \in 1..(c - 1)
    BY DepsComeBefore
  <2> QED BY <2>1, <1>1
<1>3. Namers(S, Len(cls)) = {}
  BY <1>2 DEF Namers, Names
<1> QED BY <1>3, FS_EmptySet

LEMMA TraversalAt ==
    ASSUME UNCHANGED <<file, cls>>, NEW V, NEW D,
           TraversingBy(V, D, cl_scheds', depcount', core')
    PROVE  Traversing(V, D)'
<1>1. /\ Len(cls') = Len(cls) /\ LearntIds' = LearntIds
      /\ \A c : LearntDeps(c)' = LearntDeps(c) /\ FileDeps(c)' = FileDeps(c)
  BY WalkStays
<1>2. (\A d \in LearntIds : depcount[d] = Cardinality(Namers(V \cup cl_scheds, d)))'
  BY <1>1 DEF Namers, Names, TraversingBy
<1>3. (\A c \in V \cup D \cup cl_scheds : LearntDeps(c) \subseteq V \cup D \cup cl_scheds)'
  BY <1>1 DEF TraversingBy
<1>4. (\A c \in D : FileDeps(c) \subseteq core)'
  BY <1>1 DEF TraversingBy
<1> QED BY <1>1, <1>2, <1>3, <1>4 DEF Traversing, TraversingBy

LEMMA TraversalBegins ==
    ASSUME SolverInv, TraceInv, WalkInv, begin_traversal
    PROVE  WalkInv'
<1> DEFINE e == Len(cls)
<1>1. /\ pc = "count" /\ pc' = "traverse" /\ cl_scheds = {} /\ cl_scheds' = {e}
      /\ depcount' = [depcount EXCEPT ![e] = @ - 1]
      /\ UNCHANGED <<file, cls, core>>
  BY DEF begin_traversal, solver
<1>2. depcount \in [Id -> Nat] /\ \E V : Counting(V)
  BY <1>1 DEF WalkInv
<1>3. PICK V : Counting(V)
  BY <1>2
<1>4. /\ V \subseteq LearntIds /\ e \in V
      /\ \A b \in V : LearntDeps(b) \subseteq V
      /\ \A d \in LearntIds : d \in V <=> depcount[d] > 0
      /\ \A d \in LearntIds : depcount[d] = (IF d = e THEN 1 ELSE 0) + Cardinality(Namers(V, d))
  BY <1>1, <1>3 DEF Counting
<1>5. V \subseteq Id /\ e \in Id
  BY <1>4 DEF LearntIds
<1>w. PICK W : W = V \ {e}
  OBVIOUS
<1>6. Cardinality(Namers(V, e)) = 0 /\ depcount[e] = 1
  BY <1>4, <1>5, LastIsUnnamed
<1> HIDE DEF e
<1>7. depcount' \in [Id -> Nat] /\ depcount'[e] = 0 /\ \A d \in Id \ {e} : depcount'[d] = depcount[d]
  BY <1>1, <1>2, <1>5, <1>6
<1>8. W \cup {e} = V /\ W \subseteq LearntIds /\ {} \subseteq LearntIds /\ {e} \subseteq LearntIds /\ W \cap {e} = {}
  BY <1>4, <1>w
<1>9. \A d \in W : depcount'[d] > 0
  BY <1>4, <1>5, <1>7, <1>w
<1>10. \A d \in LearntIds : depcount'[d] = Cardinality(Namers(V, d))
  <2> SUFFICES ASSUME NEW d \in LearntIds PROVE depcount'[d] = Cardinality(Namers(V, d))
    OBVIOUS
  <2>1. CASE d = e
    BY <2>1, <1>6, <1>7
  <2>2. CASE d # e
    <3>1. depcount'[d] = depcount[d] /\ depcount[d] \in Nat
      BY <2>2, <1>2, <1>7 DEF LearntIds
    <3>2. depcount[d] = 0 + Cardinality(Namers(V, d))
      BY <2>2, <1>4
    <3>3. Cardinality(Namers(V, d)) \in Nat
      BY <1>5, NamersCounted
    <3> QED BY <3>1, <3>2, <3>3
  <2> QED BY <2>1, <2>2
<1>11. Traversing(W, {})'
  <2>1. UNCHANGED <<file, cls>> /\ {e} = cl_scheds' /\ W \cup {} \cup {e} = V
    BY <1>1, <1>8
  <2>2. TraversingBy(W, {}, {e}, depcount', core')
    BY <2>1, <1>4, <1>7, <1>8, <1>9, <1>10 DEF TraversingBy, e
  <2>3. TraversingBy(W, {}, cl_scheds', depcount', core')
    BY <2>1, <2>2
  <2> QED BY <2>1, <2>3, TraversalAt
<1>12. \E V1, D1 : Traversing(V1, D1)'
  BY <1>11
<1> QED BY <1>1, <1>7, <1>12, WalkStays DEF WalkInv

LEMMA TraverseKeeps ==
    ASSUME SolverInv, TraceInv, WalkInv, next_cl2traverse
    PROVE  WalkInv'
<1>1. pc = "traverse" /\ UNCHANGED <<file, pc, cls>>
  BY DEF next_cl2traverse, solver
<1>2. depcount \in [Id -> Nat] /\ core \subseteq Id \ LearntIds /\ \E V, D : Traversing(V, D)
  BY <1>1 DEF WalkInv
<1>3. SUFFICES ASSUME NEW c \in cl_scheds, NEW V, NEW D, Traversing(V, D),
                      cl_scheds' = (cl_scheds \ {c}) \cup {d \in cls[c].deps : learnt(d) /\ depcount[d] = 1},
                      depcount' = [d \in Id |-> IF learnt(d) /\ Names(c, d) THEN depcount[d] - 1 ELSE depcount[d]],
                      core' = core \cup {d \in cls[c].deps : ~learnt(d)}
               PROVE  WalkInv'
  BY <1>2 DEF next_cl2traverse
<1>4. PICK freed : freed = {d \in LearntDeps(c) : depcount[d] = 1}
  OBVIOUS
<1>5. PICK W : W = V \ freed
  OBVIOUS
<1>6. PICK E : E = D \cup {c}
  OBVIOUS
<1>7. /\ V \subseteq LearntIds /\ D \subseteq LearntIds /\ cl_scheds \subseteq LearntIds
      /\ V \cap cl_scheds = {} /\ V \cap D = {} /\ D \cap cl_scheds = {}
      /\ Len(cls) \in V \cup D \cup cl_scheds
      /\ \A b \in V \cup D \cup cl_scheds : LearntDeps(b) \subseteq V \cup D \cup cl_scheds
      /\ \A b \in D : FileDeps(b) \subseteq core
      /\ \A d \in V : depcount[d] > 0
      /\ \A d \in D \cup cl_scheds : depcount[d] = 0
      /\ \A d \in LearntIds : depcount[d] = Cardinality(Namers(V \cup cl_scheds, d))
  BY <1>3 DEF Traversing, TraversingBy
<1>8. PICK rest : rest = (V \cup cl_scheds) \ {c}
  OBVIOUS
<1>9. c \in LearntIds /\ c \in Id /\ rest \subseteq Id /\ c \notin rest /\ rest \cup {c} = V \cup cl_scheds
  BY <1>3, <1>7, <1>8 DEF LearntIds
<1>10. /\ LearntDeps(c) \subseteq LearntIds /\ FileDeps(c) \subseteq Id \ LearntIds /\ c \notin LearntDeps(c)
  BY <1>9, DepsComeBefore DEF LearntDeps
<1>11. \A d \in LearntIds : depcount[d] \in Nat /\ (d \in LearntDeps(c) <=> Names(c, d))
  BY <1>2 DEF LearntIds, LearntDeps, Names
<1>12. \A d \in LearntIds :
         /\ Cardinality(Namers(rest, d)) \in Nat
         /\ depcount[d] = Cardinality(Namers(rest, d)) + (IF Names(c, d) THEN 1 ELSE 0)
  <2> SUFFICES ASSUME NEW d \in LearntIds
               PROVE  /\ Cardinality(Namers(rest, d)) \in Nat
                      /\ depcount[d] = Cardinality(Namers(rest, d)) + (IF Names(c, d) THEN 1 ELSE 0)
    OBVIOUS
  <2>1. depcount[d] = Cardinality(Namers(rest \cup {c}, d))
    BY <1>7, <1>9
  <2> QED BY <2>1, <1>9, NamersGrow
<1>13. \A d \in LearntIds : depcount'[d] = Cardinality(Namers(rest, d))
  <2> SUFFICES ASSUME NEW d \in LearntIds PROVE depcount'[d] = Cardinality(Namers(rest, d))
    OBVIOUS
  <2>1. depcount'[d] = IF Names(c, d) THEN depcount[d] - 1 ELSE depcount[d]
    BY <1>3 DEF LearntIds
  <2> QED BY <2>1, <1>12
<1>14. depcount' \in [Id -> Nat]
  <2> SUFFICES ASSUME NEW d \in Id, learnt(d) /\ Names(c, d) PROVE depcount[d] - 1 \in Nat
    BY <1>2, <1>3
  <2>1. depcount[d] = Cardinality(Namers(rest, d)) + 1 /\ Cardinality(Namers(rest, d)) \in Nat
    BY <1>12 DEF LearntIds
  <2> QED BY <2>1
<1>15. cl_scheds' = (cl_scheds \ {c}) \cup freed /\ core' = core \cup FileDeps(c)
  BY <1>3, <1>4 DEF LearntDeps, FileDeps
<1>16. freed \subseteq V
  <2> SUFFICES ASSUME NEW d \in freed PROVE d \in V
    OBVIOUS
  <2>1. d \in V \cup D \cup cl_scheds /\ depcount[d] = 1
    BY <1>3, <1>4, <1>7
  <2> QED BY <2>1, <1>7
<1>17. /\ W \cup E \cup cl_scheds' = V \cup D \cup cl_scheds /\ W \cup cl_scheds' = rest
       /\ W \cap cl_scheds' = {} /\ W \cap E = {} /\ E \cap cl_scheds' = {}
       /\ W \subseteq LearntIds /\ E \subseteq LearntIds /\ cl_scheds' \subseteq LearntIds
  BY <1>3, <1>5, <1>6, <1>7, <1>8, <1>15, <1>16
<1>18. \A d \in W : depcount'[d] > 0
  <2> SUFFICES ASSUME NEW d \in W PROVE depcount'[d] > 0
    OBVIOUS
  <2>1. d \in LearntIds /\ d \in V /\ d \notin freed
    BY <1>5, <1>7
  <2>2. depcount[d] > 0 /\ (Names(c, d) => depcount[d] # 1)
    BY <2>1, <1>4, <1>7, <1>11
  <2> QED BY <2>1, <2>2, <1>12, <1>13
<1>19. \A d \in E \cup cl_scheds' : depcount'[d] = 0
  <2> SUFFICES ASSUME NEW d \in E \cup cl_scheds' PROVE depcount'[d] = 0
    OBVIOUS
  <2>1. d \in LearntIds
    BY <1>17
  <2>2. CASE d \in freed
    BY <2>1, <2>2, <1>4, <1>11, <1>12, <1>13
  <2>3. CASE d \notin freed
    <3>1. depcount[d] = 0
      BY <2>3, <1>3, <1>6, <1>7, <1>15
    <3> QED BY <3>1, <2>1, <1>12, <1>13
  <2> QED BY <2>2, <2>3
<1>20. \A b \in E : FileDeps(b) \subseteq core'
  BY <1>6, <1>7, <1>15
<1>21. TraversingBy(W, E, cl_scheds', depcount', core')
  BY <1>7, <1>13, <1>17, <1>18, <1>19, <1>20 DEF TraversingBy
<1>22. Traversing(W, E)'
  BY <1>1, <1>21, TraversalAt
<1>23. core' \subseteq Id' \ LearntIds'
  BY <1>1, <1>2, <1>10, <1>15, WalkStays
<1> QED BY <1>1, <1>14, <1>22, <1>23, WalkStays DEF WalkInv

(* When nothing is queued nothing waits either: the last clause that waits *)
(* would be named by a later one.                                          *)
LEMMA AllIsCollected ==
    ASSUME SolverInv, TraceInv, WalkInv, pc = "traverse", cl_scheds = {}
    PROVE  \E D : Collected(D)
<1>1. PICK V, D : Traversing(V, D)
  BY DEF WalkInv
<1>2. /\ V \subseteq LearntIds /\ D \subseteq LearntIds /\ Len(cls) \in V \cup D
      /\ \A c \in V \cup D : LearntDeps(c) \subseteq V \cup D
      /\ \A c \in D : FileDeps(c) \subseteq core
      /\ \A d \in V : depcount[d] > 0
      /\ \A d \in LearntIds : depcount[d] = Cardinality(Namers(V, d))
  BY <1>1 DEF Traversing, TraversingBy
<1>3. Id = 1..Len(cls) /\ Len(cls) \in Nat /\ V \subseteq Id
  BY <1>2, TypeFacts DEF SolverInv, LearntIds
<1>4. V = {}
  <2> SUFFICES ASSUME V # {} PROVE FALSE
    OBVIOUS
  <2> DEFINE T == {Len(cls) - d : d \in V}
  <2>1. T \subseteq Nat /\ T # {}
    <3>1. \A d \in V : Len(cls) - d \in Nat
      BY <1>3
    <3> QED BY <3>1
  <2>2. PICK t \in T : \A u \in T : t <= u
    BY <2>1, LeastNatural
  <2>3. PICK d \in V : t = Len(cls) - d
    BY <2>2
  <2>4. \A c \in V : c <= d
    <3> SUFFICES ASSUME NEW c \in V PROVE c <= d
      OBVIOUS
    <3>1. Len(cls) - d <= Len(cls) - c
      BY <2>2, <2>3
    <3> QED BY <3>1, <1>3
  <2>5. Namers(V, d) # {}
    <3>1. Cardinality(Namers(V, d)) > 0
      BY <1>2
    <3> QED BY <3>1, FS_EmptySet
  <2>6. PICK c \in V : d \in cls[c].deps
    BY <2>5 DEF Namers, Names
  <2>7. d \in 1..(c - 1) /\ c \in Nat
    BY <2>6, <1>3, DepsComeBefore
  <2> QED BY <2>4, <2>7
<1> QED BY <1>2, <1>4 DEF Collected

LEMMA TraversalEnds ==
    ASSUME SolverInv, TraceInv, WalkInv, end_traversal
    PROVE  WalkInv'
<1>1. pc = "traverse" /\ pc' = "unsat" /\ cl_scheds = {} /\ UNCHANGED <<file, cls, core, cl_scheds>>
  BY DEF end_traversal, solver, trace
<1>2. PICK D : Collected(D)
  BY <1>1, AllIsCollected
<1>3. Collected(D)'
  BY <1>1, <1>2, WalkStays DEF Collected
<1> QED BY <1>1, <1>3, WalkStays DEF WalkInv

LEMMA WalkStarts ==
    ASSUME SolverInv, WalkInv, EndTrace
    PROVE  WalkInv'
<1> DEFINE n == Len(cls) + 1
           r == Clause({}, <<>>, dep_stack)
<1>1. /\ pc = "final" /\ pc' = "count" /\ cls' = Append(cls, r) /\ UNCHANGED <<file, core>>
      /\ cl_scheds' = {n} /\ depcount' = [d \in 1..n |-> IF d = n THEN 1 ELSE 0]
  BY DEF EndTrace
<1>2. core = {}
  BY <1>1 DEF WalkInv
<1>3. dep_stack \subseteq Nat /\ <<>> \in Seq(Literals)
  BY TypeFacts DEF SolverInv, TypeInv
<1>4. r \in ClauseRecords
  BY <1>3 DEF Clause, ClauseRecords
<1> HIDE DEF r
<1>5. Id' = Id \cup {n} /\ Len(cls') = n
  BY <1>1, <1>4, JoinKeeps DEF SolverInv, Assigning
<1>6. Id = 1..Len(cls) /\ Len(cls) \in Nat /\ Len(file) \in Nat /\ Len(cls) >= Len(file)
  BY <1>1, TypeFacts DEF SolverInv, Phases
<1>7. Id' = 1..n /\ n \in Id'
  BY <1>5, <1>6
<1>8. n \in LearntIds'
  BY <1>1, <1>6, <1>7 DEF LearntIds, learnt
<1>9. depcount' \in [Id' -> Nat]
  BY <1>1, <1>7
<1>10. Counting({})'
  <2>1. \A d : Cardinality(Namers({}, d))' = 0
    <3>1. \A d : Namers({}, d)' = {}
      BY DEF Namers
    <3> QED BY <3>1, FS_EmptySet
  <2>2. \A d \in LearntIds' : depcount'[d] = IF d = n THEN 1 ELSE 0
    BY <1>1, <1>7 DEF LearntIds
  <2>3. \A d \in LearntIds' : d \in cl_scheds' <=> depcount'[d] > 0
    BY <1>1, <2>2
  <2> QED BY <2>1, <2>2, <2>3, <1>1, <1>5, <1>8 DEF Counting
<1>11. \E V : Counting(V)'
  BY <1>10
<1> QED BY <1>1, <1>2, <1>9, <1>11 DEF WalkInv

LEMMA WalkKeeps ==
    ASSUME SolverInv, TraceInv, WalkInv, [Next]_vars
    PROVE  WalkInv'
<1>1. CASE UNCHANGED vars
  <2>1. UNCHANGED <<file, pc, cls, core, cl_scheds, depcount>>
    BY <1>1 DEF vars, solver, trace
  <2>2. /\ LearntIds' = LearntIds /\ \A c : LearntDeps(c)' = LearntDeps(c) /\ FileDeps(c)' = FileDeps(c)
        /\ \A S, d : Namers(S, d)' = Namers(S, d)
    BY <2>1, WalkStays
  <2>3. \A V : Counting(V) => Counting(V)'
    BY <2>1, <2>2 DEF Counting
  <2>4. \A V, D : Traversing(V, D) => Traversing(V, D)'
    <3> SUFFICES ASSUME NEW V, NEW D, Traversing(V, D) PROVE Traversing(V, D)'
      OBVIOUS
    <3>1. TraversingBy(V, D, cl_scheds', depcount', core')
      BY <2>1 DEF Traversing
    <3> QED BY <3>1, <2>1, TraversalAt
  <2>5. \A D : Collected(D) => Collected(D)'
    BY <2>1, <2>2 DEF Collected
  <2> QED BY <2>1, <2>3, <2>4, <2>5, WalkStays DEF WalkInv
<1>2. CASE Parsing \/ Search \/ Resolve \/ Learn \/ ResolveFinal
  <2>1. UNCHANGED <<file, core, cl_scheds>>
    BY <1>2 DEF Parsing, Search, Resolve, Learn, ResolveFinal, add_clause, solve, Dequeue, Visit, StartConflict,
                Restart, Decide, ModelFound, trace
  <2>2. /\ pc \notin {"count", "traverse", "unsat"}
        /\ pc' \notin {"count", "traverse", "unsat"}
    BY <1>2 DEF Parsing, Search, Resolve, Learn, ResolveFinal, add_clause, solve, Dequeue, Visit, StartConflict,
                Restart, Decide, ModelFound, Propagated, Searching, WatchTrue, FoundWatch, Unit, Contradicted, Conflict
  <2>3. core = {} /\ core' = {}
    BY <2>1, <2>2 DEF WalkInv
  <2> QED BY <2>1, <2>2, <2>3 DEF WalkInv
<1> QED BY <1>1, <1>2, CountKeeps, TraversalBegins, TraverseKeeps, TraversalEnds, WalkStarts
        DEF Next, Analysis, Core

LEMMA WalkInit ==
    ASSUME Init
    PROVE  WalkInv
  BY DEF Init, WalkInv

(* Of the clauses that lead to the empty one the least that an assignment  *)
(* does not satisfy would follow from satisfied ones.                      *)
LEMMA CoreHasNoModel ==
    ASSUME SolverInv, TraceInv, WalkInv, pc = "traverse", cl_scheds = {}
    PROVE  core \subseteq Id \ LearntIds /\ ~Satisfiable(LitsOf(core))
<1>1. core \subseteq Id \ LearntIds
  BY DEF WalkInv
<1>2. PICK D : Collected(D)
  BY AllIsCollected
<1>3. SUFFICES ASSUME NEW true, \A c \in core : Satisfies(true, cls[c].lits) PROVE FALSE
  BY <1>1 DEF Satisfiable, Models, LitsOf
<1> DEFINE Wrong == {d \in D : ~Satisfies(true, cls[d].lits)}
<1>4. D \subseteq LearntIds /\ Len(cls) \in D /\ \A c \in D : LearntDeps(c) \subseteq D /\ FileDeps(c) \subseteq core
  BY <1>2 DEF Collected
<1>5. Wrong \subseteq Nat
  BY <1>4, TypeFacts DEF SolverInv, LearntIds
<1>6. Len(cls) \in Wrong
  BY <1>4 DEF TraceInv, Satisfies
<1>7. PICK d \in Wrong : \A c \in Wrong : d <= c
  <2> HIDE DEF Wrong
  <2> QED BY <1>5, <1>6, LeastNatural
<1>8. d \in D /\ d \in Id /\ learnt(d) /\ ~Satisfies(true, cls[d].lits)
  BY <1>4, <1>7 DEF LearntIds
<1>9. Follows(cls, cls[d].deps, cls[d].lits)
  BY <1>8 DEF TraceInv, Traced, Id
<1>10. ASSUME NEW b \in cls[d].deps PROVE Satisfies(true, cls[b].lits)
  <2>1. b \in 1..(d - 1) /\ d \in Nat
    BY <1>8, <1>10, DepsComeBefore
  <2>2. CASE learnt(b)
    <3>1. b \in D
      BY <2>2, <1>4, <1>8, <1>10 DEF LearntDeps
    <3>2. ~(d <= b)
      BY <2>1
    <3> QED BY <3>1, <3>2, <1>7
  <2>3. CASE ~learnt(b)
    <3>1. b \in core
      BY <2>3, <1>4, <1>8, <1>10 DEF FileDeps
    <3> QED BY <3>1, <1>3
  <2> QED BY <2>2, <2>3
<1> QED BY <1>8, <1>9, <1>10 DEF Follows

-----------------------------------------------------------------------------
(* On the trail levels only rise. *)
LEMMA LevelsRise ==
    ASSUME SolverInv, NEW j \in DOMAIN trail, NEW k \in DOMAIN trail, j <= k
    PROVE  trail[j].level <= trail[k].level
<1>1. trail[j].level \in Nat /\ trail[k].level \in Nat /\ j \in Nat /\ k \in Nat
  BY TypeFacts DEF SolverInv
<1>2. SUFFICES ASSUME trail[j].level > 0 PROVE trail[k].level >= trail[j].level
  BY <1>1
<1>3. trail[j].level \in DOMAIN trail_lim /\ trail_lim[trail[j].level] \in Nat
  <2>1. trail[j].level <= Len(trail_lim)
    BY DEF SolverInv, Assigning, Sound, Leveled
  <2>2. trail[j].level \in 1..decisionLevel
    BY <2>1, <1>1, <1>2, TypeFacts DEF SolverInv, decisionLevel
  <2> QED BY <2>2, TypeFacts DEF SolverInv
<1>4. j > trail_lim[trail[j].level]
  BY <1>1, <1>3 DEF SolverInv, Assigning, Sound, Leveled
<1>5. k > trail_lim[trail[j].level]
  BY <1>1, <1>3, <1>4
<1> QED BY <1>3, <1>5 DEF SolverInv, Assigning, Sound, Leveled

LEMMA TypeIsOK ==
    ASSUME SolverInv, TraceInv, WalkInv
    PROVE  TypeOK
<1>1. \A c \in Id : /\ cls[c].lits \subseteq Literals
                    /\ Range(cls[c].watch) \subseteq cls[c].lits
                    /\ cls[c].deps \subseteq Id
  BY TypeFacts, DepsComeBefore DEF SolverInv, Watching, WellWatched
<1>2. ASSUME NEW k \in DOMAIN trail
      PROVE  trail[k].lit \in Literals /\ trail[k].reason \in Id \cup {0} /\ trail[k].level \in Nat
  BY TypeFacts DEF SolverInv, Assigning, Sound, Reasoned, Id
<1>3. Range(trail_lim) \subseteq 0..Len(trail)
  <2> SUFFICES ASSUME NEW i \in DOMAIN trail_lim PROVE trail_lim[i] \in 0..Len(trail)
    BY DEF Range
  <2>1. trail_lim[i] \in Nat /\ trail_lim[i] < Len(trail)
    BY TypeFacts DEF SolverInv, Assigning, Sound, Leveled
  <2> QED BY <2>1, TypeFacts DEF SolverInv
<1>4. Range(todo) \subseteq Id
  <2> SUFFICES ASSUME NEW i \in DOMAIN todo PROVE todo[i] \in Id
    BY DEF Range
  <2>1. DOMAIN todo = 1..Len(todo) /\ Len(todo) \in Nat
    BY LenProperties DEF SolverInv, TypeInv
  <2>2. todo # <<>>
    BY <2>1
  <2>3. /\ p \in Literals /\ Len(watches[p]) \in Nat
        /\ Len(watches[p]) - Len(todo) + 1 \in 1..Len(watches[p])
    BY <2>2, AtHand DEF SolverInv
  <2>4. watches[p] \in Seq(Nat) /\ DOMAIN watches[p] = 1..Len(watches[p])
    BY <2>3, LenProperties DEF SolverInv, TypeInv
  <2>5. todo[i] = watches[p][Len(watches[p]) - Len(todo) + i]
    BY <2>2 DEF SolverInv, Walking
  <2>6. Len(watches[p]) - Len(todo) + i \in DOMAIN watches[p]
    BY <2>1, <2>3, <2>4
  <2>7. todo[i] \in Range(watches[p])
    BY <2>5, <2>6 DEF Range
  <2> QED BY <2>3, <2>7 DEF SolverInv, Watching, WatchesAgree
<1>5. core \subseteq Id /\ cl_scheds \subseteq Id
  <2>1. CASE pc = "count"
    BY <2>1 DEF WalkInv, Counting, LearntIds
  <2>2. CASE pc = "traverse"
    BY <2>2 DEF WalkInv, Traversing, TraversingBy, LearntIds
  <2>3. CASE pc \notin {"count", "traverse"}
    BY <2>3 DEF WalkInv
  <2> QED BY <2>1, <2>2, <2>3 DEF WalkInv
<1>6. DOMAIN watches = Literals
  BY DEF SolverInv, TypeInv
<1> QED BY <1>1, <1>2, <1>3, <1>4, <1>5, <1>6 DEF TypeOK, SolverInv, TypeInv

LEMMA IsConsistent ==
    ASSUME SolverInv, TraceInv, WalkInv
    PROVE  SolverConsistent
<1>1. ReasonsImply
  <2> SUFFICES ASSUME NEW k \in DOMAIN trail, trail[k].reason # 0,
                      NEW c, c = cls[trail[k].reason]
               PROVE  /\ c.watch[1] = trail[k].lit
                      /\ \A l \in c.lits \ {trail[k].lit} :
                           \E j \in 1..(k - 1) : trail[j].lit = -l /\ trail[j].level <= trail[k].level
    BY DEF ReasonsImply
  <2>1. Explains(c, trail, k)
    BY DEF SolverInv, Assigning, Sound, Reasoned
  <2>2. \A j \in 1..(k - 1) : trail[j].level <= trail[k].level
    <3> SUFFICES ASSUME NEW j \in 1..(k - 1) PROVE trail[j].level <= trail[k].level
      OBVIOUS
    <3>1. j \in DOMAIN trail /\ j <= k
      BY TypeFacts DEF SolverInv
    <3> QED BY <3>1, LevelsRise
  <2> QED BY <2>1, <2>2 DEF Explains
<1>2. WatchesAgree /\ HeapComplete
  BY DEF SolverInv, Watching, Queueing
<1> QED BY <1>1, <1>2, TypeIsOK DEF SolverConsistent

(* In mscore, whatever the file: the lists of watches agree with the       *)
(* clauses although propagate changes both while it walks them, each       *)
(* reason implies its literal from what was false before, and no variable  *)
(* that cancelUntil or newVars left unassigned is missing from the heap.   *)
THEOREM SolverIsConsistent == Spec => []SolverConsistent
<1>1. Init => SolverInv /\ TraceInv /\ WalkInv
  BY SolverInit, TraceInit, WalkInit
<1>2. SolverInv /\ TraceInv /\ WalkInv /\ [Next]_vars => (SolverInv /\ TraceInv /\ WalkInv)'
  BY SolverStays, TraceKeeps, WalkKeeps
<1>3. SolverInv /\ TraceInv /\ WalkInv => SolverConsistent
  BY IsConsistent
<1> QED BY <1>1, <1>2, <1>3, PTL DEF Spec

-----------------------------------------------------------------------------
(* Propagation.  Of a clause that is watched by a literal false since the  *)
(* k-th assignment the other watch has been true since that level or       *)
(* before: then no backjump can leave the first false and take the other.  *)
Helped(w, t, k) ==
    \E j \in DOMAIN t : t[j].lit \in Range(w) \ {-t[k].lit} /\ t[j].level <= t[k].level

Covered(w, t, k) == Len(w) = 2 /\ -t[k].lit \in Range(w) => Helped(w, t, k)

(* The clauses that nothing watches. *)
UnitHolds(c, t) ==
    \E l \in c.lits : c.lits = {l} /\ \E k \in DOMAIN t : t[k].lit = l /\ t[k].level = 0

PropInv ==
    /\ pc \in {"parse", "search", "analyze"} /\ st_confl = 0 =>
         \A c \in Id : Len(cls[c].watch) # 2 => UnitHolds(cls[c], trail)
    /\ pc = "search" => \A c \in Id, k \in DOMAIN trail :
         k <= qhead /\ ~(k = qhead /\ c \in Range(todo)) => Covered(cls[c].watch, trail, k)
    /\ pc = "analyze" => \A c \in Id, k \in DOMAIN trail :
         trail[k].level < decisionLevel => Covered(cls[c].watch, trail, k)

(* What stays with all of its level and the levels before stays covered. *)
LEMMA CoverKept ==
    ASSUME NEW t, NEW u, NEW w, NEW k \in DOMAIN u, u[k] = t[k], Covered(w, t, k),
           \A j \in DOMAIN t : t[j].level <= t[k].level => j \in DOMAIN u /\ u[j] = t[j]
    PROVE  Covered(w, u, k)
<1> SUFFICES ASSUME Len(w) = 2, -u[k].lit \in Range(w) PROVE Helped(w, u, k)
  BY DEF Covered
<1>1. PICK j \in DOMAIN t : t[j].lit \in Range(w) \ {-t[k].lit} /\ t[j].level <= t[k].level
  BY DEF Covered, Helped
<1>2. j \in DOMAIN u /\ u[j] = t[j]
  BY <1>1
<1> QED BY <1>1, <1>2 DEF Helped

LEMMA UnitKept ==
    ASSUME NEW t, NEW u, NEW c, UnitHolds(c, t),
           \A j \in DOMAIN t : t[j].level = 0 => j \in DOMAIN u /\ u[j] = t[j]
    PROVE  UnitHolds(c, u)
  BY DEF UnitHolds

(* The literal taken up last is of the current level. *)
LEMMA LevelAtHand ==
    ASSUME SolverInv, todo # <<>>
    PROVE  /\ qhead \in DOMAIN trail /\ trail[qhead].level = decisionLevel
           /\ \A k \in DOMAIN trail : trail[k].level \in Nat /\ trail[k].level <= decisionLevel
           /\ decisionLevel \in Nat
           /\ \A k \in DOMAIN trail : trail[k].level < decisionLevel => k < qhead
<1>1. qhead \in DOMAIN trail /\ decisionLevel \in Nat
  BY AtHand, TypeFacts DEF SolverInv
<1>2. \A k \in DOMAIN trail : trail[k].level \in Nat /\ trail[k].level <= decisionLevel
  BY TypeFacts DEF SolverInv, Assigning, Sound, Leveled, decisionLevel
<1>3. CASE decisionLevel = 0
  BY <1>1, <1>2, <1>3
<1>4. CASE decisionLevel > 0
  <2>1. decisionLevel \in DOMAIN trail_lim /\ trail_lim[decisionLevel] \in Nat
    BY <1>1, <1>4, TypeFacts DEF SolverInv
  <2>2. qhead > trail_lim[decisionLevel]
    BY <1>4 DEF SolverInv, Walking
  <2>3. \A k \in DOMAIN trail : trail[k].level >= decisionLevel <=> k > trail_lim[decisionLevel]
    BY <2>1 DEF SolverInv, Assigning, Sound, Leveled
  <2>4. trail[qhead].level >= decisionLevel
    BY <1>1, <2>2, <2>3
  <2>5. ASSUME NEW k \in DOMAIN trail, trail[k].level < decisionLevel PROVE k < qhead
    <3>1. ~(trail[k].level >= decisionLevel) /\ k \in Nat /\ qhead \in Nat
      BY <2>5, <1>1, <1>2, TypeFacts DEF SolverInv
    <3> QED BY <3>1, <2>1, <2>2, <2>3
  <2> QED BY <1>1, <1>2, <2>4, <2>5
<1> QED BY <1>1, <1>3, <1>4

(* The other watch of the clause at hand is not false by what was taken up *)
(* before: by then the clause would have moved on or have been satisfied.  *)
LEMMA FirstIsFresh ==
    ASSUME SolverInv, PropInv, todo # <<>>, NEW c, c = Head(todo),
           NEW k \in DOMAIN trail, k <= qhead
    PROVE  trail[k].lit # -first(c)
<1> SUFFICES ASSUME trail[k].lit = -first(c) PROVE FALSE
  OBVIOUS
<1>1. /\ pc = "search" /\ c \in Id /\ Len(cls[c].watch) = 2 /\ qhead \in DOMAIN trail
      /\ p \in Literals /\ first(c) \in Literals /\ first(c) # -p /\ Range(cls[c].watch) = {first(c), -p}
  BY AtHand DEF SolverInv, Walking
<1>2. -(-first(c)) = first(c) /\ -(-p) = p
  BY <1>1, TypeFacts DEF SolverInv
<1>3. k # qhead
  BY <1>1, <1>2 DEF p
<1>4. Covered(cls[c].watch, trail, k)
  BY <1>1, <1>3 DEF PropInv
<1>5. Helped(cls[c].watch, trail, k)
  BY <1>1, <1>2, <1>4 DEF Covered
<1>6. PICK j \in DOMAIN trail : trail[j].lit \in Range(cls[c].watch) \ {-trail[k].lit}
  BY <1>5 DEF Helped
<1>7. trail[j].lit = -trail[qhead].lit
  BY <1>1, <1>2, <1>6 DEF p
<1> QED BY <1>1, <1>7 DEF SolverInv, Assigning, Sound, Distinct

LEMMA VisitCovers ==
    ASSUME SolverInv, PropInv, Visit
    PROVE  PropInv'
<1>1. pc = "search" /\ todo # <<>> /\ UNCHANGED <<file, trail_lim, st_confl>>
  BY DEF Visit
<1>2. PICK c : c = Head(todo)
  OBVIOUS
<1>3. WatchTrue(c) \/ FoundWatch(c) \/ Unit(c) \/ Contradicted(c)
  BY <1>2 DEF Visit
<1>4. /\ c \in Id /\ Len(cls[c].watch) = 2 /\ Range(cls[c].watch) = {first(c), -p}
      /\ p \in Literals /\ -p \in cls[c].lits /\ False(-p)
      /\ first(c) \in cls[c].lits /\ first(c) # -p /\ first(c) \in Literals
  BY <1>1, <1>2, AtHand DEF SolverInv
<1>5. /\ qhead \in DOMAIN trail /\ trail[qhead].level = decisionLevel
      /\ \A k \in DOMAIN trail : trail[k].level \in Nat /\ trail[k].level <= decisionLevel
      /\ decisionLevel \in Nat
      /\ \A k \in DOMAIN trail : trail[k].level < decisionLevel => k < qhead
  BY <1>1, LevelAtHand
<1>6. \A l \in Literals : -(-l) = l
  BY TypeFacts DEF SolverInv
<1>7. SUFFICES ASSUME NEW l \in cls[c].lits, l # first(c), cls' = Rewatched(c, l),
                      FoundWatch(c) => l \in NewWatches(c),
                      ~FoundWatch(c) => l = -p
               PROVE  PropInv'
  <2>1. CASE FoundWatch(c)
    BY <2>1 DEF FoundWatch, NewWatches
  <2>2. CASE ~FoundWatch(c)
    BY <1>3, <1>4, <2>2 DEF WatchTrue, Unit, Contradicted
  <2> QED BY <2>1, <2>2
<1>8. /\ Id' = Id /\ \A d \in Id : cls'[d].lits = cls[d].lits
      /\ \A d \in Id \ {c} : cls'[d] = cls[d]
      /\ Len(cls'[c].watch) = 2 /\ Range(cls'[c].watch) = {first(c), l}
  BY <1>1, <1>2, <1>7, RewatchedKeeps DEF SolverInv
<1>9. CASE Contradicted(c)
  <2>1. /\ pc' \in {"analyze", "final"} /\ UNCHANGED trail /\ l = -p /\ decisionLevel' = decisionLevel
    BY <1>1, <1>7, <1>9 DEF Contradicted, Conflict, FoundWatch, decisionLevel
  <2>2. ASSUME NEW d \in Id, NEW k \in DOMAIN trail, trail[k].level < decisionLevel
        PROVE  Covered(cls'[d].watch, trail, k)
    <3>1. Covered(cls[d].watch, trail, k)
      <4>1. k < qhead /\ k \in Nat /\ qhead \in Nat
        BY <2>2, <1>5, TypeFacts DEF SolverInv
      <4>2. k <= qhead /\ k # qhead
        BY <4>1
      <4> QED BY <4>2, <1>1 DEF PropInv
    <3>2. CASE d = c
      BY <3>1, <3>2, <2>1, <1>4, <1>8 DEF Covered, Helped
    <3>3. CASE d # c
      BY <3>1, <3>3, <1>8
    <3> QED BY <3>2, <3>3
  <2>3. \A d \in Id : st_confl = 0 /\ Len(cls'[d].watch) # 2 => UnitHolds(cls'[d], trail)
    BY <1>1, <1>8 DEF PropInv
  <2> QED BY <2>1, <2>2, <2>3, <1>1, <1>8 DEF PropInv
<1>10. CASE ~Contradicted(c)
  <2>1. UNCHANGED <<pc, qhead>> /\ todo' = Tail(todo)
    BY <1>3, <1>10 DEF WatchTrue, FoundWatch, Unit
  <2>2. DOMAIN trail' \subseteq Nat \ {0} /\ \A k \in DOMAIN trail : k \in DOMAIN trail' /\ trail'[k] = trail[k]
    <3>1. CASE Unit(c)
      <4>1. Entry(first(c), c, decisionLevel) \in Entries(Literals)
        BY <1>4, <1>5, TypeFacts DEF SolverInv, Entry, Entries
      <4>2. /\ trail' \in Seq(Entries(Literals)) /\ Len(trail') = Len(trail) + 1
            /\ \A k \in DOMAIN trail : trail'[k] = trail[k]
        BY <3>1, <4>1, TrailGrows DEF Unit, SolverInv
      <4>3. DOMAIN trail' = 1..Len(trail')
        BY <4>2, LenProperties
      <4> QED BY <4>2, <4>3, TypeFacts DEF SolverInv
    <3>2. CASE ~Unit(c)
      <4>1. UNCHANGED trail
        BY <3>2, <1>3, <1>10 DEF WatchTrue, FoundWatch
      <4> QED BY <4>1, TypeFacts DEF SolverInv
    <3> QED BY <3>1, <3>2
  <2>3. Range(todo) \subseteq {c} \cup Range(todo')
    <3>1. todo \in Seq(Nat)
      BY DEF SolverInv, TypeInv
    <3>2. /\ todo' \in Seq(Nat) /\ Len(todo') = Len(todo) - 1
          /\ \A i \in 1..Len(todo') : todo'[i] = todo[i + 1]
      BY <3>1, <2>1, <1>1, HeadTailProperties
    <3>3. DOMAIN todo = 1..Len(todo) /\ DOMAIN todo' = 1..Len(todo') /\ Len(todo) \in Nat /\ todo[1] = c
      BY <3>1, <3>2, <1>2, LenProperties
    <3> SUFFICES ASSUME NEW i \in DOMAIN todo, i # 1 PROVE todo[i] \in Range(todo')
      BY <3>3 DEF Range
    <3>4. i - 1 \in DOMAIN todo' /\ todo'[i - 1] = todo[i]
      BY <3>2, <3>3
    <3> QED BY <3>4 DEF Range
  <2>4. ASSUME NEW d \in Id, NEW k \in DOMAIN trail, k <= qhead, ~(k = qhead /\ d \in Range(todo'))
        PROVE  Covered(cls'[d].watch, trail', k)
    <3>1. CASE d # c
      <4>1. ~(k = qhead /\ d \in Range(todo))
        BY <2>3, <2>4, <3>1
      <4>2. Covered(cls[d].watch, trail, k)
        BY <4>1, <2>4, <1>1 DEF PropInv
      <4>3. Covered(cls[d].watch, trail', k)
        BY <4>2, <2>2, CoverKept
      <4> QED BY <4>3, <3>1, <1>8
    <3>2. CASE d = c
      <4> SUFFICES ASSUME -trail'[k].lit \in {first(c), l} PROVE Helped(cls'[c].watch, trail', k)
        BY <3>2, <1>8 DEF Covered
      <4>1. trail'[k] = trail[k] /\ trail[k].lit \in Literals
        BY <2>2, TypeFacts DEF SolverInv
      <4>2. trail[k].lit # -first(c)
        BY <1>1, <1>2, <2>4, FirstIsFresh
      <4>3. -trail[k].lit = l /\ trail[k].lit = -l
        BY <4>1, <4>2, <1>4, <1>6
      <4>4. False(l)
        BY <4>3 DEF False, TrueLits
      <4>5. l = -p /\ ~FoundWatch(c)
        BY <4>4, <1>7 DEF NewWatches
      <4>6. k = qhead
        <5>1. trail[k].lit = trail[qhead].lit
          BY <4>3, <4>5, <1>4, <1>6 DEF p
        <5> QED BY <5>1, <1>5 DEF SolverInv, Assigning, Sound, Distinct
      <4>7. \E j \in DOMAIN trail' : trail'[j].lit = first(c) /\ trail'[j].level <= decisionLevel
        <5>1. CASE WatchTrue(c)
          <6>1. PICK j \in DOMAIN trail : trail[j].lit = first(c)
            BY <5>1 DEF WatchTrue, True, TrueLits
          <6> QED BY <6>1, <2>2, <1>5
        <5>2. CASE Unit(c)
          <6> DEFINE e == Entry(first(c), c, decisionLevel)
          <6>1. e \in Entries(Literals) /\ e.lit = first(c) /\ e.level = decisionLevel
            BY <1>4, <1>5, TypeFacts DEF SolverInv, Entry, Entries
          <6>2. trail' = Append(trail, e)
            BY <5>2 DEF Unit
          <6> HIDE DEF e
          <6>3. trail'[Len(trail) + 1] = e /\ Len(trail) + 1 \in DOMAIN trail'
            BY <6>1, <6>2, TypeFacts, AppendProperties, LenProperties DEF SolverInv
          <6> QED BY <6>1, <6>3, <1>5
        <5> QED BY <5>1, <5>2, <4>5, <1>3, <1>10
      <4> QED BY <4>1, <4>3, <4>5, <4>6, <4>7, <1>4, <1>5, <1>8 DEF Helped
    <3> QED BY <3>1, <3>2
  <2>5. \A d \in Id : st_confl = 0 /\ Len(cls'[d].watch) # 2 => UnitHolds(cls'[d], trail')
    <3> SUFFICES ASSUME NEW d \in Id, st_confl = 0, Len(cls'[d].watch) # 2 PROVE UnitHolds(cls'[d], trail')
      OBVIOUS
    <3>1. d # c /\ cls'[d] = cls[d]
      BY <1>8
    <3>2. UnitHolds(cls[d], trail)
      BY <3>1, <1>1 DEF PropInv
    <3> QED BY <3>1, <3>2, <2>2, UnitKept
  <2>6. \A k \in DOMAIN trail' : k <= qhead => k \in DOMAIN trail
    <3>1. DOMAIN trail = 1..Len(trail) /\ Len(trail) \in Nat /\ qhead \in Nat /\ qhead <= Len(trail)
      BY <1>5, TypeFacts DEF SolverInv
    <3>2. DOMAIN trail' \subseteq Nat \ {0}
      BY <2>2
    <3> QED BY <3>1, <3>2
  <2> QED BY <2>1, <2>4, <2>5, <2>6, <1>1, <1>8 DEF PropInv
<1> QED BY <1>9, <1>10

(* What a literal wakes up is not missed before it was walked. *)
LEMMA DequeueCovers ==
    ASSUME SolverInv, PropInv, Dequeue
    PROVE  PropInv'
<1>1. /\ pc = "search" /\ todo = <<>> /\ qhead' = qhead + 1 /\ todo' = watches[trail[qhead + 1].lit]
      /\ UNCHANGED <<pc, cls, trail, st_confl>>
  BY DEF Dequeue
<1>2. Id' = Id
  BY <1>1 DEF Id
<1>3. qhead \in Nat /\ DOMAIN trail \subseteq Nat
  BY TypeFacts DEF SolverInv, TypeInv
<1>4. ASSUME NEW c \in Id, NEW k \in DOMAIN trail, k <= qhead + 1, ~(k = qhead + 1 /\ c \in Range(todo'))
      PROVE  Covered(cls[c].watch, trail, k)
  <2>1. CASE k = qhead + 1
    <3>1. trail[k].lit \in Literals
      BY TypeFacts DEF SolverInv
    <3>2. ~(Len(cls[c].watch) = 2 /\ -trail[k].lit \in Range(cls[c].watch))
      BY <2>1, <3>1, <1>1, <1>4 DEF SolverInv, Watching, WatchesAgree
    <3> QED BY <3>2 DEF Covered
  <2>2. CASE k # qhead + 1
    <3>1. k <= qhead
      BY <2>2, <1>3, <1>4
    <3>2. c \notin Range(todo)
      BY <1>1 DEF Range
    <3> QED BY <3>1, <3>2, <1>1 DEF PropInv
  <2> QED BY <2>1, <2>2
<1> QED BY <1>1, <1>2, <1>4 DEF PropInv

(* A decision takes nothing from what is covered. *)
LEMMA DecideCovers ==
    ASSUME SolverInv, PropInv, Decide
    PROVE  PropInv'
<1>1. pc = "search" /\ UNCHANGED <<pc, cls, todo, qhead, st_confl>>
  BY DEF Decide, Searching, Propagated
<1>2. SUFFICES ASSUME NEW x \in heap, trail' = Append(trail, Entry(-x, 0, decisionLevel + 1))
               PROVE  PropInv'
  BY DEF Decide
<1>3. x \in Variables
  BY DEF SolverInv, TypeInv
<1>4. Entry(-x, 0, decisionLevel + 1) \in Entries(Literals)
  BY <1>3, TypeFacts DEF SolverInv, Entry, Entries, Literals
<1>5. /\ trail' \in Seq(Entries(Literals)) /\ Len(trail') = Len(trail) + 1
      /\ \A k \in DOMAIN trail : trail'[k] = trail[k]
  BY <1>2, <1>4, TrailGrows DEF SolverInv
<1>6. /\ DOMAIN trail' = 1..(Len(trail) + 1) /\ DOMAIN trail = 1..Len(trail) /\ Len(trail) \in Nat
      /\ qhead \in 0..Len(trail)
  BY <1>5, TypeFacts, LenProperties DEF SolverInv, TypeInv
<1>7. \A k \in DOMAIN trail : k \in DOMAIN trail' /\ trail'[k] = trail[k]
  BY <1>5, <1>6
<1>8. Id' = Id
  BY <1>1 DEF Id
<1>9. ASSUME NEW c \in Id, NEW k \in DOMAIN trail', k <= qhead, ~(k = qhead /\ c \in Range(todo))
      PROVE  Covered(cls[c].watch, trail', k)
  <2>1. k \in DOMAIN trail
    BY <1>6, <1>9
  <2>2. Covered(cls[c].watch, trail, k)
    BY <2>1, <1>1, <1>9 DEF PropInv
  <2> QED BY <2>1, <2>2, <1>7, CoverKept
<1>10. \A c \in Id : st_confl = 0 /\ Len(cls[c].watch) # 2 => UnitHolds(cls[c], trail')
  BY <1>1, <1>7, UnitKept DEF PropInv
<1> QED BY <1>1, <1>8, <1>9, <1>10 DEF PropInv

(* Cut back to a level, everything left is covered. *)
LEMMA CutCovers ==
    ASSUME SolverInv, PropInv, pc \in {"search", "analyze"}, st_confl = 0,
           NEW level \in 0..decisionLevel, pc = "analyze" => level < decisionLevel,
           pc = "search" => todo = <<>> /\ qhead = Len(trail)
    PROVE  /\ \A c \in Id, k \in DOMAIN Upto(level) : Covered(cls[c].watch, Upto(level), k)
           /\ \A c \in Id : Len(cls[c].watch) # 2 => UnitHolds(cls[c], Upto(level))
<1>1. /\ DOMAIN Upto(level) = 1..Kept(level) /\ Kept(level) \in Nat
      /\ \A k \in DOMAIN Upto(level) : k \in DOMAIN trail /\ Upto(level)[k] = trail[k]
      /\ \A k \in DOMAIN trail : k <= Kept(level) <=> trail[k].level <= level
  BY Cancelled DEF SolverInv
<1>2. /\ DOMAIN trail = 1..Len(trail) /\ Len(trail) \in Nat /\ \A k \in DOMAIN trail : trail[k].level \in Nat
      /\ decisionLevel \in Nat /\ level \in Nat /\ level <= decisionLevel
  BY TypeFacts DEF SolverInv
<1> DEFINE u == Upto(level)
<1> HIDE DEF u
<1>3. /\ \A k \in DOMAIN u : k \in DOMAIN trail /\ u[k] = trail[k] /\ trail[k].level <= level
      /\ \A k \in DOMAIN trail : trail[k].level <= level => k \in DOMAIN u /\ u[k] = trail[k]
  BY <1>1, <1>2 DEF u
<1>4. ASSUME NEW c \in Id, NEW k \in DOMAIN u PROVE Covered(cls[c].watch, u, k)
  <2>1. Covered(cls[c].watch, trail, k)
    <3>1. k \in DOMAIN trail
      BY <1>3
    <3>2. CASE pc = "analyze"
      <4>1. trail[k].level < decisionLevel
        BY <3>2, <1>2, <1>3
      <4> QED BY <3>1, <3>2, <4>1 DEF PropInv
    <3>3. CASE pc = "search"
      <4>1. k <= qhead /\ c \notin Range(todo)
        BY <3>1, <3>3, <1>2 DEF Range
      <4> QED BY <3>1, <3>3, <4>1 DEF PropInv
    <3> QED BY <3>2, <3>3
  <2>2. \A j \in DOMAIN trail : trail[j].level <= trail[k].level => j \in DOMAIN u /\ u[j] = trail[j]
    <3> SUFFICES ASSUME NEW j \in DOMAIN trail, trail[j].level <= trail[k].level PROVE trail[j].level <= level
      BY <1>3
    <3>1. trail[k].level <= level /\ k \in DOMAIN trail
      BY <1>3
    <3> QED BY <3>1, <1>2
  <2> QED BY <2>1, <2>2, <1>3, CoverKept
<1>5. ASSUME NEW c \in Id, Len(cls[c].watch) # 2 PROVE UnitHolds(cls[c], u)
  <2>1. UnitHolds(cls[c], trail)
    BY <1>5 DEF PropInv
  <2>2. \A j \in DOMAIN trail : trail[j].level = 0 => j \in DOMAIN u /\ u[j] = trail[j]
    BY <1>2, <1>3
  <2> QED BY <2>1, <2>2, UnitKept
<1> QED BY <1>4, <1>5 DEF u

LEMMA RestartCovers ==
    ASSUME SolverInv, PropInv, Restart
    PROVE  PropInv'
<1>1. /\ pc = "search" /\ todo = <<>> /\ qhead = Len(trail) /\ st_confl = 0
      /\ UNCHANGED <<pc, cls, st_confl>> /\ trail' = Upto(0)
  BY DEF Restart, Propagated, cancelUntil
<1>2. 0 \in 0..decisionLevel /\ Id' = Id
  BY <1>1, TypeFacts DEF SolverInv, Id
<1>3. /\ \A c \in Id, k \in DOMAIN trail' : Covered(cls[c].watch, trail', k)
      /\ \A c \in Id : Len(cls[c].watch) # 2 => UnitHolds(cls[c], trail')
  BY <1>1, <1>2, CutCovers
<1> QED BY <1>1, <1>2, <1>3 DEF PropInv

(* The learnt clause is watched by the literal it asserts and by one false *)
(* since the same level, or by nothing when there is no other.             *)
LEMMA LearnCovers ==
    ASSUME SolverInv, PropInv, Learn
    PROVE  PropInv'
<1>1. pc = "analyze" /\ pc' = "search" /\ UNCHANGED <<file, todo, st_confl>>
  BY DEF Learn
<1>2. SUFFICES ASSUME NEW l \in AtLevel, NEW level \in 0..decisionLevel,
                      AtLevel = {l}, IsLevelOf(resolvent \ {l}, level),
                      NEW watch \in LearntWatches(l, resolvent \ {l}),
                      cls' = Append(cls, Clause(resolvent, watch, dep_stack)),
                      trail' = Append(Upto(level), Entry(l, Len(cls) + 1, level)),
                      CancelLevels(level)
               PROVE  PropInv'
  BY DEF Learn
<1> DEFINE n == Len(cls) + 1
           r == Clause(resolvent, watch, dep_stack)
           e == Entry(l, n, level)
           u == Upto(level)
<1>3. /\ decisionLevel \in Nat /\ decisionLevel > 0 /\ level \in Nat /\ n \in Nat
      /\ resolvent \subseteq Literals /\ dep_stack \subseteq Nat /\ st_confl = 0
      /\ l \in resolvent /\ LevelOf(l) = decisionLevel
      /\ \A m \in resolvent : False(m) /\ (m # l => LevelOf(m) # decisionLevel)
  <2>1. decisionLevel \in Nat /\ decisionLevel > 0 /\ level \in Nat /\ n \in Nat
    BY <1>1, TypeFacts DEF SolverInv, Phases
  <2>2. resolvent \subseteq Literals /\ dep_stack \subseteq Nat
    BY TypeFacts DEF SolverInv, TypeInv
  <2>3. st_confl = 0 /\ \A m \in resolvent : False(m)
    BY <1>1, <2>1 DEF SolverInv, Phases
  <2>4. l \in resolvent /\ LevelOf(l) = decisionLevel /\ \A m \in resolvent : m # l => LevelOf(m) # decisionLevel
    BY <1>2 DEF AtLevel
  <2> QED BY <2>1, <2>2, <2>3, <2>4
<1>4. level < decisionLevel
  BY <1>2, <1>3 DEF IsLevelOf
<1>5. /\ u \in Seq(Entries(Literals)) /\ Len(u) = Kept(level) /\ Kept(level) \in Nat /\ DOMAIN u = 1..Kept(level)
      /\ \A k \in DOMAIN u : k \in DOMAIN trail /\ u[k] = trail[k]
      /\ \A k \in DOMAIN trail : k <= Kept(level) <=> trail[k].level <= level
  BY Cancelled DEF SolverInv
<1>6. /\ \A c \in Id, k \in DOMAIN u : Covered(cls[c].watch, u, k)
      /\ \A c \in Id : Len(cls[c].watch) # 2 => UnitHolds(cls[c], u)
  BY <1>1, <1>3, <1>4, CutCovers
<1> HIDE DEF u
<1>7. qhead' = Kept(level)
  BY <1>2, <1>4 DEF CancelLevels
<1>8. \/ resolvent = {l} /\ watch = <<l>> /\ level = 0
      \/ \E m \in resolvent \ {l} : watch = <<l, m>> /\ LevelOf(m) = level
  <2>1. CASE resolvent \ {l} = {}
    BY <2>1, <1>2, <1>3 DEF LearntWatches, IsLevelOf
  <2>2. CASE resolvent \ {l} # {}
    <3>1. PICK m \in LatestOf(resolvent \ {l}) : watch = <<l, m>>
      BY <2>2, <1>2 DEF LearntWatches
    <3>2. \A o \in resolvent : LevelOf(o) \in Nat
      BY <1>3, FalseIsPlaced DEF SolverInv
    <3>3. /\ m \in resolvent \ {l} /\ \A o \in resolvent \ {l} : LevelOf(o) <= LevelOf(m)
          /\ LevelOf(m) <= level /\ (level = 0 \/ \E o \in resolvent \ {l} : LevelOf(o) = level)
      BY <3>1, <1>2 DEF LatestOf, IsLevelOf
    <3>4. LevelOf(m) = level
      BY <3>2, <3>3, <1>3
    <3> QED BY <3>1, <3>3, <3>4
  <2> QED BY <2>1, <2>2
<1>9. watch \in Seq(Literals)
  <2>1. l \in Literals /\ resolvent \subseteq Literals
    BY <1>3
  <2>2. CASE watch = <<l>>
    BY <2>1, <2>2
  <2>3. CASE \E m \in resolvent \ {l} : watch = <<l, m>>
    BY <2>1, <2>3
  <2> QED BY <1>8, <2>2, <2>3
<1>10. r \in ClauseRecords /\ r.lits = resolvent /\ r.watch = watch
  BY <1>3, <1>9 DEF Clause, ClauseRecords
<1>11. e \in Entries(Literals) /\ e.lit = l /\ e.level = level
  BY <1>3 DEF Entry, Entries
<1> HIDE DEF r, e
<1>12. cls' = Append(cls, r) /\ trail' = Append(u, e)
  BY <1>2 DEF r, e, u
<1>13. /\ Id' = Id \cup {n} /\ cls'[n] = r /\ \A c \in Id : cls'[c] = cls[c]
  BY <1>10, <1>12, JoinKeeps DEF SolverInv, Assigning
<1>14. /\ \A k \in DOMAIN u : k \in DOMAIN trail' /\ trail'[k] = u[k]
       /\ DOMAIN trail' = 1..(Kept(level) + 1) /\ trail'[Kept(level) + 1] = e
  <2>1. /\ trail' \in Seq(Entries(Literals)) /\ Len(trail') = Kept(level) + 1
        /\ \A k \in DOMAIN u : trail'[k] = u[k]
        /\ trail'[Kept(level) + 1] = e
    BY <1>5, <1>11, <1>12, AppendProperties
  <2> QED BY <2>1, <1>5, LenProperties
<1>15. \A c \in Id' : Len(cls'[c].watch) # 2 => UnitHolds(cls'[c], trail')
  <2> SUFFICES ASSUME NEW c \in Id', Len(cls'[c].watch) # 2 PROVE UnitHolds(cls'[c], trail')
    OBVIOUS
  <2>1. CASE c \in Id
    <3>1. UnitHolds(cls[c], u) /\ cls'[c] = cls[c]
      BY <2>1, <1>6, <1>13
    <3> QED BY <3>1, <1>14, UnitKept
  <2>2. CASE c = n
    <3>1. watch = <<l>> /\ resolvent = {l} /\ level = 0
      BY <2>2, <1>8, <1>10, <1>13
    <3> QED BY <3>1, <2>2, <1>5, <1>10, <1>11, <1>13, <1>14 DEF UnitHolds
  <2> QED BY <2>1, <2>2, <1>13
<1>16. ASSUME NEW c \in Id', NEW k \in DOMAIN u PROVE Covered(cls'[c].watch, trail', k)
  <2>1. CASE c \in Id
    <3>1. Covered(cls[c].watch, u, k) /\ cls'[c] = cls[c]
      BY <2>1, <1>6, <1>13
    <3> QED BY <3>1, <1>14, CoverKept
  <2>2. CASE c = n
    <3> SUFFICES ASSUME Len(watch) = 2, -u[k].lit \in Range(watch) PROVE Helped(watch, trail', k)
      BY <2>2, <1>10, <1>13, <1>14 DEF Covered
    <3>1. PICK m \in resolvent \ {l} : watch = <<l, m>> /\ LevelOf(m) = level
      BY <1>8
    <3>2. Range(watch) = {l, m}
      BY <3>1 DEF Range
    <3>3. u[k].lit # -l
      <4>1. Place(l) \in DOMAIN trail /\ trail[Place(l)].lit = -l /\ trail[Place(l)].level = decisionLevel
        BY <1>3, FalseIsPlaced DEF SolverInv
      <4>2. k # Place(l) /\ k \in DOMAIN trail /\ u[k] = trail[k]
        BY <4>1, <1>3, <1>4, <1>5
      <4> QED BY <4>1, <4>2 DEF SolverInv, Assigning, Sound, Distinct
    <3>4. u[k].lit \in Literals /\ l \in Literals /\ m \in Literals /\ k \in DOMAIN trail /\ trail[k] = u[k]
      BY <1>3, <1>5, TypeFacts DEF SolverInv
    <3>5. -u[k].lit = m /\ u[k].lit = -m
      BY <3>2, <3>3, <3>4, TypeFacts DEF SolverInv
    <3>6. trail[k].level = level
      BY <3>1, <3>4, <3>5, OnePlace DEF SolverInv
    <3>7. Kept(level) + 1 \in DOMAIN trail' /\ trail'[Kept(level) + 1].lit = l /\ trail'[Kept(level) + 1].level = level
      BY <1>5, <1>11, <1>14
    <3> QED BY <3>1, <3>2, <3>4, <3>5, <3>6, <3>7, <1>3, <1>14 DEF Helped
  <2> QED BY <2>1, <2>2, <1>13
<1>17. \A k \in DOMAIN trail' : k <= qhead' => k \in DOMAIN u
  BY <1>5, <1>7, <1>14
<1> QED BY <1>1, <1>15, <1>16, <1>17 DEF PropInv

(* A unit clause of the file is true at once, or contradicted for good. *)
LEMMA AddClauseCovers ==
    ASSUME SolverInv, PropInv, add_clause
    PROVE  PropInv'
<1> DEFINE n == Len(cls) + 1
           lits == file[n]
           unit == least(lits)
           r == Clause(lits, Watched(lits), {})
           e == Entry(unit, n, 0)
<1>1. /\ pc = "parse" /\ Len(cls) < Len(file) /\ cls' = Append(cls, r) /\ UNCHANGED <<file, pc>>
      /\ trail' = (IF IsUnit(lits) /\ Unassigned(unit) THEN Append(trail, e) ELSE trail)
      /\ st_confl' = (IF IsUnit(lits) /\ False(unit) THEN n ELSE st_confl)
  BY DEF add_clause
<1>2. n \in Nat /\ n # 0 /\ lits \subseteq Literals /\ lits # {}
  BY <1>1, TypeFacts, SMTT(30) DEF SolverInv
<1>3. unit \in lits /\ Watched(lits) \in Seq(Literals)
  BY <1>2, WatchedIsWell DEF SolverInv
<1>4. r \in ClauseRecords /\ r.lits = lits /\ r.watch = Watched(lits)
  BY <1>2, <1>3 DEF Clause, ClauseRecords
<1>5. e \in Entries(Literals) /\ e.lit = unit /\ e.level = 0
  BY <1>2, <1>3 DEF Entry, Entries
<1> HIDE DEF r, e
<1>6. /\ Id' = Id \cup {n} /\ cls'[n] = r /\ \A c \in Id : cls'[c] = cls[c]
  BY <1>1, <1>4, JoinKeeps DEF SolverInv, Assigning
<1>7. IsUnit(lits) => lits = {unit}
  BY DEF IsUnit
<1>8. ~IsUnit(lits) => Len(Watched(lits)) = 2
  BY DEF Watched
<1> HIDE DEF n, lits, unit
<1>9. \A k \in DOMAIN trail : k \in DOMAIN trail' /\ trail'[k] = trail[k]
  <2>1. CASE IsUnit(lits) /\ Unassigned(unit)
    <3>1. trail' \in Seq(Entries(Literals)) /\ Len(trail') = Len(trail) + 1 /\ \A k \in DOMAIN trail : trail'[k] = trail[k]
      BY <2>1, <1>1, <1>5, TrailGrows DEF SolverInv
    <3> QED BY <3>1, TypeFacts, LenProperties DEF SolverInv
  <2>2. CASE ~(IsUnit(lits) /\ Unassigned(unit))
    BY <2>2, <1>1
  <2> QED BY <2>1, <2>2
<1>10. SUFFICES ASSUME st_confl' = 0, NEW c \in Id', Len(cls'[c].watch) # 2 PROVE UnitHolds(cls'[c], trail')
  BY <1>1 DEF PropInv
<1>11. st_confl = 0 /\ ~(IsUnit(lits) /\ False(unit))
  BY <1>1, <1>2, <1>10
<1>12. CASE c \in Id
  <2>1. cls'[c] = cls[c] /\ UnitHolds(cls[c], trail)
    BY <1>1, <1>6, <1>10, <1>11, <1>12 DEF PropInv
  <2> QED BY <2>1, <1>9, UnitKept
<1>13. CASE c = n
  <2>1. lits = {unit} /\ IsUnit(lits) /\ cls'[c].lits = lits
    BY <1>4, <1>6, <1>7, <1>8, <1>10, <1>13
  <2>2. CASE Unassigned(unit)
    <3>1. trail' = Append(trail, e)
      BY <2>1, <2>2, <1>1
    <3>2. trail'[Len(trail) + 1] = e /\ Len(trail) + 1 \in DOMAIN trail'
      BY <3>1, <1>5, TypeFacts, AppendProperties, LenProperties DEF SolverInv
    <3> QED BY <2>1, <3>2, <1>5 DEF UnitHolds
  <2>3. CASE True(unit)
    <3>1. PICK k \in DOMAIN trail : trail[k].lit = unit
      BY <2>3 DEF True, TrueLits
    <3>2. trail[k].level = 0
      <4>1. decisionLevel = 0
        BY <1>1 DEF SolverInv, Phases
      <4>2. trail[k].level <= 0 /\ trail[k].level \in Nat
        BY <4>1, TypeFacts DEF SolverInv, Assigning, Sound, Leveled, decisionLevel
      <4> QED BY <4>2
    <3> QED BY <2>1, <3>1, <3>2, <1>9 DEF UnitHolds
  <2> QED BY <2>1, <2>2, <2>3, <1>11 DEF Unassigned
<1> QED BY <1>6, <1>12, <1>13

LEMMA PropKeeps ==
    ASSUME SolverInv, PropInv, [Next]_vars
    PROVE  PropInv'
<1>1. CASE solve
  <2>1. pc = "parse" /\ pc' = "search" /\ UNCHANGED <<cls, trail, todo, qhead, st_confl>>
    BY <1>1 DEF solve, solver, assigned
  <2>2. qhead = 0 /\ DOMAIN trail \subseteq Nat \ {0} /\ Id' = Id
    BY <2>1, TypeFacts DEF SolverInv, Phases, Id
  <2> QED BY <2>1, <2>2 DEF PropInv
<1>2. CASE StartConflict \/ ModelFound \/ ResolveFinal \/ EndTrace \/ Core
  <2>1. pc' \notin {"parse", "search", "analyze"}
    BY <1>2 DEF StartConflict, Conflict, ModelFound, ResolveFinal, EndTrace, Core,
                compute_dep_counts, begin_traversal, next_cl2traverse, end_traversal
  <2> QED BY <2>1 DEF PropInv
<1>3. CASE Resolve \/ UNCHANGED vars
  <2>1. UNCHANGED <<pc, cls, trail, trail_lim, qhead, todo, st_confl>>
    BY <1>3 DEF Resolve, vars, solver, assigned
  <2>2. Id' = Id /\ decisionLevel' = decisionLevel
    BY <2>1 DEF Id, decisionLevel
  <2> QED BY <2>1, <2>2 DEF PropInv
<1> QED BY <1>1, <1>2, <1>3, AddClauseCovers, DequeueCovers, VisitCovers, RestartCovers, DecideCovers, LearnCovers
        DEF Next, Parsing, Search, Analysis

LEMMA PropInit ==
    ASSUME Init
    PROVE  PropInv
<1>1. pc = "parse" /\ Id = {}
  BY DEF Init, Id
<1> QED BY <1>1 DEF PropInv

LEMMA NothingMissed ==
    ASSUME SolverInv, PropInv
    PROVE  PropagationComplete
<1> SUFFICES ASSUME Propagated, st_confl = 0, NEW c \in Id, \A l \in cls[c].lits : ~True(l)
             PROVE  \E l, m \in cls[c].lits : l # m /\ ~False(l) /\ ~False(m)
  BY DEF PropagationComplete
<1>1. pc = "search" /\ todo = <<>> /\ qhead = Len(trail)
  BY DEF Propagated
<1>2. Len(cls[c].watch) = 2
  <2>1. Len(cls[c].watch) # 2 => UnitHolds(cls[c], trail)
    BY <1>1 DEF PropInv
  <2> QED BY <2>1 DEF UnitHolds, True, TrueLits
<1>3. DOMAIN cls[c].watch = {1, 2}
  <2>1. DOMAIN cls[c].watch = 1..2
    BY <1>2, TypeFacts, LenProperties DEF SolverInv
  <2> QED BY <2>1
<1>4. /\ cls[c].watch[1] # cls[c].watch[2] /\ Range(cls[c].watch) \subseteq cls[c].lits
      /\ cls[c].watch[1] \in Range(cls[c].watch) /\ cls[c].watch[2] \in Range(cls[c].watch)
  BY <1>2, <1>3 DEF SolverInv, Watching, WellWatched, Range
<1>5. ASSUME NEW l \in Range(cls[c].watch), False(l) PROVE FALSE
  <2>1. PICK k \in DOMAIN trail : trail[k].lit = -l
    BY <1>5 DEF False, TrueLits
  <2>2. k <= qhead /\ c \notin Range(todo)
    BY <1>1, TypeFacts DEF SolverInv, Range
  <2>3. Covered(cls[c].watch, trail, k)
    BY <2>2, <1>1 DEF PropInv
  <2>4. -trail[k].lit = l
    BY <2>1, <1>4, <1>5, TypeFacts DEF SolverInv
  <2>5. PICK j \in DOMAIN trail : trail[j].lit \in Range(cls[c].watch)
    BY <2>3, <2>4, <1>2, <1>5 DEF Covered, Helped
  <2> QED BY <2>5, <1>4 DEF True, TrueLits
<1> QED BY <1>4, <1>5

(* When propagate of mscore is through without a conflict no clause of any *)
(* file, read or learnt, has all its literals false or all but one: that   *)
(* only two watches move, that backjumps leave them where they are and     *)
(* that unit clauses have none loses nothing.                              *)
THEOREM NothingIsMissed == Spec => []PropagationComplete
<1>1. Init => SolverInv /\ PropInv
  BY SolverInit, PropInit
<1>2. SolverInv /\ PropInv /\ [Next]_vars => (SolverInv /\ PropInv)'
  BY SolverStays, PropKeeps
<1>3. SolverInv /\ PropInv => PropagationComplete
  BY NothingMissed
<1> QED BY <1>1, <1>2, <1>3, PTL DEF Spec

-----------------------------------------------------------------------------
(* The answers. *)
LEMMA ModelIsFound ==
    ASSUME SolverInv, TraceInv, PropInv, ModelFound
    PROVE  Falsified(Range(file), Variables \cap TrueLits) = {}
<1>1. /\ Propagated /\ pc = "search" /\ st_confl = 0 /\ \A x \in heap : ~Unassigned(x)
  BY DEF ModelFound, Searching, Propagated
<1>2. \A x \in Variables : True(x) \/ False(x)
  BY <1>1 DEF SolverInv, Queueing, HeapComplete, Unassigned
<1>3. /\ file \in Seq(SUBSET (Int \ {0})) /\ Len(file) \in Nat /\ DOMAIN file = 1..Len(file)
      /\ \A k \in DOMAIN file : file[k] \subseteq Literals
      /\ Id = 1..Len(cls) /\ Len(cls) \in Nat /\ Len(cls) >= Len(file)
      /\ Literals \subseteq Int \ {0} /\ \A l \in Literals : VarOf(l) \in Variables /\ -(-l) = l
      /\ \A c \in Id : cls[c].lits \subseteq Literals
  BY <1>1, TypeFacts DEF SolverInv, Phases
<1>4. \A l \in Literals : True(l) \/ False(l)
  <2> SUFFICES ASSUME NEW l \in Literals PROVE True(l) \/ False(l)
    OBVIOUS
  <2>1. VarOf(l) \in Variables /\ (l = VarOf(l) \/ -l = VarOf(l))
    BY <1>3 DEF VarOf
  <2>2. VarOf(l) \in TrueLits \/ -VarOf(l) \in TrueLits
    BY <2>1, <1>2 DEF True, False
  <2>3. -(-l) = l
    BY <1>3
  <2> QED BY <2>1, <2>2, <2>3 DEF True, False
<1>5. ASSUME NEW l \in Literals, True(l) PROVE Holds(l, Variables \cap TrueLits)
  <2>1. l \in Int \ {0} /\ VarOf(l) \in Variables
    BY <1>3, <1>5
  <2>2. -l \notin TrueLits
    <3>1. PICK j \in DOMAIN trail : trail[j].lit = l
      BY <1>5 DEF True, TrueLits
    <3>2. \A k \in DOMAIN trail : trail[j].lit # -trail[k].lit
      BY <3>1 DEF SolverInv, Assigning, Sound, Distinct
    <3>3. \A k \in DOMAIN trail : trail[k].lit # -l
      BY <3>1, <3>2, <1>3, TypeFacts DEF SolverInv
    <3> QED BY <3>3 DEF TrueLits
  <2> QED BY <2>1, <2>2, <1>5 DEF Holds, True, VarOf
<1>6. ASSUME NEW k \in DOMAIN file PROVE Satisfies(Variables \cap TrueLits, file[k])
  <2>1. k \in Id /\ ~learnt(k) /\ cls[k].lits = file[k]
    BY <1>3, <1>6 DEF TraceInv, Traced, learnt, Id
  <2>2. PropagationComplete
    BY NothingMissed
  <2>3. \E l \in cls[k].lits : True(l) \/ ~False(l)
    BY <2>1, <2>2, <1>1 DEF PropagationComplete
  <2>4. PICK l \in file[k] : True(l) /\ l \in Literals
    BY <2>1, <2>3, <1>3, <1>4
  <2> QED BY <2>4, <1>5 DEF Satisfies
<1> QED BY <1>6 DEF Falsified, Range

LEMMA AnswerStays ==
    ASSUME UNCHANGED <<file, pc, cls, core, model>>
    PROVE  UNCHANGED <<Range(file), Answered>>
  BY DEF Answered, Variables, LitsOf, NoAnswer

(* The answer of mscore on any file is, once and for good, an assignment   *)
(* that satisfies every clause, or clauses of the file that no assignment  *)
(* satisfies together: what msuncore takes it for.                         *)
THEOREM AnswersAreRight == Spec => ImplementsOracle
<1> DEFINE IInv == SolverInv /\ TraceInv /\ WalkInv /\ PropInv
<1>1. Init => IInv
  BY SolverInit, TraceInit, WalkInit, PropInit
<1>2. IInv /\ [Next]_vars => IInv'
  BY SolverStays, TraceKeeps, WalkKeeps, PropKeeps
<1>3. Init => Oracle!Init
  BY DEF Init, Oracle!Init, Answered
<1>4. /\ \A clauses, true : Oracle!Falsified(clauses, true) = Falsified(clauses, true)
      /\ \A clauses : Oracle!Satisfiable(clauses) = Satisfiable(clauses)
  BY DEF Oracle!Falsified, Oracle!Satisfiable, Oracle!Models, Oracle!Vars, Oracle!Satisfies, Oracle!Holds, Oracle!VarOf,
         Falsified, Satisfiable, Models, Vars, Satisfies, Holds, VarOf
<1>5. ASSUME IInv, IInv', [Next]_vars
      PROVE  [Oracle!Next]_<<Range(file), Answered>>
  <2>1. CASE ModelFound
    <3>1. pc = "search" /\ pc' = "sat" /\ UNCHANGED file /\ model' = TrueLits
      BY <2>1 DEF ModelFound, Searching, Propagated
    <3>2. Answered = NoAnswer /\ UNCHANGED Range(file) /\ Variables' = Variables
      BY <3>1 DEF Answered, Variables
    <3>3. Answered' = [status |-> "SAT", true |-> Variables \cap TrueLits]
      BY <3>1, <3>2 DEF Answered
    <3>4. Oracle!Sat
      BY <3>3, <1>5, <1>4, <2>1, ModelIsFound DEF Oracle!Sat
    <3> QED BY <3>2, <3>4 DEF Oracle!Next
  <2>2. CASE end_traversal
    <3>1. pc = "traverse" /\ cl_scheds = {} /\ pc' = "unsat" /\ UNCHANGED <<file, cls, core>>
      BY <2>2 DEF end_traversal, solver, trace
    <3>2. Answered = NoAnswer /\ UNCHANGED Range(file)
      BY <3>1 DEF Answered
    <3>3. Answered' = [status |-> "UNSAT", core |-> LitsOf(core)]
      BY <3>1 DEF Answered, LitsOf
    <3>4. core \subseteq Id \ LearntIds /\ ~Satisfiable(LitsOf(core))
      BY <3>1, <1>5, CoreHasNoModel
    <3>5. LitsOf(core) \subseteq Range(file)
      <4>1. \A c \in core : c \in DOMAIN file /\ cls[c].lits = file[c]
        BY <3>4, <1>5, TypeFacts DEF SolverInv, TraceInv, Traced, LearntIds, learnt, Id
      <4> QED BY <4>1 DEF LitsOf, Range
    <3>6. Oracle!Unsat
      BY <3>3, <3>4, <3>5, <1>4 DEF Oracle!Unsat
    <3> QED BY <3>2, <3>6 DEF Oracle!Next
  <2>3. CASE UNCHANGED vars
    BY <2>3, AnswerStays DEF vars, solver, trace
  <2>4. CASE Parsing \/ Search \/ Analysis \/ Core
    <3>1. CASE ModelFound \/ end_traversal
      BY <3>1, <2>1, <2>2
    <3>2. CASE ~(ModelFound \/ end_traversal)
      <4>1. UNCHANGED file /\ pc \notin {"sat", "unsat"} /\ pc' \notin {"sat", "unsat"}
        BY <2>4, <3>2
           DEF Parsing, Search, Analysis, Core, add_clause, solve, Dequeue, Visit, StartConflict, Restart, Decide,
               Propagated, Searching, WatchTrue, FoundWatch, Unit, Contradicted, Conflict,
               Resolve, Learn, ResolveFinal, EndTrace, compute_dep_counts, begin_traversal, next_cl2traverse
      <4>2. Answered = NoAnswer /\ Answered' = NoAnswer /\ UNCHANGED Range(file)
        BY <4>1 DEF Answered, NoAnswer
      <4> QED BY <4>2
    <3> QED BY <3>1, <3>2
  <2> QED BY <2>3, <2>4, <1>5 DEF Next
<1> QED BY <1>1, <1>2, <1>3, <1>5, PTL DEF Spec, ImplementsOracle, Oracle!Spec
=============================================================================
