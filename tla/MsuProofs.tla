----------------------------- MODULE MsuProofs -----------------------------
(***************************************************************************)
(* msuncore on every file, with every command line and whatever cores the  *)
(* solver names: the clauses are kept, the two bounds enclose the optimum  *)
(* and close in on it, and what is reported is true of the file.  That a   *)
(* run ends is left to TLC.                                                *)
(*                                                                         *)
(* The argument is about the assignments of the hard clauses.  Each has a  *)
(* cost, the soft clauses it falsifies (Missed).  The invariant says, for  *)
(* every one of them, what the constraints collected so far still let it   *)
(* do with the blocking variables.                                         *)
(***************************************************************************)
EXTENDS Msu, Loops

-----------------------------------------------------------------------------
(* The clauses as they were read, by their literals; the assignments that   *)
(* satisfy the hard ones, and the soft clauses one of them falsifies.       *)
SoftLits == {c.lits : c \in {d \in parse.clauses : IsSoft(d)}}
HardLits == {c.lits : c \in {d \in parse.clauses : ~IsSoft(d)}}
FormulaVars == Vars(SoftLits \cup HardLits)
HardModels == Models(HardLits, FormulaVars)
Missed(true) == Falsified(SoftLits, true)

(* Blocking variables are numbered for each clause; clauses at work. *)
Bvs == (SUBSET Int) \X Nat
Work == [lits : SUBSET Int, bvs : SUBSET Bvs, type : Int]

Held == clset \cup blkclset \cup (IF blkclset = {} THEN UNION coreset ELSE {})
Running == pc \in {"cores", "search"}

(* The first n blocking variables of a clause, and the clause without them. *)
VarsOf(lits, n) == {<<lits, i>> : i \in 0..(n - 1)}
Plain(c) == [lits |-> c.lits, bvs |-> {}, type |-> c.type]

(* H holds each clause of R once, with its first blocking variables. *)
KeptSet(H, R) ==
  /\ H \subseteq Work
  /\ \A c \in H : Plain(c) \in R
  /\ \A r \in R : \E c \in H : c.lits = r.lits
  /\ \A c, d \in H : c.lits = d.lits => c = d
  /\ \A c \in H : c.type # 0 => c.bvs = {}
  /\ \A c \in H : Cardinality(c.bvs) \in Nat /\ c.bvs = VarsOf(c.lits, Cardinality(c.bvs))

KeptInv == Running => KeptSet(Held, parse.clauses)

Fresh(cs) == \A c \in cs : c.bvs = {}

(* Where the clauses are in each phase of each algorithm. *)
ShapeInv ==
  /\ Running => opts.alg \in 1..3 /\ opts.enc \in Allowed(opts.alg) /\ iternum > 0
  /\ pc = "cores" =>
       /\ opts.alg = 3 /\ blkclset = {} /\ cardset = {} /\ nbvlb = 0
       /\ Fresh(clset) /\ Fresh(UNION coreset)
       /\ clset \cap UNION coreset = {}
       /\ \A c \in UNION coreset : IsSoft(c)
  /\ pc = "search" =>
       /\ opts.alg = 1 => blkclset = {} /\ coreset = {} /\ nbvlb = 0
       /\ opts.alg = 2 => coreset = {} /\ nbvlb = 0
       /\ opts.alg \in 2..3 => Fresh(clset) /\ \A c \in blkclset : c.bvs = VarsOf(c.lits, 1)
       /\ blkclset = {} => UNION coreset = {}

(* The blocking variables an assignment needs where each clause has one. *)
LitsIn(cs) == {c.lits : c \in cs}
Used(true) == {<<l, 0>> : l \in Missed(true) \cap LitsIn(blkclset)}
MeetsAll(t) == \A k \in cardset : Meets(t, k)

(* msu1: no more blocking variables can be used than cores were found; and *)
(* every assignment can use so many that as many fewer of its clauses are  *)
(* left falsified, no two of them on one clause.                           *)
Msu1Inv == pc = "search" /\ opts.alg = 1 =>
  /\ iternum = nunsat + 1 /\ minbs = nscls
  /\ \A t \in SUBSET blockvs : MeetsAll(t) => Cardinality(t) <= nunsat
  /\ \A true \in HardModels : \E t \in SUBSET blockvs :
       /\ MeetsAll(t)
       /\ \A c \in clset : Cardinality(t \cap c.bvs) <= 1
       /\ Cardinality({c \in INITs : ~At([true |-> true, bvs |-> t], c)}) + nunsat
            = Cardinality(Missed(true))

(* msu2: an assignment falsifies as many blocked clauses as there were     *)
(* cores and fits the constraints, or it is no better than the best model. *)
Msu2Inv == pc = "search" /\ opts.alg = 2 =>
  /\ lbv = nscls - minbs
  /\ iternum = 1 => cardset = {} /\ nunsat = 0 /\ blkclset = {} /\ minbs = nscls
  /\ iternum > 1 => nunsat < minbs /\ nunsat > 0
  /\ \A true \in HardModels :
       LET n == Cardinality(Missed(true) \cap LitsIn(blkclset))
       IN  (iternum > 1 /\ n >= minbs) \/ (n >= nunsat /\ MeetsAll(Used(true)))
  /\ nunsat <= Cardinality(blkclset)

(* msu3: one falsified clause in each of the disjoint cores; later as many *)
(* blocked clauses falsified as the bound says.                            *)
CoresInv == pc = "cores" =>
  /\ minbs = nscls
  /\ (nunsat = 0) <=> (coreset = {})
  /\ nunsat <= MaxCores
  /\ \A true \in HardModels :
       nunsat <= Cardinality(Missed(true) \cap LitsIn(UNION coreset))

Msu3Inv == pc = "search" /\ opts.alg = 3 =>
  /\ minbs = nscls
  /\ cardset = Bounded(blockvs, nbvlb)
  /\ nbvlb > 0 /\ nunsat <= nbvlb
  /\ HardModels # {}
  /\ \A true \in HardModels :
       nbvlb <= Cardinality(Missed(true) \cap LitsIn(blkclset))

(* What follows for the bounds, and for what is reported. *)
BoundInv ==
  /\ Feasible => nunsat <= Optimum /\ nbvlb <= Optimum /\ (iternum > 0 => Optimum <= minbs)
  /\ ~Feasible => nunsat <= Infinity /\ nbvlb <= Infinity
  /\ minbs <= nscls
  /\ iternum > 0 => nscls = parse.nsoft

ReportInv ==
  /\ result.kind \in {"answer", "bounds", "quit"} => iternum > 0
  /\ result.kind = "answer" /\ Feasible => result.lb = nscls - Optimum
  /\ result.kind = "bounds" /\ opts.alg # 1 => BoundsEnclose
  /\ ErrorsExplained

StartInv == pc = "start" =>
  /\ clset = {} /\ blkclset = {} /\ coreset = {} /\ cardset = {}
  /\ iternum = 0 /\ nunsat = 0 /\ nbvlb = 0 /\ minbs = 0 /\ nscls = 0 /\ lbv = 0

(* The inductive invariant. *)
IInv == /\ TypeOK /\ KeptInv /\ ShapeInv /\ StartInv
        /\ Msu1Inv /\ Msu2Inv /\ CoresInv /\ Msu3Inv
        /\ BoundInv /\ ReportInv

-----------------------------------------------------------------------------
(* The lines of a file are numbered and have the fields they need. *)
LEMMA LinesFacts ==
    ASSUME file \in Files
    PROVE  /\ Lines \subseteq Nat /\ IsFiniteSet(Lines) /\ Cardinality(Lines) = Len(file.lines)
           /\ Len(file.lines) \in Nat
           /\ Lines = 1..Len(file.lines)
           /\ \A i \in Lines : /\ file.lines[i].kind \in {"clause", "hard", "soft", "weight"}
                               /\ LitsAt(i) \in SUBSET Int
                               /\ file.lines[i].weight \in Int
<1> DEFINE L == [kind : {"clause", "hard", "soft", "weight"}, lits : SUBSET Int, weight : Int]
<1>1. file.lines \in Seq(L)
  BY FilesAssumption
<1> HIDE DEF L
<1>2. Len(file.lines) \in Nat /\ DOMAIN file.lines = 1..Len(file.lines)
      /\ \A i \in DOMAIN file.lines : file.lines[i] \in L
  BY <1>1
<1>3. IsFiniteSet(1..Len(file.lines)) /\ Cardinality(1..Len(file.lines)) = Len(file.lines)
  <2>1. \A n \in Nat : IsFiniteSet(1..n) /\ Cardinality(1..n) = n
    BY FS_Interval
  <2> QED
    BY <1>2, <2>1
<1>4. \A i \in DOMAIN file.lines :
         /\ file.lines[i].kind \in {"clause", "hard", "soft", "weight"}
         /\ file.lines[i].lits \in SUBSET Int
         /\ file.lines[i].weight \in Int
  BY <1>2 DEF L
<1> QED
  BY <1>2, <1>3, <1>4 DEF Lines, LitsAt

(* The type of a line is a number. *)
LEMMA TypeAtInt ==
    ASSUME file \in Files, NEW i \in Lines
    PROVE  TypeAt(i) \in Int
<1>1. Before(i) \subseteq Markers /\ Markers \subseteq Lines
  BY DEF Before, Markers
<1>2. CASE Before(i) # {}
  <2>1. Before(i) \subseteq Nat /\ IsFiniteSet(Before(i))
    BY <1>1, LinesFacts, FS_Subset
  <2>2. Max(Before(i)) \in Before(i)
    BY <1>2, <2>1, MaxUpTo
  <2> DEFINE m == file.lines[Max(Before(i))]
  <2>3. m.kind \in {"hard", "soft", "weight"} /\ m.weight \in Int
    BY <1>1, <2>2, LinesFacts DEF Markers
  <2> QED
    BY <1>2, <2>3 DEF TypeAt
<1> QED
  BY <1>2 DEF TypeAt

(* The lines whose clauses are stored, and the clause of a line. *)
LastOf(kept) == {i \in kept : \A j \in kept : j > i => LitsAt(j) # LitsAt(i)}
Record(i) == [lits |-> LitsAt(i), bvs |-> {}, type |-> TypeAt(i)]

(* parse, in the words the proofs use. *)
LEMMA ParseFacts ==
    /\ parse.clauses = {Record(i) : i \in LastOf(Kept)}
    /\ parse.nsoft = Cardinality({i \in Kept : file.format = "pmcnf" => TypeAt(i) = 0})
    /\ Kept \subseteq Clauses
  BY DEF parse, LastOf, Record, Kept

(* The clauses read are finitely many, no two with the same literals, none *)
(* with a blocking variable, and no more are soft than were counted (parse). *)
LEMMA ReadFacts ==
    ASSUME file \in Files
    PROVE  /\ parse.clauses \subseteq Work
           /\ \A c \in parse.clauses : c.bvs = {}
           /\ \A c, d \in parse.clauses : c.lits = d.lits => c = d
           /\ IsFiniteSet(parse.clauses)
           /\ IsFiniteSet(SoftLits)
           /\ parse.nsoft \in Nat /\ parse.nsoft <= Len(file.lines)
           /\ Cardinality(SoftLits) <= parse.nsoft
<1>1. Kept \subseteq Lines /\ LastOf(Kept) \subseteq Lines /\ LastOf(Kept) \subseteq Kept
  BY ParseFacts DEF Clauses, LastOf
<1>2. \A i \in LastOf(Kept) : Record(i) \in Work /\ Record(i).bvs = {}
                              /\ Record(i).lits = LitsAt(i) /\ Record(i).type = TypeAt(i)
  BY <1>1, LinesFacts, TypeAtInt DEF Record, Work
<1>3. \A i, j \in LastOf(Kept) : LitsAt(i) = LitsAt(j) => i = j
  <2> TAKE i, j \in LastOf(Kept)
  <2>1. i \in Nat /\ j \in Nat
    BY <1>1, LinesFacts
  <2>2. ~(j > i /\ LitsAt(j) = LitsAt(i)) /\ ~(i > j /\ LitsAt(j) = LitsAt(i))
    BY <1>1 DEF LastOf
  <2> QED
    BY <2>1, <2>2
<1>4. \A c, d \in parse.clauses : c.lits = d.lits => c = d
  BY <1>2, <1>3, ParseFacts
<1>5. IsFiniteSet(Kept) /\ IsFiniteSet(LastOf(Kept))
  BY <1>1, LinesFacts, FS_Subset
<1>6. IsFiniteSet(parse.clauses)
  <2> DEFINE f == [i \in LastOf(Kept) |-> Record(i)]
  <2>1. f \in Surjection(LastOf(Kept), parse.clauses)
    BY ParseFacts DEF Surjection
  <2> QED
    BY <2>1, <1>5, FS_Surjection
<1> DEFINE K == {i \in Kept : file.format = "pmcnf" => TypeAt(i) = 0}
           S == {i \in LastOf(Kept) : TypeAt(i) = 0}
<1>7. IsFiniteSet(K) /\ Cardinality(K) \in Nat /\ Cardinality(K) <= Len(file.lines)
  BY <1>1, LinesFacts, FS_Subset, FS_CardinalityType
<1>8. IsFiniteSet(S) /\ Cardinality(S) <= Cardinality(K)
  BY <1>1, <1>7, FS_Subset
<1>9. SoftLits = {LitsAt(i) : i \in S}
  BY <1>2, ParseFacts DEF SoftLits, IsSoft
<1>10. IsFiniteSet(SoftLits) /\ Cardinality(SoftLits) <= Cardinality(S)
  <2> DEFINE f == [i \in S |-> LitsAt(i)]
  <2>1. f \in Surjection(S, SoftLits)
    BY <1>9 DEF Surjection
  <2> QED
    BY <2>1, <1>8, FS_Surjection
<1>11. Cardinality(SoftLits) \in Nat /\ Cardinality(S) \in Nat
  BY <1>8, <1>10, FS_CardinalityType
<1> QED
  BY <1>2, <1>4, <1>6, <1>7, <1>8, <1>10, <1>11, ParseFacts

(* What was read depends on the file only. *)
LEMMA SameFile ==
    ASSUME UNCHANGED file
    PROVE  /\ parse' = parse /\ SoftLits' = SoftLits /\ HardLits' = HardLits
           /\ Optimum' = Optimum
<1>1. parse' = parse
  BY DEF parse, Kept, Lines, Clauses, Markers, Before, LitsAt, TypeAt, Clash
<1>2. SoftLits' = SoftLits /\ HardLits' = HardLits
  BY <1>1 DEF SoftLits, HardLits
<1>3. Optimum' = Optimum
  BY <1>1 DEF Optimum
<1> QED
  BY <1>1, <1>2, <1>3

(* The optimum is the least cost of an assignment of the hard clauses, and *)
(* smaller than Infinity exactly if there is one.                          *)
LEMMA OptimumFacts ==
    ASSUME file \in Files
    PROVE  /\ Feasible <=> HardModels # {}
           /\ Feasible => Optimum \in Nat /\ \E true \in HardModels : Optimum = Cardinality(Missed(true))
           /\ \A true \in HardModels :
                 /\ IsFiniteSet(Missed(true)) /\ Cardinality(Missed(true)) \in Nat
                 /\ Optimum <= Cardinality(Missed(true))
                 /\ Cardinality(Missed(true)) <= parse.nsoft
           /\ ~Feasible => Optimum = Infinity
           /\ parse.nsoft \in Nat /\ parse.nsoft < Infinity
           /\ Feasible => Optimum <= parse.nsoft
<1> DEFINE costs == {Cardinality(Missed(true)) : true \in HardModels}
<1>1. Optimum = IF costs = {} THEN Infinity ELSE Min(costs)
  BY DEF Optimum, Least, SoftLits, HardLits, HardModels, FormulaVars, Missed
<1>2. parse.nsoft \in Nat /\ parse.nsoft < Infinity
  BY ReadFacts, CountsAssumption, LinesFacts
<1>3. \A true \in HardModels :
                 /\ IsFiniteSet(Missed(true)) /\ Cardinality(Missed(true)) \in Nat
                 /\ Cardinality(Missed(true)) <= parse.nsoft
  <2> TAKE true \in HardModels
  <2>1. Missed(true) \in SUBSET SoftLits
    BY DEF Missed, Falsified
  <2>2. IsFiniteSet(SoftLits) /\ Cardinality(SoftLits) <= parse.nsoft /\ Cardinality(SoftLits) \in Nat
    BY ReadFacts, FS_CardinalityType
  <2>3. IsFiniteSet(Missed(true)) /\ Cardinality(Missed(true)) <= Cardinality(SoftLits)
    BY <2>1, <2>2, FS_Subset
  <2>4. Cardinality(Missed(true)) \in Nat
    BY <2>3, FS_CardinalityType
  <2> QED
    BY <2>2, <2>3, <2>4, <1>2
<1>4. CASE HardModels = {}
  BY <1>1, <1>2, <1>4 DEF Feasible
<1>5. CASE HardModels # {}
  <2>1. costs \subseteq Nat /\ costs # {}
    BY <1>3, <1>5
  <2>2. PICK x \in costs : \A y \in costs : x <= y
    BY <2>1, LeastNatural
  <2>3. Min(costs) \in costs /\ \A y \in costs : Min(costs) <= y
    BY <2>2 DEF Min
  <2>4. Optimum \in Nat /\ Optimum \in costs /\ \A y \in costs : Optimum <= y
    BY <2>1, <2>3, <1>1
  <2>5. Optimum <= parse.nsoft
    BY <2>4, <1>3
  <2>6. Optimum # Infinity
    BY <2>4, <2>5, <1>2, CountsAssumption
  <2> QED
    BY <2>4, <2>5, <2>6, <1>2, <1>3, <1>5 DEF Feasible
<1> QED
  BY <1>4, <1>5

(* The first n blocking variables of a clause, and the next one. *)
LEMMA VarsOfFacts ==
    ASSUME NEW l, NEW n \in Nat
    PROVE  /\ IsFiniteSet(VarsOf(l, n)) /\ Cardinality(VarsOf(l, n)) = n
           /\ <<l, n>> \notin VarsOf(l, n)
           /\ VarsOf(l, n) \cup {<<l, n>>} = VarsOf(l, n + 1)
           /\ (n = 0) <=> (VarsOf(l, n) = {})
           /\ \A b \in VarsOf(l, n) : b[1] = l /\ b \in {l} \X Nat
<1> DEFINE f == [i \in 0..(n - 1) |-> <<l, i>>]
<1>1. f \in Bijection(0..(n - 1), VarsOf(l, n))
  BY DEF Bijection, Injection, Surjection, IsInjective, VarsOf
<1>2. IsFiniteSet(0..(n - 1)) /\ Cardinality(0..(n - 1)) = n
  BY FS_Interval
<1>3. IsFiniteSet(VarsOf(l, n)) /\ Cardinality(VarsOf(l, n)) = n
  BY <1>1, <1>2, FS_Bijection DEF ExistsBijection
<1>4. 0..n = 0..(n - 1) \cup {n} /\ n \notin 0..(n - 1) /\ (n + 1) - 1 = n
  OBVIOUS
<1>5. VarsOf(l, n) \cup {<<l, n>>} = VarsOf(l, n + 1) /\ <<l, n>> \notin VarsOf(l, n)
  BY <1>4 DEF VarsOf
<1>6. (n = 0) <=> (VarsOf(l, n) = {})
  BY <1>3, FS_EmptySet
<1>8. \A b \in VarsOf(l, n) : b[1] = l /\ b \in {l} \X Nat
  BY DEF VarsOf
<1> QED
  BY <1>3, <1>5, <1>6, <1>8

(* The cases n = 1 and n = 0. *)
LEMMA FirstVar ==
    ASSUME NEW l
    PROVE  VarsOf(l, 1) = {<<l, 0>>} /\ VarsOf(l, 0) = {}
<1>1. 0..(1 - 1) = {0} /\ 0..(0 - 1) = {}
  OBVIOUS
<1> QED
  BY <1>1 DEF VarsOf

(* A set that keeps the clauses read has as many, and they are those read  *)
(* once the blocking variables are taken off.                              *)
LEMMA SameCount ==
    ASSUME NEW H, NEW R, KeptSet(H, R), R \subseteq Work, IsFiniteSet(R),
           \A c, d \in R : c.lits = d.lits => c = d
    PROVE  /\ IsFiniteSet(H) /\ Cardinality(H) = Cardinality(R)
           /\ {[c EXCEPT !.bvs = {}] : c \in H} = {Plain(c) : c \in H}
           /\ (\A r \in R : r.bvs = {}) => {Plain(c) : c \in H} = R
           /\ IsFiniteSet(UNION {c.bvs : c \in H})
<1> DEFINE L == {r.lits : r \in R}
           g == [r \in R |-> r.lits]
           f == [c \in H |-> c.lits]
<1>1. g \in Bijection(R, L)
  BY DEF Bijection, Injection, Surjection, IsInjective
<1>2. IsFiniteSet(L) /\ Cardinality(L) = Cardinality(R)
  BY <1>1, FS_Bijection DEF ExistsBijection
<1>3. \A c \in H : c.lits \in L
  <2> TAKE c \in H
  <2>1. Plain(c) \in R /\ Plain(c).lits = c.lits
    BY DEF KeptSet, Plain
  <2> QED
    BY <2>1
<1>4. \A l \in L : \E c \in H : c.lits = l
  BY DEF KeptSet
<1>5. f \in Injection(H, L) /\ f \in Surjection(H, L)
  BY <1>3, <1>4 DEF KeptSet, Injection, Surjection, IsInjective
<1>6. IsFiniteSet(H) /\ Cardinality(H) = Cardinality(L)
  BY <1>2, <1>5, FS_Injection
<1>7. {[c EXCEPT !.bvs = {}] : c \in H} = {Plain(c) : c \in H}
  <2> DEFINE e(c) == [c EXCEPT !.bvs = {}]
  <2>1. \A c \in H : e(c) = Plain(c)
    <3> TAKE c \in H
    <3>1. c \in [lits : SUBSET Int, bvs : SUBSET Bvs, type : Int]
      BY DEF KeptSet, Work
    <3>2. e(c) \in [lits : SUBSET Int, bvs : SUBSET Bvs, type : Int]
          /\ e(c).lits = c.lits /\ e(c).bvs = {} /\ e(c).type = c.type
      BY <3>1
    <3>3. Plain(c) \in [lits : SUBSET Int, bvs : SUBSET Bvs, type : Int]
          /\ Plain(c).lits = c.lits /\ Plain(c).bvs = {} /\ Plain(c).type = c.type
      BY <3>1 DEF Plain
    <3> HIDE DEF e
    <3> QED
      BY <3>2, <3>3
  <2> HIDE DEF e
  <2>3. {e(c) : c \in H} = {Plain(c) : c \in H}
    BY <2>1
  <2> QED
    BY <2>3 DEF e
<1>8. ASSUME \A r \in R : r.bvs = {}
      PROVE  {Plain(c) : c \in H} = R
  <2>1. \A c \in H : Plain(c) \in R
    BY DEF KeptSet
  <2>2. ASSUME NEW r \in R PROVE \E c \in H : Plain(c) = r
    <3>1. PICK c \in H : c.lits = r.lits
      BY DEF KeptSet
    <3>2. Plain(c) \in R /\ Plain(c).lits = r.lits
      BY <3>1, <2>1 DEF Plain
    <3> QED
      BY <3>2
  <2> QED
    BY <2>1, <2>2
<1>9. IsFiniteSet(UNION {c.bvs : c \in H})
  <2> DEFINE h == [c \in H |-> c.bvs]
  <2>1. h \in Surjection(H, {c.bvs : c \in H})
    BY DEF Surjection
  <2>2. IsFiniteSet({c.bvs : c \in H})
    BY <2>1, <1>6, FS_Surjection
  <2>3. \A c \in H : IsFiniteSet(c.bvs)
    <3> TAKE c \in H
    <3>1. Cardinality(c.bvs) \in Nat /\ c.bvs = VarsOf(c.lits, Cardinality(c.bvs))
      BY DEF KeptSet
    <3>2. IsFiniteSet(VarsOf(c.lits, Cardinality(c.bvs)))
      BY <3>1, VarsOfFacts
    <3> QED
      BY <3>1, <3>2
  <2>4. \A T \in {c.bvs : c \in H} : IsFiniteSet(T)
    BY <2>3
  <2> QED
    BY <2>2, <2>4, FS_UNION
<1> QED
  BY <1>2, <1>6, <1>7, <1>8, <1>9

(* Blocking a clause gives it one more variable, a new one. *)
LEMMA BlockedFacts ==
    ASSUME NEW c \in Work, Cardinality(c.bvs) \in Nat, c.bvs = VarsOf(c.lits, Cardinality(c.bvs))
    PROVE  /\ Blocked(c) \in Work
           /\ Blocked(c).lits = c.lits /\ Blocked(c).type = c.type
           /\ Blocked(c).bvs = c.bvs \cup {NewVar(c)}
           /\ NewVar(c) \notin c.bvs
           /\ NewVar(c) = <<c.lits, Cardinality(c.bvs)>>
           /\ Cardinality(Blocked(c).bvs) = Cardinality(c.bvs) + 1
           /\ Blocked(c).bvs = VarsOf(c.lits, Cardinality(Blocked(c).bvs))
           /\ Plain(Blocked(c)) = Plain(c)
<1>1. c \in [lits : SUBSET Int, bvs : SUBSET Bvs, type : Int]
  BY DEF Work
<1>2. /\ Blocked(c).lits = c.lits /\ Blocked(c).type = c.type
      /\ Blocked(c).bvs = c.bvs \cup {NewVar(c)}
      /\ NewVar(c) = <<c.lits, Cardinality(c.bvs)>>
      /\ NewVar(c) \in Bvs
  BY <1>1 DEF Blocked, NewVar, Bvs
<1>3. Blocked(c) \in Work
  BY <1>1, <1>2 DEF Blocked, Work
<1>4. /\ NewVar(c) \notin c.bvs
      /\ Blocked(c).bvs = VarsOf(c.lits, Cardinality(c.bvs) + 1)
  BY <1>2, VarsOfFacts
<1>5. Cardinality(Blocked(c).bvs) = Cardinality(c.bvs) + 1
  <2> DEFINE n == Cardinality(c.bvs) + 1
  <2>1. n \in Nat
    OBVIOUS
  <2> HIDE DEF n
  <2>2. Cardinality(VarsOf(c.lits, n)) = n
    BY <2>1, VarsOfFacts
  <2> QED
    BY <1>4, <2>2 DEF n
<1>6. Plain(Blocked(c)) = Plain(c)
  BY <1>2 DEF Plain
<1>7. Blocked(c).bvs = VarsOf(c.lits, Cardinality(Blocked(c).bvs))
  BY <1>4, <1>5
<1> QED
  BY <1>2, <1>3, <1>4, <1>5, <1>6, <1>7

(* Blocking soft clauses keeps the clauses (add_blocking_vars). *)
LEMMA Block ==
    ASSUME NEW H, NEW R, KeptSet(H, R), NEW C \in SUBSET H, \A c \in C : c.type = 0
    PROVE  KeptSet((H \ C) \cup {Blocked(c) : c \in C}, R)
<1> DEFINE G == (H \ C) \cup {Blocked(c) : c \in C}
<1>1. \A c \in H : c \in Work /\ Cardinality(c.bvs) \in Nat /\ c.bvs = VarsOf(c.lits, Cardinality(c.bvs))
  BY DEF KeptSet
<1>2. \A c \in C :
           /\ Blocked(c) \in Work
           /\ Blocked(c).lits = c.lits /\ Blocked(c).type = c.type
           /\ Cardinality(Blocked(c).bvs) \in Nat
           /\ Blocked(c).bvs = VarsOf(c.lits, Cardinality(Blocked(c).bvs))
           /\ Plain(Blocked(c)) = Plain(c)
  BY <1>1, BlockedFacts
<1> DEFINE Of(g) == IF g \in H \ C THEN g ELSE CHOOSE c \in C : g = Blocked(c)
<1>3. \A g \in G : Of(g) \in H /\ Of(g).lits = g.lits /\ Of(g).type = g.type /\ Plain(g) = Plain(Of(g))
                   /\ (g \in H \ C => Of(g) = g) /\ (g \notin H \ C => Of(g) \in C /\ g = Blocked(Of(g)))
  <2> TAKE g \in G
  <2>1. CASE g \in H \ C
    BY <2>1
  <2>2. CASE g \notin H \ C
    <3>1. \E c \in C : g = Blocked(c)
      BY <2>2
    <3>2. Of(g) \in C /\ g = Blocked(Of(g))
      BY <2>2, <3>1
    <3> QED
      BY <3>2, <2>2, <1>2
  <2> QED
    BY <2>1, <2>2
<1> HIDE DEF Of
<1>4. G \subseteq Work
  BY <1>1, <1>2
<1>5. \A g \in G : Plain(g) \in R
  BY <1>3 DEF KeptSet
<1>6. ASSUME NEW r \in R PROVE \E g \in G : g.lits = r.lits
  <2>1. PICK c \in H : c.lits = r.lits
    BY DEF KeptSet
  <2> QED
    BY <2>1, <1>2
<1>7. ASSUME NEW g \in G, NEW h \in G, g.lits = h.lits PROVE g = h
  <2>1. Of(g) = Of(h)
    BY <1>3, <1>7 DEF KeptSet
  <2>2. CASE g \in H \ C
    BY <2>1, <2>2, <1>3
  <2>3. CASE g \notin H \ C
    BY <2>1, <2>3, <1>3
  <2> QED
    BY <2>2, <2>3
<1>8. ASSUME NEW g \in G, g.type # 0 PROVE g.bvs = {}
  <2>1. g \in H \ C
    BY <1>3, <1>8
  <2> QED
    BY <2>1, <1>8 DEF KeptSet
<1>9. \A g \in G : Cardinality(g.bvs) \in Nat /\ g.bvs = VarsOf(g.lits, Cardinality(g.bvs))
  BY <1>1, <1>2
<1> QED
  BY <1>4, <1>5, <1>6, <1>7, <1>8, <1>9 DEF KeptSet

(* While it runs, what is known of the clauses. *)
Ready == file \in Files /\ Running /\ TypeOK /\ KeptInv /\ ShapeInv

(* What is known of the clauses at work while the program runs. *)
LEMMA HeldFacts ==
    ASSUME Ready
    PROVE  /\ pc = "search" => Held = clset \cup blkclset
           /\ clset \subseteq Held /\ blkclset \subseteq Held
           /\ \A c \in Held : IsSoft(c) => c.lits \in SoftLits
           /\ \A c \in Held : ~IsSoft(c) => c.lits \in HardLits /\ c \in clset /\ c.bvs = {}
           /\ \A l \in SoftLits : \E c \in Held : c.lits = l /\ IsSoft(c)
           /\ \A l \in HardLits : \E c \in clset : c.lits = l /\ ~IsSoft(c) /\ c.bvs = {}
           /\ IsFiniteSet(Held) /\ IsFiniteSet(blockvs)
           /\ FileVars = FormulaVars
           /\ \A c \in Held : c \in Work /\ Cardinality(c.bvs) \in Nat
                              /\ c.bvs = VarsOf(c.lits, Cardinality(c.bvs))
<1> DEFINE R == parse.clauses
<1>1. KeptSet(Held, R)
  BY DEF Ready, KeptInv
<1>2. /\ R \subseteq Work /\ IsFiniteSet(R)
      /\ \A r \in R : r.bvs = {}
      /\ \A c, d \in R : c.lits = d.lits => c = d
  BY ReadFacts DEF Ready
<1> HIDE DEF R
<1>3. IsFiniteSet(Held) /\ IsFiniteSet(UNION {c.bvs : c \in Held})
  BY <1>1, <1>2, SameCount
<1>4. clset \subseteq Held /\ blkclset \subseteq Held
  BY DEF Held
<1>5. pc = "search" => Held = clset \cup blkclset
  BY DEF Held, Ready, ShapeInv
<1>6. IsFiniteSet(blockvs)
  <2>1. blockvs \subseteq UNION {c.bvs : c \in Held}
    BY <1>4 DEF blockvs
  <2> QED
    BY <2>1, <1>3, FS_Subset
<1>7. \A c \in Held : c.type # 0 => c.bvs = {}
  BY <1>1 DEF KeptSet
<1>8. \A c \in Held : c \in Work /\ Cardinality(c.bvs) \in Nat
                              /\ c.bvs = VarsOf(c.lits, Cardinality(c.bvs))
  BY <1>1 DEF KeptSet
<1>9. \A c \in blkclset : c.bvs # {}
  <2> TAKE c \in blkclset
  <2>1. pc = "search" /\ opts.alg \in 2..3
    BY DEF Ready, ShapeInv, Running
  <2>2. c.bvs = VarsOf(c.lits, 1)
    BY <2>1 DEF Ready, ShapeInv
  <2> QED
    BY <2>2, FirstVar
<1>10. \A c \in Held : ~IsSoft(c) => c \in clset
  <2> SUFFICES ASSUME NEW c \in Held, ~IsSoft(c), c \notin clset PROVE FALSE
    OBVIOUS
  <2>1. c \notin blkclset
    BY <1>4, <1>7, <1>9 DEF IsSoft
  <2>2. blkclset = {} /\ c \in UNION coreset
    BY <2>1 DEF Held
  <2>3. pc = "cores"
    BY <2>2 DEF Ready, Running, ShapeInv
  <2> QED
    BY <2>2, <2>3 DEF Ready, ShapeInv
<1>11. \A c \in Held : IsSoft(c) => c.lits \in SoftLits
  <2> TAKE c \in Held
  <2>1. Plain(c) \in R /\ Plain(c).lits = c.lits /\ Plain(c).type = c.type
    BY <1>1 DEF KeptSet, Plain
  <2> QED
    BY <2>1 DEF IsSoft, SoftLits, R
<1>12. \A c \in Held : ~IsSoft(c) => c.lits \in HardLits
  <2> TAKE c \in Held
  <2>1. Plain(c) \in R /\ Plain(c).lits = c.lits /\ Plain(c).type = c.type
    BY <1>1 DEF KeptSet, Plain
  <2> QED
    BY <2>1 DEF IsSoft, HardLits, R
<1>13. ASSUME NEW r \in R PROVE \E c \in Held : c.lits = r.lits /\ (IsSoft(c) <=> IsSoft(r))
  <2>1. PICK c \in Held : c.lits = r.lits
    BY <1>1 DEF KeptSet
  <2>2. Plain(c) \in R /\ Plain(c).lits = c.lits /\ Plain(c).type = c.type
    BY <1>1 DEF KeptSet, Plain
  <2>3. Plain(c) = r
    BY <2>1, <2>2, <1>2
  <2> QED
    BY <2>1, <2>2, <2>3 DEF IsSoft
<1>14. \A l \in SoftLits : \E c \in Held : c.lits = l /\ IsSoft(c)
  BY <1>13 DEF SoftLits, R
<1>15. \A l \in HardLits : \E c \in clset : c.lits = l /\ ~IsSoft(c) /\ c.bvs = {}
  <2> TAKE l \in HardLits
  <2>1. PICK c \in Held : c.lits = l /\ ~IsSoft(c)
    BY <1>13 DEF HardLits, R
  <2> QED
    BY <2>1, <1>10, <1>7 DEF IsSoft
<1>16. FileVars = FormulaVars
  <2> DEFINE A == {c.lits : c \in clset \cup blkclset \cup UNION coreset}
             B == SoftLits \cup HardLits
  <2>1. \A c \in UNION coreset : c \in R
    BY DEF Ready, TypeOK, R
  <2>2. \A r \in R : r.lits \in B
    BY DEF SoftLits, HardLits, R
  <2>3. A \subseteq B
    BY <1>4, <1>11, <1>12, <2>1, <2>2
  <2>4. \A c \in Held : c \in clset \cup blkclset \cup UNION coreset
    BY DEF Held
  <2>5. B \subseteq A
    BY <1>14, <1>15, <2>4
  <2>6. A = B
    BY <2>3, <2>5
  <2> QED
    BY <2>6 DEF FileVars, FormulaVars, Vars
<1> QED
  BY <1>3, <1>4, <1>5, <1>6, <1>7, <1>8, <1>10, <1>11, <1>12, <1>14, <1>15, <1>16 DEF IsSoft

(* What satisfies all but the initial clauses: an assignment of the hard   *)
(* clauses, and blocking variables that meet the constraints and satisfy the *)
(* blocked clauses.                                                        *)
LEMMA Points ==
    ASSUME Ready
    PROVE  /\ \A true, t :
                 [true |-> true, bvs |-> t] \in HardPoints <=>
                   /\ true \in HardModels /\ t \in SUBSET blockvs
                   /\ MeetsAll(t) /\ \A k \in clbvcset : Meets(t, k)
                   /\ \A c \in blkclset : At([true |-> true, bvs |-> t], c)
           /\ \A p \in HardPoints : p = [true |-> p.true, bvs |-> p.bvs]
<1> DEFINE P(true, t) == [true |-> true, bvs |-> t]
           ts == {t \in SUBSET blockvs : \A k \in cardset \cup clbvcset : Meets(t, k)}
           points == [true : SUBSET FileVars, bvs : ts]
<1>1. HardPoints = {p \in points : \A c \in (clset \ INITs) \cup blkclset : At(p, c)}
  BY DEF HardPoints
<1> HIDE DEF ts
<1>2. \A p \in HardPoints : p = P(p.true, p.bvs)
  BY <1>1
<1>3. ASSUME NEW true, NEW t
      PROVE  P(true, t) \in points <=> true \in SUBSET FormulaVars /\ t \in ts
  BY HeldFacts
<1>4. \A t : t \in ts <=> t \in SUBSET blockvs /\ MeetsAll(t) /\ \A k \in clbvcset : Meets(t, k)
  BY DEF MeetsAll, ts
<1>5. ASSUME NEW true, NEW t
      PROVE  (\A c \in clset \ INITs : At(P(true, t), c)) <=> \A l \in HardLits : Satisfies(true, l)
  <2>1. \A c \in clset \ INITs : c \in Held /\ ~IsSoft(c) /\ c.bvs = {} /\ c.lits \in HardLits
    BY HeldFacts DEF INITs
  <2>2. \A l \in HardLits : \E c \in clset \ INITs : c.lits = l
    BY HeldFacts DEF INITs
  <2>3. \A c \in clset \ INITs : At(P(true, t), c) <=> Satisfies(true, c.lits)
    BY <2>1 DEF At
  <2> QED
    BY <2>1, <2>2, <2>3
<1>6. ASSUME NEW true
      PROVE  true \in HardModels <=> true \in SUBSET FormulaVars /\ \A l \in HardLits : Satisfies(true, l)
  BY DEF HardModels, Models
<1>7. ASSUME NEW true, NEW t
      PROVE  P(true, t) \in HardPoints <=>
                   /\ true \in HardModels /\ t \in SUBSET blockvs
                   /\ MeetsAll(t) /\ \A k \in clbvcset : Meets(t, k)
                   /\ \A c \in blkclset : At(P(true, t), c)
  <2> HIDE DEF P, points
  <2> QED
    BY <1>1, <1>3, <1>4, <1>5, <1>6
<1> QED
  BY <1>2, <1>7

(* A clause is satisfied by a literal or by a blocking variable. *)
LEMMA AtPoint ==
    ASSUME NEW true, NEW t, NEW c
    PROVE  At([true |-> true, bvs |-> t], c) <=> Satisfies(true, c.lits) \/ c.bvs \cap t # {}
  BY DEF At

(* Counting the elements of a finite set that lie in a larger set. *)
LEMMA Counting ==
    ASSUME NEW M, IsFiniteSet(M), NEW A, NEW B, A \subseteq B
    PROVE  /\ Cardinality(M \cap A) \in Nat /\ Cardinality(M \cap B) \in Nat
           /\ Cardinality(M \cap A) <= Cardinality(M \cap B)
           /\ Cardinality(M \cap B) <= Cardinality(M)
           /\ (\E x \in M : x \in B /\ x \notin A) => Cardinality(M \cap A) + 1 <= Cardinality(M \cap B)
<1>1. IsFiniteSet(M \cap B) /\ Cardinality(M \cap B) <= Cardinality(M)
  BY FS_Subset
<1>2. (M \cap A) \in SUBSET (M \cap B)
  OBVIOUS
<1>3. IsFiniteSet(M \cap A) /\ Cardinality(M \cap A) <= Cardinality(M \cap B)
      /\ (Cardinality(M \cap B) = Cardinality(M \cap A) => M \cap B = M \cap A)
  BY <1>1, <1>2, FS_Subset
<1>4. Cardinality(M \cap A) \in Nat /\ Cardinality(M \cap B) \in Nat
  BY <1>1, <1>3, FS_CardinalityType
<1>5. ASSUME NEW x \in M, x \in B, x \notin A
      PROVE  Cardinality(M \cap A) + 1 <= Cardinality(M \cap B)
  BY <1>3, <1>4, <1>5
<1> QED
  BY <1>1, <1>3, <1>4, <1>5

(* A model that satisfies every clause uses a blocking variable for each   *)
(* soft clause it falsifies.                                               *)
LEMMA ModelCost ==
    ASSUME Ready, Held = clset \cup blkclset, NEW p \in AllPoints
    PROVE  /\ p.true \in HardModels /\ p.bvs \in SUBSET blockvs /\ MeetsAll(p.bvs)
           /\ Cardinality(p.bvs) \in Nat
           /\ Feasible /\ Optimum \in Nat
           /\ Optimum <= Cardinality(Missed(p.true))
           /\ Cardinality(Missed(p.true)) <= Cardinality(p.bvs)
           /\ Missed(p.true) \subseteq LitsIn(clset \cup blkclset)
           /\ \A c \in clset : c.bvs = {} => c.lits \notin Missed(p.true)
<1>1. p \in HardPoints /\ \A c \in INITs : At(p, c)
  BY DEF AllPoints
<1>2. p = [true |-> p.true, bvs |-> p.bvs]
  BY <1>1, Points
<1>3. /\ p.true \in HardModels /\ p.bvs \in SUBSET blockvs /\ MeetsAll(p.bvs)
      /\ \A c \in blkclset : At([true |-> p.true, bvs |-> p.bvs], c)
  <2> DEFINE tr == p.true
             t == p.bvs
  <2>1. [true |-> tr, bvs |-> t] \in HardPoints
    BY <1>1, <1>2
  <2> HIDE DEF tr, t
  <2>2. tr \in HardModels /\ t \in SUBSET blockvs /\ MeetsAll(t)
      /\ \A c \in blkclset : At([true |-> tr, bvs |-> t], c)
    BY <2>1, Points
  <2> QED
    BY <2>2 DEF tr, t
<1>4. IsFiniteSet(p.bvs) /\ Cardinality(p.bvs) \in Nat
  BY <1>3, HeldFacts, FS_Subset, FS_CardinalityType
<1>5. /\ Feasible /\ Optimum \in Nat
      /\ IsFiniteSet(Missed(p.true)) /\ Cardinality(Missed(p.true)) \in Nat
      /\ Optimum <= Cardinality(Missed(p.true))
  BY <1>3, OptimumFacts DEF Ready
<1>6. \A c \in blkclset \cup INITs : At(p, c)
  BY <1>1, <1>2, <1>3
<1>7. ASSUME NEW l \in Missed(p.true) PROVE \E c \in Held : c.lits = l /\ c.bvs \cap p.bvs # {}
  <2>1. l \in SoftLits /\ ~Satisfies(p.true, l)
    BY DEF Missed, Falsified
  <2>2. PICK c \in Held : c.lits = l /\ IsSoft(c)
    BY <2>1, HeldFacts
  <2>3. c \in blkclset \cup INITs
    BY <2>2, HeldFacts DEF INITs
  <2>4. At(p, c)
    BY <2>3, <1>6
  <2> QED
    BY <2>1, <2>2, <2>4 DEF At
<1>8. ASSUME NEW l \in Missed(p.true) PROVE \E b \in p.bvs : b[1] = l
  <2>1. PICK c \in Held : c.lits = l /\ c.bvs \cap p.bvs # {}
    BY <1>7
  <2>2. PICK b \in p.bvs : b \in c.bvs
    BY <2>1
  <2>3. Cardinality(c.bvs) \in Nat /\ c.bvs = VarsOf(c.lits, Cardinality(c.bvs))
    BY HeldFacts
  <2>4. b \in VarsOf(c.lits, Cardinality(c.bvs))
    BY <2>2, <2>3
  <2>5. b[1] = c.lits
    BY <2>3, <2>4, VarsOfFacts
  <2> QED
    BY <2>1, <2>5
<1>9. Cardinality(Missed(p.true)) <= Cardinality(p.bvs)
  <2> DEFINE f == [l \in Missed(p.true) |-> CHOOSE b \in p.bvs : b[1] = l]
  <2>1. \A l \in Missed(p.true) : f[l] \in p.bvs /\ f[l][1] = l
    BY <1>8
  <2>2. f \in Injection(Missed(p.true), p.bvs)
    <3>1. f \in [Missed(p.true) -> p.bvs]
      BY <2>1
    <3>2. DOMAIN f = Missed(p.true)
      OBVIOUS
    <3> HIDE DEF f
    <3> QED
      BY <2>1, <3>1, <3>2 DEF Injection, IsInjective
  <2> QED
    BY <2>2, <1>4, FS_Injection
<1>10. Missed(p.true) \subseteq LitsIn(clset \cup blkclset)
  BY <1>7, HeldFacts DEF LitsIn
<1>11. ASSUME NEW c \in clset, c.bvs = {}, c.lits \in Missed(p.true) PROVE FALSE
  <2>1. PICK d \in Held : d.lits = c.lits /\ d.bvs \cap p.bvs # {}
    BY <1>7, <1>11
  <2>2. c \in Held
    BY HeldFacts
  <2>3. KeptSet(Held, parse.clauses)
    BY DEF Ready, KeptInv
  <2>4. c = d
    BY <2>1, <2>2, <2>3 DEF KeptSet
  <2> QED
    BY <2>1, <2>4, <1>11
<1> QED
  BY <1>3, <1>4, <1>5, <1>9, <1>10, <1>11

(* A clause without blocking variables is plain. *)
LEMMA PlainSame ==
    ASSUME NEW c \in Work, c.bvs = {}
    PROVE  Plain(c) = c
<1>1. Plain(c) \in Work /\ Plain(c).lits = c.lits /\ Plain(c).bvs = c.bvs /\ Plain(c).type = c.type
  BY DEF Plain, Work
<1>2. \A d \in Work : d = [lits |-> d.lits, bvs |-> d.bvs, type |-> d.type]
  BY DEF Work
<1> QED
  BY <1>1, <1>2

(* A core holds soft initial clauses, one of them falsified by whatever    *)
(* satisfies the rest.                                                     *)
LEMMA CoreFacts ==
    ASSUME Ready, NEW C \in Cores
    PROVE  /\ C \subseteq INITs /\ C \subseteq clset /\ \A c \in C : IsSoft(c) /\ c.type = 0
           /\ \A p \in HardPoints : \E c \in C : ~At(p, c)
           /\ LitsIn(C) \subseteq SoftLits
<1>1. C \subseteq INITs
  BY DEF Cores
<1>2. C \subseteq clset /\ \A c \in C : IsSoft(c)
  BY <1>1 DEF INITs
<1>3. ASSUME NEW p \in HardPoints PROVE \E c \in C : ~At(p, c)
  <2>1. {c \in INITs : ~At(p, c)} \cap C # {}
    BY DEF Cores
  <2> QED
    BY <2>1
<1>4. LitsIn(C) \subseteq SoftLits
  BY <1>2, HeldFacts DEF LitsIn
<1> QED
  BY <1>1, <1>2, <1>3, <1>4 DEF IsSoft

(* There are no more blocked clauses than soft ones. *)
LEMMA BlkSize ==
    ASSUME Ready
    PROVE  /\ IsFiniteSet(blkclset) /\ Cardinality(blkclset) \in Nat
           /\ Cardinality(blkclset) <= parse.nsoft
<1>1. IsFiniteSet(blkclset) /\ Cardinality(blkclset) \in Nat
  BY HeldFacts, FS_Subset, FS_CardinalityType
<1>2. KeptSet(Held, parse.clauses)
  BY DEF Ready, KeptInv
<1>3. \A c \in blkclset : c \in Held /\ c.bvs # {}
  <2> TAKE c \in blkclset
  <2>1. pc = "search" /\ opts.alg \in 2..3
    BY DEF Ready, ShapeInv, Running
  <2>2. c.bvs = VarsOf(c.lits, 1)
    BY <2>1 DEF Ready, ShapeInv
  <2>3. c.bvs # {}
    BY <2>2, FirstVar
  <2> QED
    BY <2>3, HeldFacts
<1>4. \A c \in blkclset : c.lits \in SoftLits
  BY <1>3, HeldFacts
<1> DEFINE f == [c \in blkclset |-> c.lits]
<1>5. f \in Injection(blkclset, SoftLits)
  <2>1. f \in [blkclset -> SoftLits]
    BY <1>4
  <2>2. \A c, d \in blkclset : f[c] = f[d] => c = d
    BY <1>2, <1>3 DEF KeptSet
  <2> QED
    BY <2>1, <2>2 DEF Injection, IsInjective
<1>6. IsFiniteSet(SoftLits) /\ Cardinality(SoftLits) \in Nat /\ Cardinality(SoftLits) <= parse.nsoft
      /\ parse.nsoft \in Nat
  BY ReadFacts, FS_CardinalityType DEF Ready
<1>7. Cardinality(blkclset) <= Cardinality(SoftLits)
  BY <1>5, <1>6, FS_Injection
<1> QED
  BY <1>1, <1>6, <1>7

(* In msu2 and msu3, an assignment whose blocking variables meet the       *)
(* constraints falsifies a clause of every core.                           *)
LEMMA UsedPoint ==
    ASSUME Ready, pc = "search", opts.alg \in 2..3, NEW true \in HardModels
    PROVE  /\ blockvs = {<<l, 0>> : l \in LitsIn(blkclset)}
           /\ Used(true) \in SUBSET blockvs
           /\ IsFiniteSet(Used(true))
           /\ Cardinality(Used(true)) = Cardinality(Missed(true) \cap LitsIn(blkclset))
           /\ MeetsAll(Used(true)) =>
                 \A C \in Cores : \E l \in LitsIn(C) : l \in Missed(true)
<1>1. Fresh(clset) /\ \A c \in blkclset : c.bvs = {<<c.lits, 0>>}
  BY FirstVar DEF Ready, ShapeInv
<1>2. blockvs = {<<l, 0>> : l \in LitsIn(blkclset)}
  BY <1>1 DEF blockvs, Fresh, LitsIn
<1>3. Used(true) \in SUBSET blockvs
  BY <1>2 DEF Used
<1> DEFINE M == Missed(true) \cap LitsIn(blkclset)
           f == [l \in M |-> <<l, 0>>]
<1>4. IsFiniteSet(M)
  BY OptimumFacts, FS_Subset DEF Ready
<1>5. f \in Bijection(M, Used(true))
  BY DEF Bijection, Injection, Surjection, IsInjective, Used
<1>6. IsFiniteSet(Used(true)) /\ Cardinality(Used(true)) = Cardinality(M)
  BY <1>4, <1>5, FS_Bijection DEF ExistsBijection
<1> DEFINE p == [true |-> true, bvs |-> Used(true)]
<1>7. ASSUME NEW c \in blkclset PROVE At(p, c)
  <2>1. c.lits \in SoftLits
    <3>1. c.bvs # {} /\ c \in Held
      BY <1>1, HeldFacts
    <3> QED
      BY <3>1, HeldFacts
  <2>2. CASE Satisfies(true, c.lits)
    BY <2>2, AtPoint
  <2>3. CASE ~Satisfies(true, c.lits)
    <3>1. c.lits \in Missed(true) /\ c.lits \in LitsIn(blkclset)
      BY <2>1, <2>3 DEF Missed, Falsified, LitsIn
    <3>2. <<c.lits, 0>> \in Used(true)
      BY <3>1 DEF Used
    <3> QED
      BY <3>2, <1>1, AtPoint
  <2> QED
    BY <2>2, <2>3
<1>8. clbvcset = {}
  <2>1. opts.alg # 1
    OBVIOUS
  <2> QED
    BY <2>1 DEF clbvcset
<1>9. ASSUME MeetsAll(Used(true)), NEW C \in Cores PROVE \E l \in LitsIn(C) : l \in Missed(true)
  <2>1. p \in HardPoints
    BY <1>3, <1>7, <1>8, <1>9, Points
  <2>2. PICK c \in C : ~At(p, c)
    BY <2>1, CoreFacts
  <2>3. ~Satisfies(true, c.lits)
    BY <2>2, AtPoint
  <2>4. c.lits \in SoftLits /\ c.lits \in LitsIn(C)
    BY CoreFacts DEF LitsIn
  <2> QED
    BY <2>3, <2>4 DEF Missed, Falsified
<1> QED
  BY <1>2, <1>3, <1>6, <1>9

(* What a core of msu2 or msu3 does to the sets. *)
LEMMA BlockStep ==
    ASSUME Ready, pc = "search", opts.alg \in 2..3, NEW C \in Cores,
           clset' = clset \ C, blkclset' = blkclset \cup {Blocked(c) : c \in C},
           UNCHANGED <<coreset, file>>
    PROVE  /\ KeptSet(Held', parse.clauses)
           /\ Fresh(clset') /\ \A c \in blkclset' : c.bvs = VarsOf(c.lits, 1)
           /\ blkclset' = {} => UNION coreset' = {}
           /\ LitsIn(blkclset)' = LitsIn(blkclset) \cup LitsIn(C)
           /\ LitsIn(C) \cap LitsIn(blkclset) = {}
           /\ NewVars(C) = {<<l, 0>> : l \in LitsIn(C)}
           /\ blockvs' = blockvs \cup NewVars(C)
           /\ blockvs \cap NewVars(C) = {}
           /\ clset' \cup blkclset' \subseteq Work
           /\ C # {} => Cardinality(blkclset) + 1 <= Cardinality(blkclset')
           /\ Cardinality(blkclset') \in Nat
<1>1. Fresh(clset) /\ (\A c \in blkclset : c.bvs = VarsOf(c.lits, 1))
      /\ (\A c \in blkclset : c.bvs = {<<c.lits, 0>>})
      /\ (blkclset = {} => UNION coreset = {})
  BY FirstVar DEF Ready, ShapeInv
<1>2. C \subseteq clset /\ (\A c \in C : c.type = 0) /\ (\A c \in C : c \in Held)
  BY CoreFacts, HeldFacts
<1>3. \A c \in C : /\ c \in Work /\ c.bvs = {} /\ Cardinality(c.bvs) = 0
                   /\ c.bvs = VarsOf(c.lits, Cardinality(c.bvs))
  BY <1>1, <1>2, HeldFacts, FS_EmptySet DEF Fresh
<1>4. \A c \in C : /\ Blocked(c) \in Work /\ Blocked(c).lits = c.lits
                   /\ Blocked(c).bvs = VarsOf(c.lits, 1)
                   /\ Blocked(c).bvs = {<<c.lits, 0>>} /\ NewVar(c) = <<c.lits, 0>>
  <2> TAKE c \in C
  <2>1. c \in Work /\ Cardinality(c.bvs) \in Nat /\ c.bvs = VarsOf(c.lits, Cardinality(c.bvs))
        /\ Cardinality(c.bvs) = 0 /\ 0 + 1 = 1
    BY <1>3
  <2>2. /\ Blocked(c) \in Work /\ Blocked(c).lits = c.lits
        /\ Cardinality(Blocked(c).bvs) = Cardinality(c.bvs) + 1
        /\ Blocked(c).bvs = VarsOf(c.lits, Cardinality(Blocked(c).bvs))
        /\ NewVar(c) = <<c.lits, Cardinality(c.bvs)>>
    BY <2>1, BlockedFacts
  <2>3. Blocked(c).bvs = VarsOf(c.lits, 1)
    BY <2>1, <2>2
  <2> QED
    BY <2>1, <2>2, <2>3, FirstVar
<1>5. KeptSet(Held, parse.clauses)
  BY DEF Ready, KeptInv
<1>6. Held = clset \cup blkclset
  BY HeldFacts
<1>7. clset \cap blkclset = {}
  BY <1>1 DEF Fresh
<1>8. Held' = (Held \ C) \cup {Blocked(c) : c \in C}
  <2>1. blkclset' = {} => UNION coreset' = {}
    BY <1>1
  <2>2. Held' = clset' \cup blkclset'
    BY <2>1 DEF Held
  <2> QED
    BY <2>2, <1>2, <1>6, <1>7
<1>9. KeptSet(Held', parse.clauses)
  <2>1. C \in SUBSET Held
    BY <1>2
  <2>2. KeptSet((Held \ C) \cup {Blocked(c) : c \in C}, parse.clauses)
    BY <1>2, <1>5, <2>1, Block
  <2> QED
    BY <1>8, <2>2
<1>10. Fresh(clset') /\ \A c \in blkclset' : c.bvs = VarsOf(c.lits, 1)
  BY <1>1, <1>4 DEF Fresh
<1>11. LitsIn(blkclset)' = LitsIn(blkclset) \cup LitsIn(C)
  BY <1>4 DEF LitsIn
<1>12. LitsIn(C) \cap LitsIn(blkclset) = {}
  <2> SUFFICES ASSUME NEW c \in C, NEW d \in blkclset, c.lits = d.lits PROVE FALSE
    BY DEF LitsIn
  <2>1. c \in Held /\ d \in Held
    BY <1>2, <1>6
  <2>2. c = d
    BY <2>1, <1>5 DEF KeptSet
  <2> QED
    BY <2>2, <1>2, <1>7
<1>13. NewVars(C) = {<<l, 0>> : l \in LitsIn(C)}
  BY <1>4 DEF NewVars, LitsIn
<1>14. blockvs' = blockvs \cup NewVars(C)
  <2>1. blockvs = UNION {c.bvs : c \in blkclset} /\ blockvs' = UNION {c.bvs : c \in blkclset'}
    BY <1>1, <1>10 DEF blockvs, Fresh
  <2>2. NewVars(C) = UNION {Blocked(c).bvs : c \in C}
    BY <1>4 DEF NewVars
  <2> QED
    BY <2>1, <2>2
<1>15. blockvs \cap NewVars(C) = {}
  <2>1. blockvs = {<<l, 0>> : l \in LitsIn(blkclset)}
    BY <1>1 DEF blockvs, Fresh, LitsIn
  <2> QED
    BY <2>1, <1>12, <1>13
<1>16. clset' \cup blkclset' \subseteq Work
  BY <1>4, <1>6, HeldFacts
<1>17. IsFiniteSet(blkclset)
  BY BlkSize
<1>18. IsFiniteSet(blkclset')
  <2> DEFINE f == [c \in C |-> Blocked(c)]
  <2>1. f \in Surjection(C, {Blocked(c) : c \in C})
    BY DEF Surjection
  <2>2. IsFiniteSet(C)
    BY <1>2, HeldFacts, FS_Subset
  <2>3. IsFiniteSet({Blocked(c) : c \in C})
    BY <2>1, <2>2, FS_Surjection
  <2> QED
    BY <2>3, <1>17, FS_Union
<1>19. Cardinality(blkclset) \in Nat /\ Cardinality(blkclset') \in Nat
  BY <1>17, <1>18, FS_CardinalityType
<1>20. ASSUME C # {} PROVE Cardinality(blkclset) + 1 <= Cardinality(blkclset')
  <2>1. PICK c \in C : TRUE
    BY <1>20
  <2>2. Blocked(c) \in blkclset' /\ Blocked(c) \notin blkclset
    BY <1>4, <1>12 DEF LitsIn
  <2>3. Cardinality(blkclset) <= Cardinality(blkclset')
        /\ (Cardinality(blkclset') = Cardinality(blkclset) => blkclset' = blkclset)
    BY <1>18, FS_Subset
  <2> QED
    BY <2>2, <2>3, <1>19
<1> QED
  BY <1>1, <1>9, <1>10, <1>11, <1>12, <1>13, <1>14, <1>15, <1>16, <1>19, <1>20

(* The encodings of the three algorithms. *)
LEMMA AllowedFacts ==
    /\ Allowed(2) = {"b", "i", "c", "s"} /\ Allowed(3) = {"b", "i", "c", "s"}
    /\ Allowed(1) = {"c", "e", "b", "i", "s"}
  BY DEF Allowed

(* The fields of a clause at work. *)
LEMMA WorkFields == \A c \in Work : c.lits \subseteq Int /\ c.bvs \subseteq Bvs /\ c.type \in Int
<1> TAKE c \in Work
<1>1. c.lits \in SUBSET Int /\ c.bvs \in SUBSET Bvs /\ c.type \in Int
  BY DEF Work
<1> QED
  BY <1>1

(* A bound above 0 is encoded as it was asked for. *)
LEMMA EncodedFacts ==
    ASSUME NEW enc, NEW vs, NEW rhs \in Nat, rhs > 0
    PROVE  /\ EncodedAtMost(enc, vs, rhs) = AtMost(vs, rhs)
           /\ EncodedAtLeast(enc, vs, rhs) = AtLeast(vs, rhs)
           /\ AtMost(vs, rhs).vs = vs /\ AtMost(vs, rhs).rhs = rhs
           /\ AtLeast(vs, rhs).vs = vs /\ AtLeast(vs, rhs).rhs = rhs
           /\ \A t : Meets(t, AtMost(vs, rhs)) <=> Cardinality(t \cap vs) <= rhs
           /\ \A t : Meets(t, AtLeast(vs, rhs)) <=> Cardinality(t \cap vs) >= rhs
<1>1. ~(rhs < 1)
  OBVIOUS
<1> QED
  BY <1>1 DEF EncodedAtMost, EncodedAtLeast, AtMost, AtLeast, Meets

(* A step to the end has nothing to keep but what is reported. *)
LEMMA EndStep ==
    ASSUME pc' = "end", TypeOK', BoundInv', ReportInv'
    PROVE  IInv'
  BY DEF IInv, KeptInv, ShapeInv, StartInv, Msu1Inv, Msu2Inv, CoresInv, Msu3Inv, Running

(* What the invariant says of the file does not change. *)
LEMMA SameOptimum ==
    ASSUME UNCHANGED input
    PROVE  /\ parse' = parse /\ Optimum' = Optimum /\ Feasible' = Feasible
           /\ HardModels' = HardModels
           /\ \A true : Missed(true)' = Missed(true)
<1>1. UNCHANGED file
  BY DEF input
<1> QED
  BY <1>1, SameFile DEF Feasible, HardModels, FormulaVars, Missed

(* A core of msu2 keeps the invariant. *)
LEMMA Msu2UnsatKeeps ==
    ASSUME IInv, Msu2Unsat
    PROVE  IInv'
<1> USE DEF Msu2Unsat
<1>1. pc = "search" /\ opts.alg = 2 /\ opts.alg \in 2..3 /\ UNCHANGED input /\ file' = file /\ opts' = opts
      /\ UNCHANGED <<coreset, nscls, nbvlb, minbs, lbv>> /\ nunsat' = nunsat + 1
  BY DEF input
<1>2. Ready
  BY <1>1 DEF IInv, Ready, Running, TypeOK
<1>3. /\ parse' = parse /\ Optimum' = Optimum /\ Feasible' = Feasible /\ HardModels' = HardModels
      /\ \A true : Missed(true)' = Missed(true)
  BY <1>1, SameOptimum
<1>4. {nscls, iternum, nunsat, nbvlb, minbs, lbv} \subseteq Nat /\ nbvlb = 0 /\ coreset = {}
      /\ iternum > 0 /\ nscls = parse.nsoft /\ minbs <= nscls /\ lbv = nscls - minbs
      /\ result.kind = "none"
  BY <1>1 DEF IInv, TypeOK, ShapeInv, BoundInv, Running, Msu2Inv
<1>5. /\ iternum = 1 => cardset = {} /\ nunsat = 0 /\ minbs = nscls
      /\ iternum > 1 => nunsat < minbs /\ nunsat > 0
      /\ nunsat <= Cardinality(blkclset)
  BY <1>1 DEF IInv, Msu2Inv
<1> DEFINE n(true) == Cardinality(Missed(true) \cap LitsIn(blkclset))
<1>6. \A true \in HardModels : (iternum > 1 /\ n(true) >= minbs) \/ (n(true) >= nunsat /\ MeetsAll(Used(true)))
  BY <1>1 DEF IInv, Msu2Inv
<1>7. /\ Feasible <=> HardModels # {}
      /\ Feasible => Optimum \in Nat /\ Optimum <= minbs
                     /\ \E true \in HardModels : Optimum = Cardinality(Missed(true))
      /\ \A true \in HardModels : IsFiniteSet(Missed(true)) /\ Cardinality(Missed(true)) \in Nat
      /\ parse.nsoft < Infinity /\ parse.nsoft \in Nat /\ Infinity \in Nat
  BY <1>2, <1>4, OptimumFacts, CountsAssumption DEF Ready, IInv, BoundInv
<1>8. \A true \in HardModels : n(true) \in Nat /\ n(true) <= Cardinality(Missed(true))
  BY <1>7, Counting
<1>9. Cardinality(blkclset) \in Nat /\ Cardinality(blkclset) <= parse.nsoft
  BY <1>2, BlkSize
<1>10. nunsat' <= Infinity /\ nbvlb' <= Infinity
  BY <1>1, <1>4, <1>5, <1>7, <1>9
<1> HIDE DEF n
<1>11. PICK C \in Cores :
       IF C = {}
         THEN /\ Computed(nscls - minbs)
              /\ UNCHANGED <<clset, blkclset, cardset, iternum>>
         ELSE /\ clset' = clset \ C
              /\ blkclset' = blkclset \cup {Blocked(c) : c \in C}
              /\ cardset' = cardset \cup {EncodedAtLeast(opts.enc, NewVars(C), 1)}
              /\ iternum' = iternum + 1
              /\ IF lbv = nscls - nunsat' THEN Computed(lbv) ELSE Continue
  OBVIOUS
<1> HIDE DEF Msu2Unsat
<1>12. CASE C = {}
  <2>1. pc' = "end" /\ result' = [kind |-> "answer", lb |-> nscls - minbs, ub |-> nscls - minbs]
        /\ UNCHANGED <<clset, blkclset, cardset, iternum>>
    BY <1>11, <1>12 DEF Computed, Report
  <2>2. \A true \in HardModels : iternum > 1 /\ n(true) >= minbs
    <3> TAKE true \in HardModels
    <3>1. LitsIn(C) = {}
      BY <1>12 DEF LitsIn
    <3>2. ~MeetsAll(Used(true))
      BY <1>1, <1>2, <3>1, UsedPoint
    <3> QED
      BY <1>6, <3>2
  <2>3. Feasible => nunsat' <= Optimum /\ Optimum = minbs
    <3> SUFFICES ASSUME Feasible PROVE nunsat' <= Optimum /\ Optimum = minbs
      OBVIOUS
    <3>1. PICK true \in HardModels : Optimum = Cardinality(Missed(true))
      BY <1>7
    <3>2. iternum > 1 /\ n(true) >= minbs /\ n(true) <= Optimum /\ n(true) \in Nat
      BY <2>2, <3>1, <1>8
    <3> QED
      BY <3>2, <1>1, <1>4, <1>5, <1>7
  <2>4. TypeOK'
    <3>1. blockvs' = blockvs
      BY <2>1 DEF blockvs
    <3> QED
      BY <1>1, <1>3, <1>4, <2>1, <3>1 DEF IInv, TypeOK
  <2>5. BoundInv'
    BY <1>1, <1>3, <1>4, <1>7, <1>10, <2>1, <2>3 DEF BoundInv
  <2>6. ReportInv'
    BY <1>1, <1>3, <1>4, <2>1, <2>3 DEF ReportInv, ErrorsExplained
  <2> QED
    BY <2>1, <2>4, <2>5, <2>6, EndStep
<1>13. CASE C # {}
  <2>1. /\ clset' = clset \ C
        /\ blkclset' = blkclset \cup {Blocked(c) : c \in C}
        /\ cardset' = cardset \cup {EncodedAtLeast(opts.enc, NewVars(C), 1)}
        /\ iternum' = iternum + 1
        /\ IF lbv = nscls - nunsat' THEN Computed(lbv) ELSE Continue
    BY <1>11, <1>13
  <2>2. opts.alg \in 2..3 /\ UNCHANGED <<coreset, file>>
    BY <1>1
  <2>3.    /\ KeptSet(Held', parse.clauses)
           /\ Fresh(clset') /\ \A c \in blkclset' : c.bvs = VarsOf(c.lits, 1)
           /\ blkclset' = {} => UNION coreset' = {}
           /\ LitsIn(blkclset)' = LitsIn(blkclset) \cup LitsIn(C)
           /\ LitsIn(C) \cap LitsIn(blkclset) = {}
           /\ NewVars(C) = {<<l, 0>> : l \in LitsIn(C)}
           /\ blockvs' = blockvs \cup NewVars(C)
           /\ blockvs \cap NewVars(C) = {}
           /\ clset' \cup blkclset' \subseteq Work
           /\ C # {} => Cardinality(blkclset) + 1 <= Cardinality(blkclset')
           /\ Cardinality(blkclset') \in Nat
    BY <1>1, <1>2, <2>1, <2>2, BlockStep
  <2>4. EncodedAtLeast(opts.enc, NewVars(C), 1) = AtLeast(NewVars(C), 1)
        /\ AtLeast(NewVars(C), 1).vs = NewVars(C) /\ AtLeast(NewVars(C), 1).rhs = 1
        /\ \A t : Meets(t, AtLeast(NewVars(C), 1)) <=> Cardinality(t \cap NewVars(C)) >= 1
    <3>1. 1 \in Nat /\ 1 > 0
      OBVIOUS
    <3> HIDE <1>11
    <3> QED
      BY <3>1, EncodedFacts
  <2>5. \A k \in cardset : k.vs \subseteq blockvs /\ k.rhs \in Nat
    BY DEF IInv, TypeOK
  <2>6. TypeOK'
    <3>1. \A c \in clset' \cup blkclset' : c.lits \subseteq Int /\ c.type \in Int
      BY <2>3, WorkFields
    <3>2. \A k \in cardset' : k.vs \subseteq blockvs' /\ k.rhs \in Nat
      BY <2>1, <2>3, <2>4, <2>5
    <3>3. {nscls', iternum', nunsat', nbvlb', minbs', lbv'} \subseteq Nat
      BY <1>1, <1>4, <2>1
    <3>4. /\ pc' \in {"start", "cores", "search", "end"}
          /\ result'.kind \in {"none", "answer", "bounds", "quit", "error"}
          /\ (pc' = "end") <=> (result'.kind # "none")
      BY <1>1, <1>4, <2>1 DEF Computed, Continue, Report
    <3> QED
      BY <1>1, <1>3, <1>4, <3>1, <3>2, <3>3, <3>4 DEF IInv, TypeOK
  <2> DEFINE n1(true) == Cardinality(Missed(true) \cap (LitsIn(blkclset) \cup LitsIn(C)))
  <2>7. \A true \in HardModels : n1(true) \in Nat /\ n(true) <= n1(true) /\ n1(true) <= Cardinality(Missed(true))
    BY <1>7, Counting DEF n
  <2>8. ASSUME NEW true \in HardModels, ~(iternum > 1 /\ n(true) >= minbs)
        PROVE  n1(true) >= nunsat + 1 /\ MeetsAll(Used(true))'
    <3>1. n(true) >= nunsat /\ MeetsAll(Used(true))
      BY <1>6, <2>8
    <3>2. PICK l \in LitsIn(C) : l \in Missed(true)
      BY <3>1, <1>2, <2>2, <1>1, UsedPoint
    <3>3. l \notin LitsIn(blkclset)
      BY <2>3, <3>2
    <3>4. n(true) + 1 <= n1(true)
      BY <1>7, <3>2, <3>3, Counting DEF n
    <3>5. n1(true) >= nunsat + 1
      BY <3>1, <3>4, <2>7, <1>8, <1>4
    <3> DEFINE U == Used(true)
               U1 == {<<b, 0>> : b \in Missed(true) \cap (LitsIn(blkclset) \cup LitsIn(C))}
    <3>0. Missed(true)' = Missed(true)
      BY <1>3
    <3>6. Used(true)' = U1
      BY <3>0, <2>3 DEF Used
    <3>7. U \subseteq U1 /\ \A b \in U1 : b \in U \/ b \in NewVars(C)
      BY <2>3 DEF Used
    <3>8. \A k \in cardset : U1 \cap k.vs = U \cap k.vs
      BY <3>7, <2>3, <2>5
    <3>9. ASSUME NEW k \in cardset PROVE Meets(U1, k)
      <4>1. Meets(U, k) /\ U1 \cap k.vs = U \cap k.vs
        BY <3>1, <3>8 DEF MeetsAll
      <4> QED
        BY <4>1 DEF Meets
    <3>10. Meets(U1, AtLeast(NewVars(C), 1))
      <4> DEFINE X == U1 \cap NewVars(C)
      <4>1. <<l, 0>> \in X
        BY <3>2, <2>3
      <4>2. IsFiniteSet(X)
        <5> DEFINE M1 == Missed(true)
                   f == [b \in M1 |-> <<b, 0>>]
        <5>1. f \in Surjection(M1, {<<b, 0>> : b \in M1})
          BY DEF Surjection
        <5>2. IsFiniteSet({<<b, 0>> : b \in M1})
          BY <1>7, <5>1, FS_Surjection
        <5>3. X \in SUBSET {<<b, 0>> : b \in M1}
          OBVIOUS
        <5> QED
          BY <5>2, <5>3, FS_Subset
      <4>3. Cardinality(X) \in Nat /\ Cardinality(X) # 0
        BY <4>1, <4>2, FS_CardinalityType, FS_EmptySet
      <4> QED
        BY <4>3, <2>4
    <3>11. \A k \in cardset' : Meets(U1, k)
      BY <2>1, <2>4, <3>9, <3>10
    <3> QED
      BY <3>5, <3>6, <3>11 DEF MeetsAll
  <2>9. \A true \in HardModels : (iternum > 1 /\ n1(true) >= minbs) \/ (n1(true) >= nunsat + 1 /\ MeetsAll(Used(true))')
    <3> TAKE true \in HardModels
    <3>1. CASE iternum > 1 /\ n(true) >= minbs
      BY <3>1, <2>7, <1>8, <1>4
    <3>2. CASE ~(iternum > 1 /\ n(true) >= minbs)
      BY <3>2, <2>8
    <3> QED
      BY <3>1, <3>2
  <2>10. nunsat + 1 <= minbs
    <3>1. CASE iternum > 1
      BY <3>1, <1>4, <1>5
    <3>2. CASE iternum = 1
      <4>1. PICK l \in LitsIn(C) : TRUE
        BY <1>13 DEF LitsIn
      <4>2. l \in SoftLits
        BY <1>2, CoreFacts
      <4>3. IsFiniteSet(SoftLits) /\ Cardinality(SoftLits) <= parse.nsoft
            /\ Cardinality(SoftLits) \in Nat /\ Cardinality(SoftLits) # 0
        BY <4>2, <1>2, ReadFacts, FS_CardinalityType, FS_EmptySet DEF Ready
      <4> QED
        BY <3>2, <4>3, <1>4, <1>5, <1>7
    <3> QED
      BY <3>1, <3>2, <1>4
  <2>11. Feasible => nunsat' <= Optimum
    <3> SUFFICES ASSUME Feasible PROVE nunsat + 1 <= Optimum
      BY <1>1
    <3>1. PICK true \in HardModels : Optimum = Cardinality(Missed(true))
      BY <1>7
    <3>2. n1(true) >= nunsat + 1
      BY <2>9, <2>10, <2>7, <1>4, <3>1
    <3> QED
      BY <3>1, <3>2, <2>7, <1>4, <1>7
  <2>12. BoundInv'
    BY <1>1, <1>3, <1>4, <1>7, <1>10, <2>1, <2>11 DEF BoundInv
  <2>13. CASE lbv = nscls - nunsat'
    <3>1. pc' = "end" /\ result' = [kind |-> "answer", lb |-> lbv, ub |-> lbv]
      BY <2>1, <2>13 DEF Computed, Report
    <3>2. minbs = nunsat'
      BY <2>13, <1>1, <1>4
    <3>3. Feasible => lbv = nscls - Optimum
      BY <3>2, <2>11, <1>4, <1>7
    <3>4. ReportInv'
      BY <1>1, <1>3, <1>4, <2>1, <3>1, <3>3 DEF ReportInv, ErrorsExplained
    <3> QED
      BY <2>6, <2>12, <3>1, <3>4, EndStep
  <2>14. CASE lbv # nscls - nunsat'
    <3>1. pc' = pc /\ result' = result
      BY <2>1, <2>14 DEF Continue
    <3>2. nunsat' < minbs'
      BY <2>10, <2>14, <1>1, <1>4
    <3>3. KeptInv'
      BY <2>3, <1>3 DEF KeptInv
    <3>4. ShapeInv'
      BY <1>1, <1>4, <2>1, <2>3, <3>1 DEF ShapeInv, IInv, Running
    <3>5. Msu2Inv'
      <4>1. lbv' = nscls' - minbs' /\ iternum' > 1 /\ nunsat' > 0
        BY <1>1, <1>4, <2>1
      <4>2. nunsat' <= Cardinality(blkclset')
        BY <1>1, <1>4, <1>5, <1>9, <1>13, <2>3
      <4>3. \A true \in HardModels' :
              LET m == Cardinality(Missed(true) \cap LitsIn(blkclset))'
              IN  (iternum' > 1 /\ m >= minbs') \/ (m >= nunsat' /\ MeetsAll(Used(true))')
        <5> TAKE true \in HardModels'
        <5>1. true \in HardModels /\ Cardinality(Missed(true) \cap LitsIn(blkclset))' = n1(true)
          BY <1>3, <2>3
        <5>2. (iternum > 1 /\ n1(true) >= minbs) \/ (n1(true) >= nunsat + 1 /\ MeetsAll(Used(true))')
          BY <5>1, <2>9
        <5> HIDE DEF n1
        <5> QED
          BY <5>1, <5>2, <4>1, <1>1
      <4> QED
        BY <4>1, <4>2, <4>3, <3>2 DEF Msu2Inv
    <3>6. ReportInv'
      BY <1>4, <3>1 DEF ReportInv, ErrorsExplained
    <3>7. StartInv' /\ Msu1Inv' /\ CoresInv' /\ Msu3Inv'
      BY <1>1, <3>1 DEF StartInv, Msu1Inv, CoresInv, Msu3Inv
    <3> QED
      BY <2>6, <2>12, <3>3, <3>4, <3>5, <3>6, <3>7 DEF IInv
  <2> QED
    BY <2>13, <2>14
<1> QED
  BY <1>12, <1>13

(* The smaller of two numbers. *)
LEMMA MinOfTwo ==
    ASSUME NEW a \in Nat, NEW b \in Nat
    PROVE  Min({a, b}) \in Nat /\ Min({a, b}) <= a /\ Min({a, b}) <= b
           /\ (Min({a, b}) = a \/ Min({a, b}) = b)
<1>1. \E x \in {a, b} : \A y \in {a, b} : x <= y
  <2>1. CASE a <= b
    BY <2>1
  <2>2. CASE ~(a <= b)
    BY <2>2
  <2> QED
    BY <2>1, <2>2
<1>2. Min({a, b}) \in {a, b} /\ \A y \in {a, b} : Min({a, b}) <= y
  BY <1>1 DEF Min
<1> QED
  BY <1>2

(* A model of msu2 keeps the invariant. *)
LEMMA Msu2SatKeeps ==
    ASSUME IInv, Msu2Sat
    PROVE  IInv'
<1> USE DEF Msu2Sat
<1>1. pc = "search" /\ opts.alg = 2 /\ opts.alg \in 2..3 /\ UNCHANGED input /\ file' = file /\ opts' = opts
      /\ UNCHANGED <<coreset, nscls, nbvlb, clset, blkclset, nunsat>>
  BY DEF input
<1>2. Ready
  BY <1>1 DEF IInv, Ready, Running, TypeOK
<1>3. /\ parse' = parse /\ Optimum' = Optimum /\ Feasible' = Feasible /\ HardModels' = HardModels
      /\ \A true : Missed(true)' = Missed(true)
  BY <1>1, SameOptimum
<1>4. {nscls, iternum, nunsat, nbvlb, minbs, lbv} \subseteq Nat /\ nbvlb = 0 /\ coreset = {}
      /\ iternum > 0 /\ nscls = parse.nsoft /\ minbs <= nscls /\ lbv = nscls - minbs
      /\ result.kind = "none"
  BY <1>1 DEF IInv, TypeOK, ShapeInv, BoundInv, Running, Msu2Inv
<1>5. /\ iternum = 1 => cardset = {} /\ nunsat = 0 /\ blkclset = {} /\ minbs = nscls
      /\ iternum > 1 => nunsat < minbs /\ nunsat > 0
      /\ nunsat <= Cardinality(blkclset)
  BY <1>1 DEF IInv, Msu2Inv
<1> DEFINE n(true) == Cardinality(Missed(true) \cap LitsIn(blkclset))
<1>6. \A true \in HardModels : (iternum > 1 /\ n(true) >= minbs) \/ (n(true) >= nunsat /\ MeetsAll(Used(true)))
  BY <1>1 DEF IInv, Msu2Inv
<1> HIDE DEF n
<1>7. PICK p \in AllPoints :
       IF iternum = 1
         THEN Computed(nscls) /\ UNCHANGED <<cardset, iternum, minbs, lbv>>
         ELSE LET mins == Min({Cardinality(p.bvs), minbs})
              IN  IF NoAtMost(opts.enc, Cardinality(blockvs), mins - 1)
                    THEN /\ exit_err
                         /\ minbs' = mins
                         /\ cardset' = {}
                         /\ UNCHANGED <<iternum, lbv>>
                    ELSE /\ minbs' = mins
                         /\ cardset' = {EncodedAtMost(opts.enc, blockvs, mins - 1)}
                         /\ lbv' = nscls - mins
                         /\ iternum' = iternum + 1
                         /\ IF lbv' = nscls - nunsat THEN Computed(lbv') ELSE Continue
  OBVIOUS
<1> HIDE DEF Msu2Sat
<1>8. /\ Cardinality(p.bvs) \in Nat
      /\ Feasible /\ Optimum \in Nat
      /\ Optimum <= Cardinality(Missed(p.true))
      /\ Cardinality(Missed(p.true)) <= Cardinality(p.bvs)
      /\ Missed(p.true) \subseteq LitsIn(clset \cup blkclset)
      /\ \A c \in clset : c.bvs = {} => c.lits \notin Missed(p.true)
      /\ Cardinality(Missed(p.true)) \in Nat
  <2>0. Held = clset \cup blkclset
    BY <1>1, <1>2, HeldFacts
  <2>1. p.true \in HardModels
    BY <1>2, <2>0, ModelCost
  <2> QED
    BY <1>2, <2>0, <2>1, ModelCost, OptimumFacts DEF Ready
<1>9. Optimum <= minbs /\ nunsat <= Optimum
  BY <1>4, <1>8 DEF IInv, BoundInv
<1>10. blockvs' = blockvs
  BY <1>1 DEF blockvs
<1>11. ASSUME {iternum', minbs', lbv'} \subseteq Nat,
              \A k \in cardset' : k.vs \subseteq blockvs /\ k.rhs \in Nat,
              pc' \in {"search", "end"},
              result'.kind \in {"none", "answer", "error"},
              (pc' = "end") <=> (result'.kind # "none")
       PROVE  TypeOK'
  <2>1. \A k \in cardset' : k.vs \subseteq blockvs' /\ k.rhs \in Nat
    BY <1>10, <1>11
  <2> QED
    BY <1>1, <1>3, <1>4, <1>11, <2>1 DEF IInv, TypeOK
<1>12. ASSUME minbs' \in Nat, Optimum <= minbs', minbs' <= minbs
       PROVE  BoundInv'
  BY <1>1, <1>3, <1>4, <1>8, <1>9, <1>12 DEF BoundInv
<1>13. CASE iternum = 1
  <2>1. /\ pc' = "end" /\ result' = [kind |-> "answer", lb |-> nscls, ub |-> nscls]
        /\ UNCHANGED <<cardset, iternum, minbs, lbv>>
    BY <1>7, <1>13 DEF Computed, Report
  <2>2. Missed(p.true) = {}
    <3>1. \A c \in clset : c.bvs = {}
      BY <1>1 DEF IInv, ShapeInv, Fresh
    <3>2. LitsIn(clset \cup blkclset) = LitsIn(clset)
      BY <1>5, <1>13
    <3> QED
      BY <1>8, <3>1, <3>2 DEF LitsIn
  <2>3. Optimum = 0
    BY <1>8, <2>2, FS_EmptySet
  <2>4. ReportInv'
    BY <1>1, <1>3, <1>4, <2>1, <2>3 DEF ReportInv, ErrorsExplained
  <2>5. TypeOK'
    <3>1. \A k \in cardset : k.vs \subseteq blockvs /\ k.rhs \in Nat
      BY DEF IInv, TypeOK
    <3> QED
      BY <1>4, <1>11, <2>1, <3>1
  <2> QED
    BY <1>4, <1>9, <1>12, <2>1, <2>4, <2>5, EndStep
<1>14. CASE iternum # 1
  <2> DEFINE mins == Min({Cardinality(p.bvs), minbs})
  <2>0. IF NoAtMost(opts.enc, Cardinality(blockvs), mins - 1)
                    THEN /\ exit_err
                         /\ minbs' = mins
                         /\ cardset' = {}
                         /\ UNCHANGED <<iternum, lbv>>
                    ELSE /\ minbs' = mins
                         /\ cardset' = {EncodedAtMost(opts.enc, blockvs, mins - 1)}
                         /\ lbv' = nscls - mins
                         /\ iternum' = iternum + 1
                         /\ IF lbv' = nscls - nunsat THEN Computed(lbv') ELSE Continue
    BY <1>7, <1>14
  <2>1. mins \in Nat /\ mins <= minbs /\ mins <= Cardinality(p.bvs)
        /\ (mins = minbs \/ mins = Cardinality(p.bvs))
    BY <1>4, <1>8, MinOfTwo
  <2> HIDE DEF mins
  <2>2. Optimum <= mins /\ nunsat <= mins /\ nunsat > 0 /\ iternum > 1
    BY <1>4, <1>5, <1>8, <1>9, <1>14, <2>1
  <2>3. CASE NoAtMost(opts.enc, Cardinality(blockvs), mins - 1)
    <3>1. /\ pc' = "end" /\ result' = [kind |-> "error", lb |-> 0, ub |-> 0]
          /\ minbs' = mins /\ cardset' = {} /\ UNCHANGED <<iternum, lbv>>
      BY <2>0, <2>3 DEF exit_err, Report
    <3>2. opts.enc \in {"b", "i", "c", "s"}
      BY <1>1, AllowedFacts DEF IInv, ShapeInv, Running
    <3>3. opts.enc = "c"
      BY <2>3, <3>2 DEF NoAtMost
    <3>4. ReportInv'
      BY <1>1, <3>1, <3>3 DEF ReportInv, ErrorsExplained
    <3>5. TypeOK'
      BY <1>4, <1>11, <2>1, <3>1
    <3> QED
      BY <1>12, <2>1, <2>2, <3>1, <3>4, <3>5, EndStep
  <2>4. CASE ~NoAtMost(opts.enc, Cardinality(blockvs), mins - 1)
    <3>1. /\ minbs' = mins
          /\ cardset' = {EncodedAtMost(opts.enc, blockvs, mins - 1)}
          /\ lbv' = nscls - mins
          /\ iternum' = iternum + 1
          /\ IF lbv' = nscls - nunsat THEN Computed(lbv') ELSE Continue
      BY <2>0, <2>4
    <3>2. TypeOK'
      <4> DEFINE e == EncodedAtMost(opts.enc, blockvs, mins - 1)
      <4>1. e.vs \subseteq blockvs /\ e.rhs \in Nat
        BY <2>1, <2>2, <1>4 DEF EncodedAtMost, AtMost
      <4>2. {iternum', minbs', lbv'} \subseteq Nat
        BY <1>4, <2>1, <3>1
      <4>3. \A k \in cardset' : k.vs \subseteq blockvs /\ k.rhs \in Nat
        BY <3>1, <4>1
      <4>4. pc' \in {"search", "end"} /\ result'.kind \in {"none", "answer", "error"}
            /\ ((pc' = "end") <=> (result'.kind # "none"))
        BY <1>1, <1>4, <3>1 DEF Computed, Report, Continue
      <4> QED
        BY <1>11, <4>2, <4>3, <4>4
    <3>3. BoundInv'
      BY <1>12, <2>1, <2>2, <3>1
    <3>4. CASE lbv' = nscls - nunsat
      <4>1. pc' = "end" /\ result' = [kind |-> "answer", lb |-> lbv', ub |-> lbv']
        BY <3>1, <3>4 DEF Computed, Report
      <4>2. mins = nunsat
        BY <1>4, <2>1, <3>1, <3>4
      <4>3. lbv' = nscls - Optimum
        BY <1>8, <1>9, <1>4, <2>2, <4>2, <3>4
      <4>4. ReportInv'
        BY <1>1, <1>3, <1>4, <3>1, <4>1, <4>3 DEF ReportInv, ErrorsExplained
      <4> QED
        BY <3>2, <3>3, <4>1, <4>4, EndStep
    <3>5. CASE lbv' # nscls - nunsat
      <4>1. pc' = pc /\ result' = result
        BY <3>1, <3>5 DEF Continue
      <4>2. nunsat < mins
        BY <1>4, <2>1, <2>2, <3>1, <3>5
      <4>3. mins - 1 \in Nat /\ mins - 1 > 0
        BY <1>4, <2>1, <2>2, <4>2
      <4>4. \A k \in cardset' : \A t : Meets(t, k) <=> Cardinality(t \cap blockvs) <= mins - 1
        BY <3>1, <4>3, EncodedFacts
      <4>5. ASSUME NEW true \in HardModels
            PROVE  n(true) >= mins \/ (n(true) >= nunsat /\ MeetsAll(Used(true))')
        <5>1. n(true) \in Nat
          BY <1>2, OptimumFacts, Counting DEF n, Ready
        <5>2. CASE n(true) >= mins
          BY <5>2
        <5>3. CASE ~(n(true) >= mins)
          <6>1. n(true) >= nunsat
            BY <1>4, <1>6, <2>1, <5>1, <5>3
          <6>2. Used(true) \in SUBSET blockvs /\ Cardinality(Used(true)) = n(true)
            BY <1>1, <1>2, UsedPoint DEF n
          <6>3. Used(true) \cap blockvs = Used(true)
            BY <6>2
          <6>4. Cardinality(Used(true) \cap blockvs) <= mins - 1
            <7>1. Cardinality(Used(true) \cap blockvs) = n(true)
              BY <6>2, <6>3
            <7>2. n(true) <= mins - 1
              BY <5>1, <5>3, <2>1
            <7> QED
              BY <7>1, <7>2
          <6>5. \A k \in cardset' : Meets(Used(true), k)
            BY <4>4, <6>4
          <6>6. Missed(true)' = Missed(true)
            BY <1>3
          <6>7. Used(true)' = Used(true)
            BY <6>6, <1>1 DEF Used
          <6> QED
            BY <6>1, <6>5, <6>7 DEF MeetsAll
        <5> QED
          BY <5>2, <5>3
      <4>6. Held' = Held
        BY <1>1 DEF Held
      <4>7. KeptInv'
        BY <4>6, <1>1, <1>3 DEF IInv, KeptInv, Running
      <4>8. ShapeInv'
        BY <1>1, <1>4, <3>1, <4>1 DEF ShapeInv, IInv, Running
      <4>9. Msu2Inv'
        <5>1. lbv' = nscls' - minbs' /\ iternum' > 1 /\ nunsat' > 0 /\ nunsat' < minbs'
              /\ nunsat' <= Cardinality(blkclset')
          BY <1>1, <1>4, <1>5, <2>2, <3>1, <4>2
        <5>3. \A true \in HardModels' :
                LET m == Cardinality(Missed(true) \cap LitsIn(blkclset))'
                IN  (iternum' > 1 /\ m >= minbs') \/ (m >= nunsat' /\ MeetsAll(Used(true))')
          <6> TAKE true \in HardModels'
          <6>1. true \in HardModels /\ Cardinality(Missed(true) \cap LitsIn(blkclset))' = n(true)
            BY <1>1, <1>3 DEF n
          <6>2. n(true) >= mins \/ (n(true) >= nunsat /\ MeetsAll(Used(true))')
            BY <6>1, <4>5
          <6> QED
            BY <6>1, <6>2, <5>1, <1>1, <3>1
        <5> QED
          BY <5>1, <5>3 DEF Msu2Inv
      <4>10. ReportInv'
        BY <1>4, <4>1 DEF ReportInv, ErrorsExplained
      <4>11. StartInv' /\ Msu1Inv' /\ CoresInv' /\ Msu3Inv'
        BY <1>1, <4>1 DEF StartInv, Msu1Inv, CoresInv, Msu3Inv
      <4> QED
        BY <3>2, <3>3, <4>7, <4>8, <4>9, <4>10, <4>11 DEF IInv
    <3> QED
      BY <3>4, <3>5
  <2> QED
    BY <2>3, <2>4
<1> QED
  BY <1>13, <1>14

(* One more core in the set of the cores. *)
LEMMA UnionAdd ==
    ASSUME NEW S, NEW C
    PROVE  UNION (S \cup {C}) = (UNION S) \cup C
<1>1. \A x : x \in UNION (S \cup {C}) <=> x \in (UNION S) \cup C
  OBVIOUS
<1> QED
  BY <1>1, Zenon

(* The literals of two sets of clauses. *)
LEMMA LitsUnion ==
    ASSUME NEW A, NEW B
    PROVE  LitsIn(A \cup B) = LitsIn(A) \cup LitsIn(B)
  BY DEF LitsIn

(* The second loop of msu3 is entered with its constraint, or there is no  *)
(* encoding for it and the program ends.                                   *)
LEMMA EnterFacts ==
    ASSUME NEW vs, NEW rhs \in Nat, rhs > 0, opts.enc \in {"b", "i", "c", "s"},
           EnterLoop(vs, rhs)
    PROVE  \/ /\ pc' = "end" /\ result' = [kind |-> "error", lb |-> 0, ub |-> 0] /\ cardset' = {}
              /\ opts.enc = "c" \/ (opts.q /\ opts.enc \in {"c", "s"})
           \/ pc' = "search" /\ result' = result /\ cardset' = Bounded(vs, rhs)
<1>1. CASE NotBounded(vs, rhs)
  <2>1. pc' = "end" /\ result' = [kind |-> "error", lb |-> 0, ub |-> 0] /\ cardset' = {}
    BY <1>1 DEF EnterLoop, exit_err, Report
  <2>2. opts.enc = "c" \/ (opts.q /\ opts.enc \in {"c", "s"})
    BY <1>1 DEF NotBounded, NoAtMost, NoAtLeast
  <2> QED
    BY <2>1, <2>2
<1>2. CASE ~NotBounded(vs, rhs)
  BY <1>2 DEF EnterLoop
<1> QED
  BY <1>1, <1>2

(* Who meets the constraint of the second loop of msu3. *)
LEMMA BoundedFacts ==
    ASSUME NEW vs, NEW rhs \in Nat, rhs > 0
    PROVE  /\ \A k \in Bounded(vs, rhs) : k.vs = vs /\ k.rhs = rhs
           /\ \A t : Cardinality(t \cap vs) = rhs => \A k \in Bounded(vs, rhs) : Meets(t, k)
           /\ \A t : (\A k \in Bounded(vs, rhs) : Meets(t, k)) => Cardinality(t \cap vs) <= rhs
<1>1. EncodedAtMost(opts.enc, vs, rhs) = AtMost(vs, rhs)
      /\ EncodedAtLeast(opts.enc, vs, rhs) = AtLeast(vs, rhs)
      /\ AtMost(vs, rhs).vs = vs /\ AtMost(vs, rhs).rhs = rhs
      /\ AtLeast(vs, rhs).vs = vs /\ AtLeast(vs, rhs).rhs = rhs
      /\ (\A t : Meets(t, AtMost(vs, rhs)) <=> Cardinality(t \cap vs) <= rhs)
      /\ (\A t : Meets(t, AtLeast(vs, rhs)) <=> Cardinality(t \cap vs) >= rhs)
  <2>1. EncodedAtMost(opts.enc, vs, rhs) = AtMost(vs, rhs)
        /\ EncodedAtLeast(opts.enc, vs, rhs) = AtLeast(vs, rhs)
    BY EncodedFacts
  <2>2. AtMost(vs, rhs).vs = vs /\ AtMost(vs, rhs).rhs = rhs
        /\ AtLeast(vs, rhs).vs = vs /\ AtLeast(vs, rhs).rhs = rhs
    BY DEF AtMost, AtLeast
  <2>3. \A t : Meets(t, AtMost(vs, rhs)) <=> Cardinality(t \cap vs) <= rhs
    BY DEF Meets, AtMost
  <2>4. \A t : Meets(t, AtLeast(vs, rhs)) <=> Cardinality(t \cap vs) >= rhs
    BY DEF Meets, AtLeast
  <2> QED
    BY <2>1, <2>2, <2>3, <2>4
<1>2. Bounded(vs, rhs) = {AtMost(vs, rhs)} \cup (IF opts.q THEN {AtLeast(vs, rhs)} ELSE {})
  BY <1>1 DEF Bounded
<1>3. \A k \in Bounded(vs, rhs) : k = AtMost(vs, rhs) \/ k = AtLeast(vs, rhs)
  BY <1>2
<1>4. AtMost(vs, rhs) \in Bounded(vs, rhs)
  BY <1>2
<1> QED
  BY <1>1, <1>3, <1>4

(* What the solver needs no blocking variable for. *)
LEMMA BarePoint ==
    ASSUME Ready, blkclset = {}, cardset = {}, opts.alg # 1, NEW true \in HardModels,
           NEW C \in Cores
    PROVE  \E c \in C : c.lits \in Missed(true)
<1> DEFINE p == [true |-> true, bvs |-> {}]
<1>1. clbvcset = {} /\ {} \in SUBSET blockvs /\ MeetsAll({})
  BY DEF clbvcset, MeetsAll
<1>2. p \in HardPoints
  BY <1>1, Points
<1>3. PICK c \in C : ~At(p, c)
  BY <1>2, CoreFacts
<1>4. ~Satisfies(true, c.lits)
  BY <1>3, AtPoint
<1>5. c.lits \in SoftLits
  BY CoreFacts DEF LitsIn
<1> QED
  BY <1>4, <1>5 DEF Missed, Falsified

(* A core of the first loop of msu3 keeps the invariant. *)
LEMMA RemoveCoreKeeps ==
    ASSUME IInv, RemoveCore
    PROVE  IInv'
<1> USE DEF RemoveCore
<1>1. pc = "cores" /\ UNCHANGED input /\ file' = file /\ opts' = opts
      /\ UNCHANGED <<pc, blkclset, cardset, nscls, iternum, nbvlb, minbs, lbv, result>>
      /\ nunsat' = IF nunsat < MaxCores THEN nunsat + 1 ELSE nunsat
  BY DEF input
<1>2. Ready
  BY <1>1 DEF IInv, Ready, Running, TypeOK
<1>3. /\ parse' = parse /\ Optimum' = Optimum /\ Feasible' = Feasible /\ HardModels' = HardModels
      /\ \A true : Missed(true)' = Missed(true)
  BY <1>1, SameOptimum
<1>4. PICK C \in Cores : clset' = clset \ C /\ coreset' = coreset \cup {C}
  OBVIOUS
<1> HIDE DEF RemoveCore
<1>5. /\ opts.alg = 3 /\ blkclset = {} /\ cardset = {} /\ nbvlb = 0
      /\ Fresh(clset) /\ Fresh(UNION coreset)
      /\ clset \cap UNION coreset = {}
      /\ \A c \in UNION coreset : IsSoft(c)
  BY <1>1 DEF IInv, ShapeInv
<1>6. /\ minbs = nscls /\ ((nunsat = 0) <=> (coreset = {})) /\ nunsat <= MaxCores
      /\ \A true \in HardModels : nunsat <= Cardinality(Missed(true) \cap LitsIn(UNION coreset))
  BY <1>1 DEF IInv, CoresInv
<1>7. {nscls, iternum, nunsat, nbvlb, minbs, lbv} \subseteq Nat /\ MaxCores \in Nat \ {0}
      /\ Infinity \in Nat /\ MaxCores < Infinity
      /\ iternum > 0 /\ nscls = parse.nsoft /\ result.kind = "none"
  BY <1>1, CountsAssumption DEF IInv, TypeOK, ShapeInv, BoundInv, Running
<1>8. C \subseteq clset /\ \A c \in C : IsSoft(c)
  BY <1>2, CoreFacts
<1>9. nunsat' \in Nat /\ nunsat' <= MaxCores /\ nunsat' > 0 /\ nunsat' <= nunsat + 1
  BY <1>1, <1>6, <1>7
<1>10. UNION coreset' = (UNION coreset) \cup C /\ coreset' # {}
  BY <1>4, UnionAdd
<1>11. Held' = Held
  <2>1. Held = clset \cup UNION coreset /\ Held' = clset' \cup UNION coreset'
    BY <1>1, <1>5 DEF Held
  <2> QED
    BY <2>1, <1>4, <1>8, <1>10
<1>12. ASSUME NEW true \in HardModels
       PROVE  nunsat' <= Cardinality(Missed(true) \cap LitsIn(UNION coreset'))
              /\ Cardinality(Missed(true) \cap LitsIn(UNION coreset')) <= Cardinality(Missed(true))
              /\ Cardinality(Missed(true) \cap LitsIn(UNION coreset')) \in Nat
  <2>1. LitsIn(UNION coreset') = LitsIn(UNION coreset) \cup LitsIn(C)
    BY <1>10, LitsUnion
  <2>2. PICK c \in C : c.lits \in Missed(true)
    BY <1>2, <1>5, BarePoint
  <2>3. c.lits \in LitsIn(UNION coreset')
    BY <2>1, <2>2 DEF LitsIn
  <2>4. c.lits \notin LitsIn(UNION coreset)
    <3> SUFFICES ASSUME NEW d \in UNION coreset, c.lits = d.lits PROVE FALSE
      BY DEF LitsIn
    <3>1. c \in Held /\ d \in Held
      BY <1>5, <1>8, <2>2 DEF Held
    <3>2. KeptSet(Held, parse.clauses)
      BY <1>2 DEF Ready, KeptInv
    <3>3. c = d
      BY <3>1, <3>2 DEF KeptSet
    <3> QED
      BY <3>3, <1>5, <1>8, <2>2
  <2>5. IsFiniteSet(Missed(true))
    BY <1>2, OptimumFacts DEF Ready
  <2> DEFINE A == LitsIn(UNION coreset)
             B == LitsIn(UNION coreset')
  <2>6. A \subseteq B /\ c.lits \in Missed(true) /\ c.lits \in B /\ c.lits \notin A
    BY <2>1, <2>2, <2>3, <2>4
  <2>7. nunsat <= Cardinality(Missed(true) \cap A)
    BY <1>6
  <2> HIDE DEF A, B
  <2>8. /\ Cardinality(Missed(true) \cap A) \in Nat /\ Cardinality(Missed(true) \cap B) \in Nat
        /\ Cardinality(Missed(true) \cap A) + 1 <= Cardinality(Missed(true) \cap B)
        /\ Cardinality(Missed(true) \cap B) <= Cardinality(Missed(true))
    BY <2>5, <2>6, Counting
  <2>9. nunsat' <= Cardinality(Missed(true) \cap B)
    BY <2>7, <2>8, <1>9, <1>7
  <2> QED
    BY <2>8, <2>9 DEF B
<1>13. TypeOK'
  <2>1. \A c \in clset' \cup blkclset' : c.lits \subseteq Int /\ c.type \in Int
    BY <1>1, <1>4 DEF IInv, TypeOK
  <2>2. C \subseteq parse.clauses
    <3> SUFFICES ASSUME NEW c \in C PROVE c \in parse.clauses
      OBVIOUS
    <3>1. c \in Held /\ c \in Work /\ c.bvs = {}
      BY <1>2, <1>5, <1>8, HeldFacts DEF Fresh
    <3>2. Plain(c) \in parse.clauses
      BY <1>2, <3>1 DEF Ready, KeptInv, KeptSet
    <3> QED
      BY <3>1, <3>2, PlainSame
  <2>3. coreset' \subseteq SUBSET parse.clauses
    BY <1>4, <2>2 DEF IInv, TypeOK
  <2> QED
    BY <1>1, <1>3, <1>5, <1>7, <1>9, <2>1, <2>3 DEF IInv, TypeOK
<1>14. KeptInv'
  BY <1>1, <1>3, <1>11 DEF IInv, KeptInv, Running
<1>15. ShapeInv'
  <2>1. Fresh(clset') /\ Fresh(UNION coreset') /\ clset' \cap UNION coreset' = {}
        /\ \A c \in UNION coreset' : IsSoft(c)
    BY <1>4, <1>5, <1>8, <1>10 DEF Fresh
  <2> QED
    BY <1>1, <1>5, <2>1 DEF IInv, ShapeInv, Running
<1>16. CoresInv'
  <2>1. \A true \in HardModels' :
          nunsat' <= Cardinality(Missed(true) \cap LitsIn(UNION coreset))'
    BY <1>3, <1>12
  <2>2. minbs' = nscls' /\ ((nunsat' = 0) <=> (coreset' = {})) /\ nunsat' <= MaxCores
    <3>1. minbs' = nscls'
      BY <1>1, <1>6
    <3>2. nunsat' # 0
      BY <1>9
    <3> QED BY <1>9, <1>10, <3>1, <3>2
  <2> QED
    BY <2>1, <2>2, Zenon DEF CoresInv
<1>17. BoundInv'
  <2>1. Feasible => nunsat' <= Optimum
    <3> SUFFICES ASSUME Feasible PROVE nunsat' <= Optimum
      OBVIOUS
    <3>1. Optimum \in Nat /\ \E true \in HardModels : Optimum = Cardinality(Missed(true))
      BY <1>2, OptimumFacts DEF Ready
    <3>2. PICK true \in HardModels : Optimum = Cardinality(Missed(true))
      BY <3>1
    <3> DEFINE n == Cardinality(Missed(true) \cap LitsIn(UNION coreset'))
    <3>3. nunsat' <= n /\ n <= Cardinality(Missed(true)) /\ n \in Nat
      BY <1>12
    <3> HIDE DEF n
    <3> QED
      BY <3>1, <3>2, <3>3, <1>9
  <2>2. BoundInv
    BY DEF IInv
  <2> QED
    BY <1>1, <1>3, <1>5, <1>7, <1>9, <2>1, <2>2 DEF BoundInv
<1>18. ReportInv'
  BY <1>1, <1>7 DEF ReportInv, ErrorsExplained
<1>19. StartInv' /\ Msu1Inv' /\ Msu2Inv' /\ Msu3Inv'
  BY <1>1 DEF StartInv, Msu1Inv, Msu2Inv, Msu3Inv
<1> QED
  BY <1>13, <1>14, <1>15, <1>16, <1>17, <1>18, <1>19 DEF IInv

(* The end of the first loop of msu3 keeps the invariant. *)
LEMMA CoresRemovedKeeps ==
    ASSUME IInv, CoresRemoved
    PROVE  IInv'
<1> DEFINE U == UNION coreset
           blocked == {Blocked(c) : c \in U}
           bvs == UNION {c.bvs : c \in blocked}
<1>1. pc = "cores" /\ UNCHANGED input /\ file' = file /\ opts' = opts /\ AllPoints # {}
      /\ UNCHANGED <<clset, coreset, nscls, iternum, nunsat, minbs, lbv>>
      /\ IF nunsat = 0
           THEN Computed(nscls) /\ UNCHANGED <<blkclset, cardset, nbvlb>>
           ELSE /\ blkclset' = blocked
                /\ nbvlb' = nunsat
                /\ EnterLoop(bvs, nunsat)
  BY DEF input, CoresRemoved
<1> HIDE DEF bvs
<1>2. Ready
  BY <1>1 DEF IInv, Ready, Running, TypeOK
<1>3. /\ parse' = parse /\ Optimum' = Optimum /\ Feasible' = Feasible /\ HardModels' = HardModels
      /\ \A true : Missed(true)' = Missed(true)
  BY <1>1, SameOptimum
<1>5. /\ opts.alg = 3 /\ opts.enc \in {"b", "i", "c", "s"}
      /\ blkclset = {} /\ cardset = {} /\ nbvlb = 0
      /\ Fresh(clset) /\ Fresh(U) /\ clset \cap U = {}
      /\ \A c \in U : IsSoft(c)
  BY <1>1, AllowedFacts DEF IInv, ShapeInv, Running
<1>6. /\ minbs = nscls /\ ((nunsat = 0) <=> (coreset = {})) /\ nunsat <= MaxCores
      /\ \A true \in HardModels : nunsat <= Cardinality(Missed(true) \cap LitsIn(U))
  BY <1>1 DEF IInv, CoresInv
<1>7. {nscls, iternum, nunsat, nbvlb, minbs, lbv} \subseteq Nat
      /\ iternum > 0 /\ nscls = parse.nsoft /\ result.kind = "none"
  BY <1>1 DEF IInv, TypeOK, ShapeInv, BoundInv, Running
<1>8. Held = clset \cup U
  BY <1>5 DEF Held
<1>9. HardModels # {} /\ Feasible
  <2>1. PICK p \in HardPoints : TRUE
    BY <1>1 DEF AllPoints
  <2> DEFINE tr == p.true
             t == p.bvs
  <2>2. [true |-> tr, bvs |-> t] \in HardPoints
    BY <2>1, <1>2, Points
  <2> HIDE DEF tr, t
  <2>3. tr \in HardModels
    BY <2>2, <1>2, Points
  <2> QED
    BY <2>3, <1>2, OptimumFacts DEF Ready
<1>10. BoundInv
  BY DEF IInv
<1>11. CASE nunsat = 0
  <2>1. pc' = "end" /\ result' = [kind |-> "answer", lb |-> nscls, ub |-> nscls]
        /\ UNCHANGED <<blkclset, cardset, nbvlb>>
    BY <1>1, <1>11 DEF Computed, Report
  <2>2. Held = clset \cup blkclset
    BY <1>5, <1>6, <1>8, <1>11
  <2>3. PICK p \in AllPoints : TRUE
    BY <1>1
  <2>4. /\ Optimum \in Nat
        /\ Optimum <= Cardinality(Missed(p.true))
        /\ Missed(p.true) \subseteq LitsIn(clset \cup blkclset)
        /\ \A c \in clset : c.bvs = {} => c.lits \notin Missed(p.true)
    BY <1>2, <2>2, ModelCost
  <2>5. Missed(p.true) = {}
    <3>1. clset \cup blkclset = clset /\ \A c \in clset : c.bvs = {}
      BY <1>5 DEF Fresh
    <3> QED
      BY <2>4, <3>1 DEF LitsIn
  <2>6. Optimum = 0
    BY <2>4, <2>5, FS_EmptySet
  <2>7. ReportInv'
    BY <1>1, <1>3, <1>7, <2>1, <2>6 DEF ReportInv, ErrorsExplained
  <2>8. BoundInv'
    BY <1>1, <1>3, <1>10, <2>1 DEF BoundInv
  <2>9. TypeOK'
    <3>1. blockvs' = blockvs
      BY <1>1, <2>1 DEF blockvs
    <3> QED
      BY <1>1, <1>3, <2>1, <3>1 DEF IInv, TypeOK
  <2> QED
    BY <2>1, <2>7, <2>8, <2>9, EndStep
<1>12. CASE nunsat # 0
  <2>1. blkclset' = blocked /\ nbvlb' = nunsat /\ EnterLoop(bvs, nunsat)
    BY <1>1, <1>12
  <2>2. nunsat \in Nat /\ nunsat > 0
    BY <1>7, <1>12
  <2>3. \/ /\ pc' = "end" /\ result' = [kind |-> "error", lb |-> 0, ub |-> 0] /\ cardset' = {}
           /\ opts.enc = "c" \/ (opts.q /\ opts.enc \in {"c", "s"})
        \/ pc' = "search" /\ result' = result /\ cardset' = Bounded(bvs, nunsat)
    BY <1>5, <2>1, <2>2, EnterFacts
  <2>4. \A c \in U : /\ c \in Work /\ Cardinality(c.bvs) = 0 /\ c \in Held
                     /\ c.bvs = VarsOf(c.lits, Cardinality(c.bvs))
    BY <1>2, <1>5, <1>8, HeldFacts, FS_EmptySet DEF Fresh
  <2>5. \A c \in U : /\ Blocked(c) \in Work /\ Blocked(c).lits = c.lits
                     /\ Blocked(c).bvs = VarsOf(c.lits, 1)
    <3> TAKE c \in U
    <3>1. c \in Work /\ Cardinality(c.bvs) \in Nat /\ c.bvs = VarsOf(c.lits, Cardinality(c.bvs))
          /\ Cardinality(c.bvs) = 0 /\ 0 + 1 = 1
      BY <2>4
    <3>2. /\ Blocked(c) \in Work /\ Blocked(c).lits = c.lits
          /\ Cardinality(Blocked(c).bvs) = Cardinality(c.bvs) + 1
          /\ Blocked(c).bvs = VarsOf(c.lits, Cardinality(Blocked(c).bvs))
      BY <3>1, BlockedFacts
    <3> QED
      BY <3>1, <3>2
  <2>6. \A c \in blkclset' : c \in Work /\ c.bvs = VarsOf(c.lits, 1)
    BY <2>1, <2>5
  <2>7. LitsIn(blkclset') = LitsIn(U)
    BY <2>1, <2>5 DEF LitsIn
  <2>8. blkclset' = {} => UNION coreset' = {}
    BY <1>1, <2>1
  <2>9. Held' = (Held \ U) \cup {Blocked(c) : c \in U}
    <3>1. Held' = clset' \cup blkclset'
      BY <2>8 DEF Held
    <3> QED
      BY <3>1, <1>1, <1>5, <1>8, <2>1
  <2>10. KeptSet(Held', parse.clauses)
    <3>1. KeptSet(Held, parse.clauses) /\ U \in SUBSET Held /\ \A c \in U : c.type = 0
      BY <1>2, <1>5, <1>8 DEF Ready, KeptInv, IsSoft
    <3>2. KeptSet((Held \ U) \cup {Blocked(c) : c \in U}, parse.clauses)
      BY <3>1, Block
    <3> QED
      BY <2>9, <3>2
  <2>11. blockvs' = bvs
    BY <1>1, <1>5, <2>1 DEF blockvs, bvs, Fresh
  <2>12. \A k \in cardset' : k.vs \subseteq blockvs' /\ k.rhs \in Nat
    BY <2>2, <2>3, <2>11, BoundedFacts
  <2>13. TypeOK'
    <3>1. \A c \in clset' \cup blkclset' : c.lits \subseteq Int /\ c.type \in Int
      BY <1>1, <2>6, WorkFields DEF IInv, TypeOK
    <3>2. {nscls', iternum', nunsat', nbvlb', minbs', lbv'} \subseteq Nat
      BY <1>1, <1>7, <2>1
    <3>3. pc' \in {"search", "end"} /\ result'.kind \in {"none", "error"}
          /\ ((pc' = "end") <=> (result'.kind # "none"))
      BY <1>7, <2>3
    <3> QED
      BY <1>1, <1>3, <2>12, <3>1, <3>2, <3>3 DEF IInv, TypeOK
  <2>14. BoundInv'
    BY <1>1, <1>3, <1>9, <1>10, <2>1 DEF BoundInv
  <2>15. ReportInv'
    BY <1>1, <1>5, <1>7, <2>3 DEF ReportInv, ErrorsExplained
  <2>16. CASE pc' = "end"
    BY <2>13, <2>14, <2>15, <2>16, EndStep
  <2>17. CASE pc' = "search"
    <3>1. result' = result /\ cardset' = Bounded(bvs, nunsat)
      BY <2>3, <2>17
    <3>2. KeptInv'
      BY <2>10, <1>3 DEF KeptInv
    <3>3. ShapeInv'
      BY <1>1, <1>5, <2>6, <2>8, <2>17 DEF IInv, ShapeInv, Running
    <3>4. Msu3Inv'
      <4>1. cardset' = Bounded(blockvs', nbvlb') /\ nbvlb' > 0 /\ nunsat' <= nbvlb'
            /\ minbs' = nscls'
        BY <1>1, <1>6, <2>1, <2>2, <2>11, <3>1
      <4>2. Bounded(blockvs, nbvlb)' = Bounded(blockvs', nbvlb')
        BY <1>1 DEF Bounded
      <4>3. \A true \in HardModels' :
              nbvlb' <= Cardinality(Missed(true) \cap LitsIn(blkclset))'
        BY <1>3, <1>6, <2>1, <2>7
      <4> QED
        BY <1>3, <1>9, <4>1, <4>2, <4>3 DEF Msu3Inv
    <3>5. StartInv' /\ Msu1Inv' /\ Msu2Inv' /\ CoresInv'
      BY <1>1, <1>5, <2>17 DEF StartInv, Msu1Inv, Msu2Inv, CoresInv
    <3> QED
      BY <2>13, <2>14, <2>15, <3>2, <3>3, <3>4, <3>5 DEF IInv
  <2> QED
    BY <2>3, <2>16, <2>17
<1> QED
  BY <1>11, <1>12

(* A core of the second loop of msu3 keeps the invariant. *)
LEMMA Msu3UnsatKeeps ==
    ASSUME IInv, Msu3Unsat
    PROVE  IInv'
<1>1. pc = "search" /\ opts.alg = 3 /\ opts.alg \in 2..3 /\ UNCHANGED input /\ file' = file /\ opts' = opts
      /\ UNCHANGED <<coreset, file>>
      /\ UNCHANGED <<coreset, nscls, iternum, nunsat, minbs, lbv>> /\ nbvlb' = nbvlb + 1
  BY DEF input, Msu3Unsat
<1>2. Ready
  BY <1>1 DEF IInv, Ready, Running, TypeOK
<1>3. /\ parse' = parse /\ Optimum' = Optimum /\ Feasible' = Feasible /\ HardModels' = HardModels
      /\ \A true : Missed(true)' = Missed(true)
  BY <1>1, SameOptimum
<1>4. PICK C \in Cores :
       /\ clset' = clset \ C
       /\ blkclset' = blkclset \cup {Blocked(c) : c \in C}
       /\ EnterLoop(blockvs \cup NewVars(C), nbvlb')
  BY DEF Msu3Unsat
<1>5. /\ opts.enc \in {"b", "i", "c", "s"}
      /\ {nscls, iternum, nunsat, nbvlb, minbs, lbv} \subseteq Nat
      /\ iternum > 0 /\ nscls = parse.nsoft /\ result.kind = "none"
  BY <1>1, AllowedFacts DEF IInv, TypeOK, ShapeInv, BoundInv, Running
<1>6. /\ minbs = nscls /\ cardset = Bounded(blockvs, nbvlb)
      /\ nbvlb > 0 /\ nunsat <= nbvlb /\ HardModels # {}
      /\ \A true \in HardModels :
            nbvlb <= Cardinality(Missed(true) \cap LitsIn(blkclset))
  BY <1>1 DEF IInv, Msu3Inv
<1>7.      /\ KeptSet(Held', parse.clauses)
           /\ Fresh(clset') /\ \A c \in blkclset' : c.bvs = VarsOf(c.lits, 1)
           /\ blkclset' = {} => UNION coreset' = {}
           /\ LitsIn(blkclset)' = LitsIn(blkclset) \cup LitsIn(C)
           /\ LitsIn(C) \cap LitsIn(blkclset) = {}
           /\ blockvs' = blockvs \cup NewVars(C)
           /\ clset' \cup blkclset' \subseteq Work
  BY <1>1, <1>2, <1>4, BlockStep
<1> DEFINE bvs == blockvs \cup NewVars(C)
<1>8. \/ /\ pc' = "end" /\ result' = [kind |-> "error", lb |-> 0, ub |-> 0] /\ cardset' = {}
         /\ opts.enc = "c" \/ (opts.q /\ opts.enc \in {"c", "s"})
      \/ pc' = "search" /\ result' = result /\ cardset' = Bounded(bvs, nbvlb')
  <2>1. nbvlb' \in Nat /\ nbvlb' > 0
    BY <1>1, <1>5
  <2>2. EnterLoop(bvs, nbvlb')
    BY <1>4
  <2> HIDE DEF bvs
  <2> QED
    BY <1>5, <2>1, <2>2, EnterFacts
<1> HIDE DEF bvs
<1>9. nbvlb \in Nat /\ nbvlb > 0 /\ nbvlb' \in Nat /\ nbvlb' > 0 /\ nbvlb' = nbvlb + 1
  BY <1>1, <1>5, <1>6
<1>10. ASSUME NEW true \in HardModels
       PROVE  LET n1 == Cardinality(Missed(true) \cap LitsIn(blkclset))'
              IN  n1 \in Nat /\ nbvlb' <= n1 /\ n1 <= Cardinality(Missed(true))
  <2> DEFINE A == LitsIn(blkclset)
             B == LitsIn(blkclset) \cup LitsIn(C)
             n == Cardinality(Missed(true) \cap A)
             n1 == Cardinality(Missed(true) \cap B)
  <2>1. Cardinality(Missed(true) \cap LitsIn(blkclset))' = n1
    BY <1>3, <1>7
  <2>2. IsFiniteSet(Missed(true)) /\ A \subseteq B /\ nbvlb <= n
    BY <1>2, <1>6, OptimumFacts DEF Ready
  <2>3. \A l \in LitsIn(C) : l \in B /\ l \notin A
    BY <1>7
  <2>4. n = nbvlb => MeetsAll(Used(true))
    <3> SUFFICES ASSUME n = nbvlb PROVE MeetsAll(Used(true))
      OBVIOUS
    <3>1. Used(true) \in SUBSET blockvs /\ Cardinality(Used(true)) = n
      BY <1>1, <1>2, UsedPoint
    <3>2. Used(true) \cap blockvs = Used(true)
      BY <3>1
    <3>3. Cardinality(Used(true) \cap blockvs) = nbvlb
      BY <3>1, <3>2
    <3> QED
      BY <3>3, <1>6, <1>9, BoundedFacts DEF MeetsAll
  <2>5. n = nbvlb => \E l \in LitsIn(C) : l \in Missed(true)
    BY <2>4, <1>1, <1>2, UsedPoint
  <2> HIDE DEF A, B
  <2>6. /\ n \in Nat /\ n1 \in Nat /\ n <= n1 /\ n1 <= Cardinality(Missed(true))
        /\ (\E x \in Missed(true) : x \in B /\ x \notin A) => n + 1 <= n1
    BY <2>2, Counting
  <2> HIDE DEF n, n1
  <2>7. nbvlb + 1 <= n1
    <3>1. CASE n = nbvlb
      BY <3>1, <2>3, <2>5, <2>6
    <3>2. CASE n # nbvlb
      BY <3>2, <2>2, <2>6, <1>9
    <3> QED
      BY <3>1, <3>2
  <2> QED
    BY <2>1, <2>6, <2>7, <1>9
<1>11. TypeOK'
  <2>1. \A c \in clset' \cup blkclset' : c.lits \subseteq Int /\ c.type \in Int
    BY <1>7, WorkFields
  <2>2. \A k \in cardset' : k.vs \subseteq blockvs' /\ k.rhs \in Nat
    <3>1. blockvs' = bvs
      BY <1>7 DEF bvs
    <3> QED
      BY <3>1, <1>8, <1>9, BoundedFacts
  <2>3. {nscls', iternum', nunsat', nbvlb', minbs', lbv'} \subseteq Nat
    BY <1>1, <1>5
  <2>4. pc' \in {"search", "end"} /\ result'.kind \in {"none", "error"}
        /\ ((pc' = "end") <=> (result'.kind # "none"))
    BY <1>5, <1>8
  <2> QED
    BY <1>1, <1>3, <2>1, <2>2, <2>3, <2>4 DEF IInv, TypeOK
<1>12. BoundInv'
  <2>1. Feasible => nbvlb' <= Optimum
    <3> SUFFICES ASSUME Feasible PROVE nbvlb' <= Optimum
      OBVIOUS
    <3>1. Optimum \in Nat /\ \E true \in HardModels : Optimum = Cardinality(Missed(true))
      BY <1>2, OptimumFacts DEF Ready
    <3>2. PICK true \in HardModels : Optimum = Cardinality(Missed(true))
      BY <3>1
    <3> DEFINE n1 == Cardinality(Missed(true) \cap LitsIn(blkclset))'
    <3>3. n1 \in Nat /\ nbvlb' <= n1 /\ n1 <= Optimum
      BY <1>10, <3>2
    <3> HIDE DEF n1
    <3> QED
      BY <3>1, <3>3, <1>9
  <2>2. Feasible
    BY <1>2, <1>6, OptimumFacts DEF Ready
  <2>3. BoundInv
    BY DEF IInv
  <2> QED
    BY <1>1, <1>3, <2>1, <2>2, <2>3 DEF BoundInv
<1>13. ReportInv'
  BY <1>1, <1>5, <1>8 DEF ReportInv, ErrorsExplained
<1>14. CASE pc' = "end"
  BY <1>11, <1>12, <1>13, <1>14, EndStep
<1>15. CASE pc' = "search"
  <2>1. result' = result /\ cardset' = Bounded(bvs, nbvlb')
    BY <1>8, <1>15
  <2>2. KeptInv'
    BY <1>7, <1>3 DEF KeptInv
  <2>3. ShapeInv'
    BY <1>1, <1>5, <1>7, <1>15 DEF IInv, ShapeInv, Running
  <2>4. Msu3Inv'
    <3>1. cardset' = Bounded(blockvs', nbvlb') /\ nbvlb' > 0 /\ nunsat' <= nbvlb'
          /\ minbs' = nscls'
      BY <1>1, <1>5, <1>6, <1>7, <1>9, <2>1 DEF bvs
    <3>2. Bounded(blockvs, nbvlb)' = Bounded(blockvs', nbvlb')
      BY <1>1 DEF Bounded
    <3>3. \A true \in HardModels' :
            nbvlb' <= Cardinality(Missed(true) \cap LitsIn(blkclset))'
      BY <1>3, <1>10
    <3> QED
      BY <1>3, <1>6, <3>1, <3>2, <3>3 DEF Msu3Inv
  <2>5. StartInv' /\ Msu1Inv' /\ Msu2Inv' /\ CoresInv'
    BY <1>1, <1>15 DEF StartInv, Msu1Inv, Msu2Inv, CoresInv
  <2> QED
    BY <1>11, <1>12, <1>13, <2>2, <2>3, <2>4, <2>5 DEF IInv
<1> QED
  BY <1>8, <1>14, <1>15

(* A model of msu3 keeps the invariant. *)
LEMMA Msu3SatKeeps ==
    ASSUME IInv, Msu3Sat
    PROVE  IInv'
<1>1. pc = "search" /\ opts.alg = 3 /\ UNCHANGED input /\ file' = file /\ opts' = opts
      /\ AllPoints # {} /\ UNCHANGED <<work, iternum, counts>>
      /\ UNCHANGED <<clset, blkclset, coreset, cardset, nscls, nunsat, nbvlb, minbs, lbv>>
      /\ pc' = "end" /\ result' = [kind |-> "answer", lb |-> nscls - nbvlb, ub |-> nscls - nbvlb]
  BY DEF input, Msu3Sat, work, counts, Computed, Report
<1>2. Ready
  BY <1>1 DEF IInv, Ready, Running, TypeOK
<1>3. /\ parse' = parse /\ Optimum' = Optimum /\ Feasible' = Feasible
  BY <1>1, SameOptimum
<1>4. {nscls, iternum, nunsat, nbvlb, minbs, lbv} \subseteq Nat /\ iternum > 0
      /\ BoundInv
  BY <1>1 DEF IInv, TypeOK, ShapeInv, Running
<1>5. cardset = Bounded(blockvs, nbvlb) /\ nbvlb > 0
  BY <1>1 DEF IInv, Msu3Inv
<1>6. PICK p \in AllPoints : TRUE
  BY <1>1
<1>7. /\ p.bvs \in SUBSET blockvs /\ MeetsAll(p.bvs)
      /\ Cardinality(p.bvs) \in Nat
      /\ Feasible /\ Optimum \in Nat
      /\ Optimum <= Cardinality(Missed(p.true))
      /\ Cardinality(Missed(p.true)) <= Cardinality(p.bvs)
      /\ Cardinality(Missed(p.true)) \in Nat
  <2>1. Held = clset \cup blkclset
    BY <1>1, <1>2, HeldFacts
  <2>2. p.true \in HardModels
    BY <1>2, <2>1, ModelCost
  <2> QED
    BY <1>2, <2>1, <2>2, ModelCost, OptimumFacts DEF Ready
<1>8. Cardinality(p.bvs) <= nbvlb
  <2>1. p.bvs \cap blockvs = p.bvs
    BY <1>7
  <2>2. Cardinality(p.bvs \cap blockvs) <= nbvlb
    <3> DEFINE t == p.bvs
    <3>1. \A k \in Bounded(blockvs, nbvlb) : Meets(t, k)
      BY <1>5, <1>7 DEF MeetsAll
    <3> HIDE DEF t
    <3>2. Cardinality(t \cap blockvs) <= nbvlb
      BY <1>4, <1>5, <3>1, BoundedFacts
    <3> QED
      BY <3>2 DEF t
  <2> QED
    BY <2>1, <2>2
<1>9. nbvlb = Optimum
  BY <1>4, <1>7, <1>8 DEF BoundInv
<1>10. TypeOK'
  <2>1. blockvs' = blockvs
    BY <1>1 DEF blockvs
  <2> QED
    BY <1>1, <1>3, <2>1 DEF IInv, TypeOK, counts
<1>11. BoundInv'
  BY <1>1, <1>3, <1>4 DEF BoundInv
<1>12. ReportInv'
  BY <1>1, <1>3, <1>4, <1>9 DEF ReportInv, ErrorsExplained
<1> QED
  BY <1>1, <1>10, <1>11, <1>12, EndStep

(* What a core of msu1 does to the clauses: each clause c goes on as b(c). *)
LEMMA Msu1Block ==
    ASSUME Ready, pc = "search", opts.alg = 1, NEW C \in Cores,
           clset' = (clset \ C) \cup {Blocked(c) : c \in C},
           UNCHANGED <<blkclset, coreset, file>>
    PROVE  /\ KeptSet(Held', parse.clauses)
           /\ clset' \cup blkclset' \subseteq Work
           /\ blockvs = UNION {c.bvs : c \in clset}
           /\ blockvs' = blockvs \cup NewVars(C)
           /\ blockvs \cap NewVars(C) = {}
           /\ \A c \in clset : c.bvs \subseteq blockvs
           /\ \A c \in C : /\ Blocked(c).lits = c.lits /\ IsSoft(Blocked(c))
                           /\ Blocked(c).bvs = c.bvs \cup {NewVar(c)}
           /\ \A c, d \in C : NewVar(c) = NewVar(d) => c = d
           /\ \A c, d \in clset : c.lits = d.lits => c = d
<1>1. blkclset = {} /\ coreset = {} /\ Held = clset /\ Held' = clset'
  BY DEF Ready, ShapeInv, Held
<1>2. KeptSet(clset, parse.clauses)
  BY <1>1 DEF Ready, KeptInv
<1>3. C \in SUBSET clset /\ \A c \in C : c.type = 0
  BY CoreFacts
<1>4. KeptSet((clset \ C) \cup {Blocked(c) : c \in C}, parse.clauses)
  BY <1>2, <1>3, Block
<1>5. KeptSet(Held', parse.clauses)
  BY <1>1, <1>4
<1>6. clset' \cup blkclset' \subseteq Work
  BY <1>1, <1>5 DEF KeptSet
<1>7. \A c, d \in clset : c.lits = d.lits => c = d
  BY <1>2 DEF KeptSet
<1>8. ASSUME NEW c \in clset
      PROVE  /\ c \in Work /\ Cardinality(c.bvs) \in Nat
             /\ c.bvs = VarsOf(c.lits, Cardinality(c.bvs))
             /\ \A b \in c.bvs : b[1] = c.lits
  <2>1. c \in Work /\ Cardinality(c.bvs) \in Nat /\ c.bvs = VarsOf(c.lits, Cardinality(c.bvs))
    BY <1>2 DEF KeptSet
  <2>2. \A b \in VarsOf(c.lits, Cardinality(c.bvs)) : b[1] = c.lits
    BY <2>1, VarsOfFacts
  <2> QED
    BY <2>1, <2>2
<1>9. ASSUME NEW c \in C
      PROVE  /\ Blocked(c).lits = c.lits /\ Blocked(c).type = c.type
             /\ Blocked(c).bvs = c.bvs \cup {NewVar(c)}
             /\ NewVar(c) \notin c.bvs /\ NewVar(c)[1] = c.lits
  <2>1. NewVar(c) = <<c.lits, Cardinality(c.bvs)>>
    BY DEF NewVar
  <2> QED
    BY <1>3, <1>8, <2>1, BlockedFacts
<1>10. blockvs = UNION {c.bvs : c \in clset}
  BY <1>1 DEF blockvs
<1>11. \A c \in clset : c.bvs \subseteq blockvs
  BY <1>10
<1>12. blockvs' = blockvs \cup NewVars(C)
  <2>1. blockvs' = UNION {c.bvs : c \in clset'}
    BY <1>1 DEF blockvs
  <2>2. ASSUME NEW b \in blockvs' PROVE b \in blockvs \cup NewVars(C)
    BY <2>1, <2>2, <1>3, <1>9, <1>11 DEF NewVars
  <2>3. ASSUME NEW b \in blockvs PROVE b \in blockvs'
    <3>1. PICK c \in clset : b \in c.bvs
      BY <1>10
    <3>2. CASE c \in C
      BY <3>1, <3>2, <2>1, <1>9
    <3>3. CASE c \notin C
      BY <3>1, <3>3, <2>1
    <3> QED
      BY <3>2, <3>3
  <2>4. ASSUME NEW b \in NewVars(C) PROVE b \in blockvs'
    BY <2>1, <1>9 DEF NewVars
  <2> QED
    BY <2>2, <2>3, <2>4
<1>13. blockvs \cap NewVars(C) = {}
  <2> SUFFICES ASSUME NEW c \in C, NewVar(c) \in blockvs PROVE FALSE
    BY DEF NewVars
  <2>1. PICK d \in clset : NewVar(c) \in d.bvs
    BY <1>10
  <2>2. d.lits = c.lits
    BY <2>1, <1>8, <1>9
  <2>3. d = c
    BY <2>2, <1>3, <1>7
  <2> QED
    BY <2>1, <2>3, <1>9
<1>14. \A c, d \in C : NewVar(c) = NewVar(d) => c = d
  BY <1>3, <1>7, <1>9
<1> QED
  BY <1>3, <1>5, <1>6, <1>7, <1>9, <1>10, <1>11, <1>12, <1>13, <1>14 DEF IsSoft

(* Some initial clause of every core is falsified where Msu1Inv looks. *)
LEMMA Msu1Point ==
    ASSUME Ready, pc = "search", opts.alg = 1, NEW true \in HardModels,
           NEW t \in SUBSET blockvs, MeetsAll(t),
           \A c \in clset : Cardinality(t \cap c.bvs) <= 1, NEW C \in Cores
    PROVE  \E c \in C : c \in INITs /\ ~At([true |-> true, bvs |-> t], c)
<1>1. blkclset = {}
  BY DEF Ready, ShapeInv
<1>2. \A k \in clbvcset : Meets(t, k)
  <2> TAKE k \in clbvcset
  <2>1. PICK c \in clset : k = EncodedAtMost(opts.enc, c.bvs, 1)
    BY DEF clbvcset, INITs
  <2>3. ASSUME NEW vs
        PROVE  /\ EncodedAtMost(opts.enc, vs, 1) = AtMost(vs, 1)
               /\ Meets(t, AtMost(vs, 1)) <=> Cardinality(t \cap vs) <= 1
    BY DEF EncodedAtMost, AtMost, Meets
  <2>4. Cardinality(t \cap c.bvs) <= 1
    OBVIOUS
  <2> DEFINE v == c.bvs
  <2>5. k = EncodedAtMost(opts.enc, v, 1) /\ Cardinality(t \cap v) <= 1
    BY <2>1, <2>4
  <2> HIDE DEF v
  <2> QED
    BY <2>3, <2>5
<1>3. [true |-> true, bvs |-> t] \in HardPoints
  BY <1>1, <1>2, Points
<1> QED
  BY <1>3, CoreFacts

(* The constraints msu1 adds: at most one of the new variables, with -q at *)
(* least one.                                                              *)
AddedFor(new) ==
  {EncodedAtMost(opts.enc, new, 1)} \cup (IF opts.q THEN {EncodedAtLeast(opts.enc, new, 1)} ELSE {})

(* Who meets the constraints of a core of msu1. *)
LEMMA AddedFacts ==
    ASSUME NEW new
    PROVE  /\ \A k \in AddedFor(new) : k.vs = new /\ k.rhs = 1
           /\ \A t : Cardinality(t \cap new) = 1 => \A k \in AddedFor(new) : Meets(t, k)
           /\ \A t : (\A k \in AddedFor(new) : Meets(t, k)) => Cardinality(t \cap new) <= 1
<1>1. EncodedAtMost(opts.enc, new, 1) = AtMost(new, 1)
      /\ EncodedAtLeast(opts.enc, new, 1) = AtLeast(new, 1)
  BY DEF EncodedAtMost, EncodedAtLeast
<1>2. \A k \in AddedFor(new) : k = AtMost(new, 1) \/ k = AtLeast(new, 1)
  BY <1>1 DEF AddedFor
<1>3. AtMost(new, 1) \in AddedFor(new)
  BY <1>1 DEF AddedFor
<1>4. \A k \in AddedFor(new) : k.vs = new /\ k.rhs = 1
  BY <1>2 DEF AtMost, AtLeast
<1>5. \A t : Meets(t, AtMost(new, 1)) <=> Cardinality(t \cap new) <= 1
  BY DEF Meets, AtMost
<1>6. \A t : Meets(t, AtLeast(new, 1)) <=> Cardinality(t \cap new) >= 1
  BY DEF Meets, AtLeast
<1>7. \A t : Cardinality(t \cap new) = 1 => Meets(t, AtMost(new, 1)) /\ Meets(t, AtLeast(new, 1))
  BY <1>5, <1>6
<1>8. \A t : Cardinality(t \cap new) = 1 => \A k \in AddedFor(new) : Meets(t, k)
  BY <1>2, <1>7
<1> QED
  BY <1>3, <1>4, <1>5, <1>8

(* Two facts of arithmetic the solver misses among larger ones. *)
LEMMA OneIsAtMostOne == \A n : n = 1 => n <= 1
  OBVIOUS

(* The assignment of the blocking variables that follows a core: the one   *)
(* before it, and the new variable of one clause that it falsified.        *)
LEMMA Msu1Witness ==
    ASSUME Ready, pc = "search", opts.alg = 1, NEW C \in Cores,
           clset' = (clset \ C) \cup {Blocked(c) : c \in C},
           cardset' = cardset \cup AddedFor(NewVars(C)),
           UNCHANGED <<blkclset, coreset, file>>,
           NEW asg \in HardModels, NEW t \in SUBSET blockvs, MeetsAll(t),
           \A c \in clset : Cardinality(t \cap c.bvs) <= 1
    PROVE  \E u \in SUBSET blockvs' :
             /\ \A k \in cardset' : Meets(u, k)
             /\ \A c \in clset' : Cardinality(u \cap c.bvs) <= 1
             /\ LET F == {c \in INITs : ~At([true |-> asg, bvs |-> t], c)}
                    G == {c \in INITs' : ~At([true |-> asg, bvs |-> u], c)}
                IN  Cardinality(F) \in Nat /\ Cardinality(G) = Cardinality(F) - 1
<1> DEFINE F == {c \in INITs : ~At([true |-> asg, bvs |-> t], c)}
<1>1.      /\ blockvs' = blockvs \cup NewVars(C)
           /\ blockvs \cap NewVars(C) = {}
           /\ \A c \in clset : c.bvs \subseteq blockvs
           /\ \A c \in C : /\ Blocked(c).lits = c.lits /\ IsSoft(Blocked(c))
                           /\ Blocked(c).bvs = c.bvs \cup {NewVar(c)}
           /\ \A c, d \in C : NewVar(c) = NewVar(d) => c = d
           /\ \A c, d \in clset : c.lits = d.lits => c = d
  BY Msu1Block
<1>2. C \subseteq INITs /\ C \subseteq clset /\ \A c \in C : NewVar(c) \in NewVars(C)
  BY CoreFacts DEF NewVars
<1>3. PICK c0 \in C : c0 \in INITs /\ ~At([true |-> asg, bvs |-> t], c0)
  BY Msu1Point
<1> DEFINE x == NewVar(c0)
           u == t \cup {x}
           G == {c \in INITs' : ~At([true |-> asg, bvs |-> u], c)}
<1>4. x \in NewVars(C) /\ x \notin blockvs /\ \A c \in C : NewVar(c) = x => c = c0
  BY <1>1, <1>2, <1>3
<1> HIDE DEF x
<1>5. u \in SUBSET blockvs'
  BY <1>1, <1>4
<1>6. \A s : s \subseteq blockvs => u \cap s = t \cap s
  BY <1>4
<1>7. u \cap NewVars(C) = {x}
  BY <1>1, <1>4
<1>8. ASSUME NEW k \in cardset' PROVE Meets(u, k)
  <2>1. CASE k \in cardset
    <3>1. k.vs \subseteq blockvs /\ Meets(t, k)
      BY <2>1 DEF Ready, TypeOK, MeetsAll
    <3>2. u \cap k.vs = t \cap k.vs
      BY <3>1, <1>6
    <3> QED
      BY <3>1, <3>2 DEF Meets
  <2>2. CASE k \in AddedFor(NewVars(C))
    <3>1. Cardinality(u \cap NewVars(C)) = 1
      BY <1>7, FS_Singleton
    <3> QED
      BY <2>2, <3>1, AddedFacts
  <2> QED
    BY <2>1, <2>2
<1>9. ASSUME NEW c \in C, c # c0 PROVE u \cap Blocked(c).bvs = t \cap c.bvs
  <2>1. NewVar(c) # x /\ NewVar(c) \notin t /\ x \notin c.bvs
    BY <1>1, <1>2, <1>4, <1>9
  <2> QED
    BY <2>1, <1>1
<1>10. u \cap Blocked(c0).bvs = {x}
  <2>1. t \cap c0.bvs = {}
    BY <1>3 DEF At
  <2> QED
    BY <2>1, <1>1, <1>2, <1>3, <1>4 DEF x
<1>11. ASSUME NEW c \in clset' PROVE Cardinality(u \cap c.bvs) <= 1
  <2>1. CASE c \in clset
    <3>1. u \cap c.bvs = t \cap c.bvs
      BY <2>1, <1>1, <1>6
    <3> QED
      BY <2>1, <3>1
  <2>2. CASE c \notin clset
    <3>1. PICK d \in C : c = Blocked(d)
      BY <2>2
    <3>2. CASE d = c0
      <4>1. Cardinality(u \cap c.bvs) = 1
        BY <3>1, <3>2, <1>10, FS_Singleton
      <4> QED
        BY <4>1, OneIsAtMostOne, Zenon
    <3>3. CASE d # c0
      <4>1. u \cap c.bvs = t \cap d.bvs /\ d \in clset
        BY <3>1, <3>3, <1>2, <1>9
      <4> QED
        BY <4>1
    <3> QED
      BY <3>2, <3>3
  <2> QED
    BY <2>1, <2>2
<1> DEFINE b(c) == IF c \in C THEN Blocked(c) ELSE c
<1>12. \A c \in clset : b(c).lits = c.lits /\ b(c) \in clset' /\ (c \in INITs => b(c) \in INITs')
  BY <1>1 DEF INITs
<1>13. ASSUME NEW d \in INITs' PROVE \E c \in INITs : d = b(c)
  BY <1>2 DEF INITs
<1>14. ASSUME NEW c \in INITs
       PROVE  At([true |-> asg, bvs |-> u], b(c)) <=> (At([true |-> asg, bvs |-> t], c) \/ c = c0)
  <2>0. c \in clset
    BY DEF INITs
  <2>1. CASE c = c0
    <3>1. b(c).bvs \cap u # {}
      BY <2>1, <1>3, <1>10
    <3> QED
      BY <2>1, <3>1, AtPoint
  <2>2. CASE c # c0
    <3>1. b(c).bvs \cap u = c.bvs \cap t
      <4>1. CASE c \in C
        BY <4>1, <2>2, <1>9
      <4>2. CASE c \notin C
        BY <4>2, <2>0, <1>1, <1>6
      <4> QED
        BY <4>1, <4>2
    <3>2. b(c).lits = c.lits
      BY <2>0, <1>12
    <3> HIDE DEF b, u
    <3> QED
      BY <2>2, <3>1, <3>2, AtPoint
  <2> QED
    BY <2>1, <2>2
<1> HIDE DEF b, u
<1>15. G = {b(c) : c \in F \ {c0}}
  <2>1. ASSUME NEW d \in G PROVE d \in {b(c) : c \in F \ {c0}}
    <3>1. d \in INITs' /\ ~At([true |-> asg, bvs |-> u], d)
      OBVIOUS
    <3>2. PICK c \in INITs : d = b(c)
      BY <3>1, <1>13
    <3>3. c \in F /\ c # c0
      BY <3>1, <3>2, <1>14
    <3> QED
      BY <3>2, <3>3
  <2>2. ASSUME NEW c \in F \ {c0} PROVE b(c) \in G
    <3>1. c \in INITs /\ ~At([true |-> asg, bvs |-> t], c) /\ c # c0 /\ c \in clset
      BY DEF INITs
    <3>2. b(c) \in INITs' /\ ~At([true |-> asg, bvs |-> u], b(c))
      BY <3>1, <1>12, <1>14
    <3> QED
      BY <3>2
  <2> QED
    BY <2>1, <2>2
<1>16. IsFiniteSet(F)
  <2>1. F \in SUBSET Held /\ IsFiniteSet(Held)
    BY HeldFacts DEF INITs
  <2> QED
    BY <2>1, FS_Subset
<1>17. c0 \in F /\ F \subseteq clset
  BY <1>3 DEF INITs
<1>18. Cardinality(G) = Cardinality(F \ {c0}) /\ IsFiniteSet(F \ {c0})
  <2> DEFINE D == F \ {c0}
             f == [c \in D |-> b(c)]
             I == {b(c) : c \in D}
  <2>1. \A c, d \in D : f[c] = f[d] => c = d
    BY <1>1, <1>12, <1>17
  <2>2. f \in Bijection(D, I)
    <3>1. f \in [D -> I] /\ \A y \in I : \E c \in D : f[c] = y
      OBVIOUS
    <3>2. DOMAIN f = D
      OBVIOUS
    <3> HIDE DEF f, I, D
    <3> QED
      BY <2>1, <3>1, <3>2 DEF Bijection, Injection, Surjection, IsInjective
  <2>3. IsFiniteSet(D)
    BY <1>16, FS_Subset
  <2> HIDE DEF f, I, D, F, G
  <2>4. Cardinality(I) = Cardinality(D)
    BY <2>2, <2>3, FS_Bijection DEF ExistsBijection
  <2>5. G = I /\ D = F \ {c0}
    BY <1>15 DEF I, D
  <2> QED
    BY <2>3, <2>4, <2>5
<1>19. Cardinality(F) \in Nat /\ Cardinality(F \ {c0}) = Cardinality(F) - 1
  <2> HIDE DEF F
  <2> QED
    BY <1>16, <1>17, FS_RemoveElement, FS_CardinalityType
<1>20. Cardinality(F) \in Nat /\ Cardinality(G) = Cardinality(F) - 1
  BY <1>18, <1>19
<1> QED
  BY <1>5, <1>8, <1>11, <1>20

(* A core of msu1 keeps the invariant. *)
LEMMA Msu1UnsatKeeps ==
    ASSUME IInv, Msu1Unsat
    PROVE  IInv'
<1> USE DEF Msu1Unsat
<1>1. pc = "search" /\ opts.alg = 1 /\ UNCHANGED input /\ file' = file /\ opts' = opts
      /\ UNCHANGED <<blkclset, coreset, nscls, nbvlb, minbs, lbv>> /\ nunsat' = nunsat + 1
      /\ nunsat < MaxCores
  BY DEF input
<1>2. Ready
  BY <1>1 DEF IInv, Ready, Running, TypeOK
<1>3. /\ parse' = parse /\ Optimum' = Optimum /\ Feasible' = Feasible /\ HardModels' = HardModels
      /\ \A true : Missed(true)' = Missed(true)
  BY <1>1, SameOptimum
<1>4. /\ {nscls, iternum, nunsat, nbvlb, minbs, lbv} \subseteq Nat /\ nbvlb = 0
      /\ coreset = {} /\ blkclset = {}
      /\ nscls = parse.nsoft /\ minbs = nscls /\ iternum = nunsat + 1
      /\ result.kind = "none"
  BY <1>1 DEF IInv, TypeOK, ShapeInv, BoundInv, Running, Msu1Inv
<1>5. \A t \in SUBSET blockvs : MeetsAll(t) => Cardinality(t) <= nunsat
  BY <1>1 DEF IInv, Msu1Inv
<1> DEFINE F(true, t) == {c \in INITs : ~At([true |-> true, bvs |-> t], c)}
<1>6. \A true \in HardModels : \E t \in SUBSET blockvs :
        /\ MeetsAll(t)
        /\ \A c \in clset : Cardinality(t \cap c.bvs) <= 1
        /\ Cardinality(F(true, t)) + nunsat = Cardinality(Missed(true))
  BY <1>1 DEF IInv, Msu1Inv
<1> HIDE DEF F
<1>7. /\ Feasible <=> HardModels # {}
      /\ Feasible => Optimum \in Nat /\ Optimum <= minbs
                     /\ \E true \in HardModels : Optimum = Cardinality(Missed(true))
      /\ MaxCores \in Nat /\ Infinity \in Nat /\ MaxCores < Infinity
  BY <1>2, <1>4, OptimumFacts, CountsAssumption DEF Ready, IInv, BoundInv
<1>8. nunsat' <= Infinity /\ nbvlb' <= Infinity /\ nunsat' \in Nat
  BY <1>1, <1>4, <1>7
<1>9. PICK C \in Cores :
       LET new == NewVars(C)
           extra == IF opts.q THEN {EncodedAtLeast(opts.enc, new, 1)} ELSE {}
       IN  IF C = {}
             THEN exit_err /\ UNCHANGED <<clset, cardset, iternum>>
             ELSE /\ clset' = (clset \ C) \cup {Blocked(c) : c \in C}
                  /\ cardset' = cardset \cup {EncodedAtMost(opts.enc, new, 1)} \cup extra
                  /\ iternum' = iternum + 1
                  /\ Continue
  OBVIOUS
<1> HIDE DEF Msu1Unsat
<1>10. CASE C = {}
  <2>1. pc' = "end" /\ result' = [kind |-> "error", lb |-> 0, ub |-> 0]
        /\ UNCHANGED <<clset, cardset, iternum>>
    BY <1>9, <1>10 DEF exit_err, Report
  <2>2. HardModels = {}
    <3> SUFFICES ASSUME NEW true \in HardModels PROVE FALSE
      OBVIOUS
    <3>1. PICK t \in SUBSET blockvs :
            MeetsAll(t) /\ \A c \in clset : Cardinality(t \cap c.bvs) <= 1
      BY <1>6
    <3> QED
      BY <3>1, <1>1, <1>2, <1>10, Msu1Point
  <2>3. ~Feasible
    BY <2>2, <1>7
  <2>4. TypeOK'
    <3>1. blockvs' = blockvs
      BY <1>1, <2>1 DEF blockvs
    <3> QED
      BY <1>1, <1>3, <1>4, <1>8, <2>1, <3>1 DEF IInv, TypeOK
  <2>5. BoundInv'
    BY <1>1, <1>3, <1>4, <1>8, <2>3 DEF BoundInv
  <2>6. ReportInv'
    BY <1>1, <1>3, <2>1, <2>3 DEF ReportInv, ErrorsExplained
  <2> QED
    BY <2>1, <2>4, <2>5, <2>6, EndStep
<1>11. CASE C # {}
  <2>1. /\ clset' = (clset \ C) \cup {Blocked(c) : c \in C}
        /\ cardset' = cardset \cup AddedFor(NewVars(C))
        /\ iternum' = iternum + 1
        /\ pc' = pc /\ result' = result
    BY <1>9, <1>11 DEF Continue, AddedFor
  <2>2. UNCHANGED <<blkclset, coreset, file>>
    BY <1>1
  <2>3. /\ KeptSet(Held', parse.clauses)
        /\ clset' \cup blkclset' \subseteq Work
        /\ blockvs' = blockvs \cup NewVars(C)
        /\ blockvs \cap NewVars(C) = {}
    BY <1>1, <1>2, <2>1, <2>2, Msu1Block
  <2>4. \A k \in cardset : k.vs \subseteq blockvs /\ k.rhs \in Nat
    BY DEF IInv, TypeOK
  <2>5. TypeOK'
    <3>1. \A c \in clset' \cup blkclset' : c.lits \subseteq Int /\ c.type \in Int
      BY <2>3, WorkFields
    <3>2. \A k \in cardset' : k.vs \subseteq blockvs' /\ k.rhs \in Nat
      <4> TAKE k \in cardset'
      <4>1. CASE k \in cardset
        BY <4>1, <2>3, <2>4
      <4>2. CASE k \in AddedFor(NewVars(C))
        <5>1. k.vs = NewVars(C) /\ k.rhs = 1
          BY <4>2, AddedFacts
        <5> QED
          BY <5>1, <2>3
      <4> QED
        BY <4>1, <4>2, <2>1
    <3>3. {nscls', iternum', nunsat', nbvlb', minbs', lbv'} \subseteq Nat
      BY <1>1, <1>4, <2>1
    <3> QED
      BY <1>1, <1>3, <1>4, <2>1, <3>1, <3>2, <3>3 DEF IInv, TypeOK
  <2>6. ASSUME NEW t \in SUBSET blockvs', \A k \in cardset' : Meets(t, k)
        PROVE  Cardinality(t) <= nunsat + 1
    <3> DEFINE s == t \cap blockvs
               n == t \cap NewVars(C)
    <3>1. MeetsAll(s)
      <4> SUFFICES ASSUME NEW k \in cardset PROVE Meets(s, k)
        BY DEF MeetsAll
      <4>1. s \cap k.vs = t \cap k.vs
        BY <2>4
      <4>2. Meets(t, k)
        BY <2>1, <2>6
      <4> QED
        BY <4>1, <4>2 DEF Meets
    <3>2. Cardinality(s) <= nunsat
      BY <3>1, <1>5
    <3>3. Cardinality(n) <= 1
      BY <2>1, <2>6, AddedFacts
    <3>4. t = s \cup n /\ s \cap n = {}
      BY <2>3
    <3>5. IsFiniteSet(s)
      BY <1>2, HeldFacts, FS_Subset
    <3>6. IsFiniteSet(n)
      <4>1. IsFiniteSet(C)
        BY <1>2, CoreFacts, HeldFacts, FS_Subset
      <4> DEFINE f == [c \in C |-> NewVar(c)]
      <4>2. f \in Surjection(C, NewVars(C))
        BY DEF Surjection, NewVars
      <4>3. IsFiniteSet(NewVars(C))
        BY <4>1, <4>2, FS_Surjection
      <4> QED
        BY <4>3, FS_Subset
    <3> HIDE DEF s, n
    <3>7. Cardinality(t) = Cardinality(s) + Cardinality(n)
          /\ Cardinality(s) \in Nat /\ Cardinality(n) \in Nat
      <4>1. Cardinality(s \cup n) = Cardinality(s) + Cardinality(n) - Cardinality(s \cap n)
        BY <3>5, <3>6, FS_Union
      <4>2. Cardinality(s \cap n) = 0
        BY <3>4, FS_EmptySet
      <4>3. Cardinality(s) \in Nat /\ Cardinality(n) \in Nat
        BY <3>5, <3>6, FS_CardinalityType
      <4> QED
        BY <4>1, <4>2, <4>3, <3>4
    <3> QED
      BY <3>2, <3>3, <3>7, <1>4
  <2>7. ASSUME NEW true \in HardModels
        PROVE  /\ nunsat + 1 <= Cardinality(Missed(true))
               /\ \E t \in SUBSET blockvs' :
                    /\ \A k \in cardset' : Meets(t, k)
                    /\ \A c \in clset' : Cardinality(t \cap c.bvs) <= 1
                    /\ Cardinality({c \in INITs' : ~At([true |-> true, bvs |-> t], c)}) + (nunsat + 1)
                         = Cardinality(Missed(true))
    <3>1. PICK t \in SUBSET blockvs :
            /\ MeetsAll(t)
            /\ \A c \in clset : Cardinality(t \cap c.bvs) <= 1
            /\ Cardinality(F(true, t)) + nunsat = Cardinality(Missed(true))
      BY <1>6
    <3>2. PICK u \in SUBSET blockvs' :
             /\ \A k \in cardset' : Meets(u, k)
             /\ \A c \in clset' : Cardinality(u \cap c.bvs) <= 1
             /\ LET G == {c \in INITs' : ~At([true |-> true, bvs |-> u], c)}
                IN  Cardinality(F(true, t)) \in Nat /\ Cardinality(G) = Cardinality(F(true, t)) - 1
      <4> USE DEF F
      <4> QED
        BY <3>1, <1>1, <1>2, <2>1, <2>2, Msu1Witness
    <3> DEFINE G == {c \in INITs' : ~At([true |-> true, bvs |-> u], c)}
    <3>3. Cardinality(F(true, t)) \in Nat /\ Cardinality(G) = Cardinality(F(true, t)) - 1
      BY <3>2
    <3>4. Cardinality(G) \in Nat
      <4>1. IsFiniteSet(F(true, t))
        <5>1. F(true, t) \in SUBSET Held /\ IsFiniteSet(Held)
          BY <1>2, HeldFacts DEF INITs, F
        <5> QED
          BY <5>1, FS_Subset
      <4>2. F(true, t) # {}
        <5>1. \E c \in C : c \in INITs /\ ~At([true |-> true, bvs |-> t], c)
          BY <3>1, <1>1, <1>2, Msu1Point
        <5> QED
          BY <5>1 DEF F
      <4>3. Cardinality(F(true, t)) # 0
        BY <4>1, <4>2, FS_EmptySet
      <4> HIDE DEF G
      <4> QED
        BY <3>3, <4>3
    <3> HIDE DEF G
    <3>5. Cardinality(G) + (nunsat + 1) = Cardinality(Missed(true))
          /\ nunsat + 1 <= Cardinality(Missed(true))
      BY <3>1, <3>3, <3>4, <1>4
    <3> QED
      BY <3>2, <3>5 DEF G
  <2>8. Feasible => nunsat' <= Optimum
    BY <1>1, <1>7, <2>7
  <2>9. BoundInv'
    BY <1>1, <1>3, <1>4, <1>7, <1>8, <2>1, <2>8 DEF BoundInv
  <2>10. KeptInv'
    BY <2>3, <1>3 DEF KeptInv
  <2>11. ShapeInv'
    BY <1>1, <1>4, <2>1 DEF ShapeInv, IInv, Running
  <2>12. Msu1Inv'
    <3>1. iternum' = nunsat' + 1 /\ minbs' = nscls'
      BY <1>1, <1>4, <2>1
    <3>2. \A t \in SUBSET blockvs' : (\A k \in cardset' : Meets(t, k)) => Cardinality(t) <= nunsat'
      BY <2>6, <1>1
    <3>3. \A true \in HardModels' : \E t \in SUBSET blockvs' :
           /\ \A k \in cardset' : Meets(t, k)
           /\ \A c \in clset' : Cardinality(t \cap c.bvs) <= 1
           /\ Cardinality({c \in INITs' : ~At([true |-> true, bvs |-> t], c)}) + nunsat'
                = Cardinality(Missed(true)')
      BY <2>7, <1>1, <1>3
    <3> QED
      BY <3>1, <3>2, <3>3 DEF Msu1Inv, MeetsAll
  <2>13. ReportInv'
    BY <1>4, <2>1 DEF ReportInv, ErrorsExplained
  <2>14. StartInv' /\ Msu2Inv' /\ CoresInv' /\ Msu3Inv'
    BY <1>1, <2>1 DEF StartInv, Msu2Inv, CoresInv, Msu3Inv
  <2> QED
    BY <2>5, <2>9, <2>10, <2>11, <2>12, <2>13, <2>14 DEF IInv
<1> QED
  BY <1>10, <1>11

(* A model of msu1 keeps the invariant: it uses as many blocking variables *)
(* as there were cores, and that is the optimum.                           *)
LEMMA Msu1SatKeeps ==
    ASSUME IInv, Msu1Sat
    PROVE  IInv'
<1> USE DEF Msu1Sat
<1>1. pc = "search" /\ opts.alg = 1 /\ UNCHANGED input /\ file' = file /\ opts' = opts
      /\ UNCHANGED <<clset, blkclset, coreset, cardset, nscls, iternum, nunsat, nbvlb, lbv>>
  BY DEF input, work
<1>2. Ready
  BY <1>1 DEF IInv, Ready, Running, TypeOK
<1>3. parse' = parse /\ Optimum' = Optimum /\ Feasible' = Feasible
  BY <1>1, SameOptimum
<1>4. /\ {nscls, iternum, nunsat, nbvlb, minbs, lbv} \subseteq Nat /\ nbvlb = 0
      /\ coreset = {} /\ blkclset = {}
      /\ nscls = parse.nsoft /\ minbs = nscls /\ iternum = nunsat + 1
      /\ result.kind = "none"
  BY <1>1 DEF IInv, TypeOK, ShapeInv, BoundInv, Running, Msu1Inv
<1>5. \A t \in SUBSET blockvs : MeetsAll(t) => Cardinality(t) <= nunsat
  BY <1>1 DEF IInv, Msu1Inv
<1>6. PICK p \in AllPoints :
       LET used == Cardinality(p.bvs)
       IN  \/ iternum = 1 /\ Computed(nscls) /\ minbs' = minbs
           \/ iternum > 1 /\ used >= minbs /\ exit_err /\ minbs' = minbs
           \/ iternum > 1 /\ used < minbs /\ Computed(nscls - used) /\ minbs' = used
  OBVIOUS
<1> HIDE DEF Msu1Sat
<1>7. /\ Cardinality(p.bvs) \in Nat
      /\ Feasible /\ Optimum \in Nat
      /\ Optimum <= Cardinality(p.bvs)
      /\ p.bvs \in SUBSET blockvs /\ MeetsAll(p.bvs)
  <2>1. Held = clset \cup blkclset
    BY <1>1, <1>2, HeldFacts
  <2>2. p.true \in HardModels
    BY <1>2, <2>1, ModelCost
  <2>3. Cardinality(Missed(p.true)) \in Nat
    BY <1>2, <2>2, OptimumFacts DEF Ready
  <2> QED
    BY <1>2, <2>1, <2>3, ModelCost
<1>8. Cardinality(p.bvs) <= nunsat
  BY <1>5, <1>7
<1>9. nunsat <= Optimum /\ Optimum <= minbs
  BY <1>4, <1>7 DEF IInv, BoundInv
<1> DEFINE used == Cardinality(p.bvs)
<1>10. used = Optimum /\ nunsat = Optimum /\ used \in Nat
  BY <1>4, <1>7, <1>8, <1>9
<1>11. \/ iternum = 1 /\ Computed(nscls) /\ minbs' = minbs
       \/ iternum > 1 /\ used >= minbs /\ exit_err /\ minbs' = minbs
       \/ iternum > 1 /\ used < minbs /\ Computed(nscls - used) /\ minbs' = used
  BY <1>6
<1> HIDE DEF used
<1>12. /\ pc' = "end"
       /\ minbs' \in Nat /\ Optimum <= minbs' /\ minbs' <= nscls
       /\ \/ result' = [kind |-> "answer", lb |-> nscls - Optimum, ub |-> nscls - Optimum]
          \/ result' = [kind |-> "error", lb |-> 0, ub |-> 0] /\ Optimum = nscls
  <2>1. CASE iternum = 1 /\ Computed(nscls) /\ minbs' = minbs
    <3>1. Optimum = 0 /\ nscls - Optimum = nscls
      BY <2>1, <1>4, <1>10
    <3> QED
      BY <2>1, <3>1, <1>4, <1>9 DEF Computed, Report
  <2>2. CASE iternum > 1 /\ used >= minbs /\ exit_err /\ minbs' = minbs
    BY <2>2, <1>4, <1>7, <1>9, <1>10 DEF exit_err, Report
  <2>3. CASE iternum > 1 /\ used < minbs /\ Computed(nscls - used) /\ minbs' = used
    BY <2>3, <1>4, <1>7, <1>9, <1>10 DEF Computed, Report
  <2> QED
    BY <1>11, <2>1, <2>2, <2>3
<1>13. TypeOK'
  <2>1. blockvs' = blockvs
    BY <1>1 DEF blockvs
  <2> QED
    BY <1>1, <1>3, <1>4, <1>12, <2>1 DEF IInv, TypeOK
<1>14. BoundInv'
  BY <1>1, <1>3, <1>4, <1>7, <1>9, <1>12 DEF BoundInv
<1>15. ReportInv'
  <2>1. CASE result' = [kind |-> "answer", lb |-> nscls - Optimum, ub |-> nscls - Optimum]
    BY <2>1, <1>1, <1>3, <1>4 DEF ReportInv, ErrorsExplained
  <2>2. CASE result' = [kind |-> "error", lb |-> 0, ub |-> 0] /\ Optimum = nscls
    BY <2>2, <1>1, <1>3 DEF ReportInv, ErrorsExplained
  <2> QED
    BY <1>12, <2>1, <2>2
<1> QED
  BY <1>12, <1>13, <1>14, <1>15, EndStep

(* Running out of time keeps the invariant. *)
LEMMA TimeoutKeeps ==
    ASSUME IInv, Timeout
    PROVE  IInv'
<1> USE DEF Timeout
<1>1. UNCHANGED input /\ file' = file /\ opts' = opts
      /\ UNCHANGED <<clset, blkclset, coreset, cardset, nscls, iternum, nunsat, nbvlb, minbs, lbv>>
  BY DEF input, work, counts
<1>2. Ready
  BY DEF IInv, Ready, Running, TypeOK
<1>3. parse' = parse /\ Optimum' = Optimum /\ Feasible' = Feasible
  BY <1>1, SameOptimum
<1>4. {nscls, iternum, nunsat, nbvlb, minbs, lbv} \subseteq Nat /\ iternum > 0
  BY <1>2 DEF Ready, TypeOK, ShapeInv
<1>5. Feasible => Optimum \in Nat /\ nunsat <= Optimum /\ nbvlb <= Optimum /\ Optimum <= minbs
                  /\ minbs <= nscls
  BY <1>2, <1>4, OptimumFacts DEF Ready, IInv, BoundInv
<1>6. pc' = "end" /\ result'.kind \in {"bounds", "quit"}
  BY DEF exit_quit, Report
<1>7. result'.kind = "bounds" /\ opts.alg # 1 /\ Feasible =>
        result'.lb <= nscls - Optimum /\ nscls - Optimum <= result'.ub
  <2>1. CASE pc = "cores"
    BY <2>1 DEF Report, exit_quit
  <2>2. CASE pc = "search" /\ opts.alg = 2 /\ exit_quit(nscls - minbs, nscls - nunsat)
    BY <2>2, <1>4, <1>5 DEF Report, exit_quit
  <2>3. CASE pc = "search" /\ opts.alg = 3 /\ exit_quit(0, nscls - nbvlb)
    BY <2>3, <1>4, <1>5 DEF Report, exit_quit
  <2> QED
    BY <2>1, <2>2, <2>3
<1> HIDE DEF Timeout
<1>8. TypeOK'
  <2>1. blockvs' = blockvs
    BY <1>1 DEF blockvs
  <2> QED
    BY <1>1, <1>3, <1>6, <2>1 DEF IInv, TypeOK
<1>9. BoundInv'
  BY <1>1, <1>3 DEF IInv, BoundInv
<1>10. ReportInv'
  BY <1>1, <1>3, <1>4, <1>6, <1>7 DEF ReportInv, BoundsEnclose, ErrorsExplained
<1> QED
  BY <1>6, <1>8, <1>9, <1>10, EndStep

(* So does a step that changes nothing. *)
LEMMA StutterKeeps ==
    ASSUME IInv, UNCHANGED vars
    PROVE  IInv'
<1>1. UNCHANGED input /\ file' = file /\ opts' = opts /\ pc' = pc /\ result' = result
      /\ clset' = clset /\ blkclset' = blkclset /\ coreset' = coreset /\ cardset' = cardset
      /\ nscls' = nscls /\ iternum' = iternum /\ nunsat' = nunsat /\ nbvlb' = nbvlb
      /\ minbs' = minbs /\ lbv' = lbv
  BY DEF vars, input
<1>2. /\ parse' = parse /\ Optimum' = Optimum /\ Feasible' = Feasible /\ HardModels' = HardModels
      /\ \A true : Missed(true)' = Missed(true)
  BY <1>1, SameOptimum
<1>3. blockvs' = blockvs /\ INITs' = INITs /\ Held' = Held
  BY <1>1 DEF blockvs, INITs, Held
<1>4. \A true : Used(true)' = Used(true)
  BY <1>1, <1>2 DEF Used
<1>5. TypeOK'
  BY <1>1, <1>2, <1>3 DEF IInv, TypeOK
<1>6. KeptInv'
  BY <1>1, <1>2, <1>3 DEF IInv, KeptInv, Running
<1>7. ShapeInv' /\ StartInv'
  BY <1>1 DEF IInv, ShapeInv, StartInv, Running
<1>8. Msu1Inv'
  BY <1>1, <1>2, <1>3 DEF IInv, Msu1Inv, MeetsAll
<1>9. Msu2Inv'
  BY <1>1, <1>2, <1>4 DEF IInv, Msu2Inv, MeetsAll
<1>10. CoresInv' /\ Msu3Inv'
  BY <1>1, <1>2, <1>3 DEF IInv, CoresInv, Msu3Inv, Bounded
<1>11. BoundInv'
  BY <1>1, <1>2 DEF IInv, BoundInv
<1>12. ReportInv'
  <2>1. result.kind = "bounds" /\ opts.alg # 1 => BoundsEnclose'
    <3>1. BoundsEnclose' = BoundsEnclose
      <4>1. Tidy' = Tidy
        BY <1>1 DEF Tidy, Clauses, Markers, Lines, SoftLines, HardLines, LitsAt, TypeAt, Before, Clash
      <4> QED
        BY <1>1, <1>2, <4>1 DEF BoundsEnclose
    <3> QED
      BY <3>1 DEF IInv, ReportInv
  <2> QED
    BY <1>1, <1>2, <2>1 DEF IInv, ReportInv, ErrorsExplained
<1> QED
  BY <1>5, <1>6, <1>7, <1>8, <1>9, <1>10, <1>11, <1>12 DEF IInv

(* The invariant holds at the start. *)
LEMMA InitHolds == Init => IInv
<1> SUFFICES ASSUME Init PROVE IInv
  OBVIOUS
<1> USE DEF Init
<1>1. TypeOK
  BY DEF TypeOK
<1>2. Feasible => Optimum \in Nat
  BY OptimumFacts
<1>3. BoundInv
  BY <1>2, CountsAssumption DEF BoundInv
<1>4. ReportInv
  BY DEF ReportInv, ErrorsExplained
<1>5. KeptInv /\ ShapeInv /\ StartInv /\ Msu1Inv /\ Msu2Inv /\ CoresInv /\ Msu3Inv
  BY DEF KeptInv, ShapeInv, StartInv, Msu1Inv, Msu2Inv, CoresInv, Msu3Inv, Running
<1> QED
  BY <1>1, <1>3, <1>4, <1>5 DEF IInv

(* Before the first core the initial clauses are those read, and an        *)
(* assignment leaves as many of them unsatisfied as it falsifies.          *)
LEMMA ReadClauses ==
    ASSUME file \in Files
    PROVE  /\ KeptSet(parse.clauses, parse.clauses)
           /\ Fresh(parse.clauses)
           /\ \A true \in HardModels :
                Cardinality({c \in {d \in parse.clauses : IsSoft(d)} :
                               ~At([true |-> true, bvs |-> {}], c)})
                  = Cardinality(Missed(true))
<1> DEFINE R == parse.clauses
<1>1. /\ R \subseteq Work
      /\ \A c \in R : c.bvs = {}
      /\ \A c, d \in R : c.lits = d.lits => c = d
      /\ IsFiniteSet(R)
  BY ReadFacts
<1>2. SoftLits = {c.lits : c \in {d \in R : IsSoft(d)}}
  BY DEF SoftLits
<1> HIDE DEF R
<1>3. \A c \in R : Plain(c) = c
  BY <1>1, PlainSame
<1>4. \A c \in R : Cardinality(c.bvs) \in Nat /\ c.bvs = VarsOf(c.lits, Cardinality(c.bvs))
  <2> TAKE c \in R
  <2>1. Cardinality(c.bvs) = 0
    BY <1>1, FS_EmptySet
  <2>2. VarsOf(c.lits, 0) = {}
    BY FirstVar
  <2> QED
    BY <2>1, <2>2, <1>1
<1>5. KeptSet(R, R)
  BY <1>1, <1>3, <1>4 DEF KeptSet
<1>6. ASSUME NEW true \in HardModels
      PROVE  Cardinality({c \in {d \in R : IsSoft(d)} : ~At([true |-> true, bvs |-> {}], c)})
               = Cardinality(Missed(true))
  <2> DEFINE D == {c \in {d \in R : IsSoft(d)} : ~At([true |-> true, bvs |-> {}], c)}
             f == [c \in D |-> c.lits]
  <2>1. \A c \in R : At([true |-> true, bvs |-> {}], c) <=> Satisfies(true, c.lits)
    BY AtPoint
  <2>2. Missed(true) = {c.lits : c \in D}
    BY <1>2, <2>1 DEF Missed, Falsified
  <2>3. D \subseteq R
    OBVIOUS
  <2>4. IsFiniteSet(D)
    BY <1>1, <2>3, FS_Subset
  <2> HIDE DEF D
  <2>5. f \in Bijection(D, Missed(true))
    BY <1>1, <2>2, <2>3 DEF Bijection, Injection, Surjection, IsInjective
  <2> HIDE DEF f
  <2>6. Cardinality(D) = Cardinality(Missed(true))
    BY <2>4, <2>5, FS_Bijection DEF ExistsBijection
  <2> QED
    BY <2>6 DEF D
<1> QED
  BY <1>1, <1>5, <1>6 DEF R, Fresh

(* The second of them. *)
LEMMA NothingLess == \A m, n : m = 0 /\ n = 0 => m >= n
  OBVIOUS

(* Reading the file establishes the invariant of each algorithm. *)
LEMMA StartKeeps ==
    ASSUME IInv, Start
    PROVE  IInv'
<1> USE DEF Start
<1>1. pc = "start" /\ UNCHANGED input /\ file' = file /\ opts' = opts
      /\ UNCHANGED <<blkclset, coreset, cardset, nunsat, nbvlb, lbv>>
  BY DEF input
<1>2. /\ clset = {} /\ blkclset = {} /\ coreset = {} /\ cardset = {}
      /\ iternum = 0 /\ nunsat = 0 /\ nbvlb = 0 /\ minbs = 0 /\ nscls = 0 /\ lbv = 0
  BY <1>1 DEF IInv, StartInv
<1>3. /\ parse' = parse /\ Optimum' = Optimum /\ Feasible' = Feasible /\ HardModels' = HardModels
      /\ \A true : Missed(true)' = Missed(true)
  BY <1>1, SameOptimum
<1>4. file \in Files /\ opts \in Options /\ result.kind = "none"
  BY <1>1 DEF IInv, TypeOK
<1>5. /\ Feasible => Optimum \in Nat /\ Optimum <= parse.nsoft
      /\ parse.nsoft \in Nat /\ Infinity \in Nat
      /\ \A true \in HardModels : IsFiniteSet(Missed(true))
  BY <1>4, OptimumFacts, CountsAssumption
<1>6. CASE opts.enc \notin Allowed(opts.alg) \/ opts.alg = 4 \/ parse.failed
  <2>1. pc' = "end" /\ result' = [kind |-> "error", lb |-> 0, ub |-> 0]
        /\ UNCHANGED <<clset, nscls, iternum, minbs>>
    BY <1>6 DEF exit_err, Report
  <2>2. TypeOK'
    BY <1>1, <1>2, <1>3, <1>4, <2>1 DEF IInv, TypeOK
  <2>3. BoundInv'
    BY <1>1, <1>2, <1>3, <1>5, <2>1 DEF BoundInv
  <2>4. ReportInv'
    BY <1>1, <1>3, <1>6, <2>1 DEF ReportInv, ErrorsExplained
  <2> QED
    BY <2>1, <2>2, <2>3, <2>4, EndStep
<1>7. CASE ~(opts.enc \notin Allowed(opts.alg) \/ opts.alg = 4 \/ parse.failed)
  <2>1. /\ pc' = (IF opts.alg = 3 THEN "cores" ELSE "search")
        /\ clset' = parse.clauses
        /\ nscls' = parse.nsoft
        /\ minbs' = nscls'
        /\ iternum' = 1
        /\ result' = result
    BY <1>7
  <2>2. opts.alg \in 1..3 /\ opts.enc \in Allowed(opts.alg)
    BY <1>4, <1>7, OptionsAssumption
  <2> HIDE DEF Start
  <2>3. Held' = parse.clauses /\ blockvs' = {}
    <3>1. \A c \in clset' \cup blkclset' : c.bvs = {}
      BY <1>1, <1>2, <1>4, <2>1, ReadFacts
    <3> QED
      BY <1>1, <1>2, <2>1, <3>1 DEF Held, blockvs
  <2>4. TypeOK'
    <3>1. \A c \in clset' \cup blkclset' : c.lits \subseteq Int /\ c.type \in Int
      BY <1>1, <1>2, <1>4, <2>1, ReadFacts, WorkFields
    <3> QED
      BY <1>1, <1>2, <1>3, <1>4, <1>5, <2>1, <3>1 DEF TypeOK
  <2>5. KeptInv'
    BY <1>3, <1>4, <2>3, ReadClauses DEF KeptInv
  <2>6. ShapeInv'
    <3>1. Fresh(clset') /\ UNION coreset' = {} /\ blkclset' = {} /\ cardset' = {} /\ nbvlb' = 0
          /\ coreset' = {}
      BY <1>1, <1>2, <1>4, <2>1, ReadClauses DEF Fresh
    <3> QED
      BY <1>1, <2>1, <2>2, <3>1 DEF ShapeInv, Running, Fresh
  <2>7. StartInv' /\ Msu3Inv'
    BY <1>1, <2>1 DEF StartInv, Msu3Inv
  <2>8. \A true \in HardModels :
           Cardinality({c \in INITs' : ~At([true |-> true, bvs |-> {}], c)}) + 0
             = Cardinality(Missed(true))
    <3> TAKE true \in HardModels
    <3>1. INITs' = {d \in parse.clauses : IsSoft(d)}
      BY <2>1 DEF INITs
    <3>2. Cardinality(Missed(true)) \in Nat
      BY <1>5, FS_CardinalityType
    <3> QED
      BY <1>4, <3>1, <3>2, ReadClauses
  <2>9. Msu1Inv'
    <3> SUFFICES ASSUME opts.alg = 1 PROVE Msu1Inv'
      BY <1>1 DEF Msu1Inv
    <3>1. iternum' = nunsat' + 1 /\ minbs' = nscls'
      BY <1>1, <1>2, <2>1
    <3>2. \A t \in SUBSET blockvs' : Cardinality(t) <= nunsat'
      BY <1>1, <1>2, <2>3, FS_EmptySet
    <3>3. \A t : MeetsAll(t)'
      BY <1>1, <1>2 DEF MeetsAll
    <3>4. \A c \in clset' : Cardinality({} \cap c.bvs) <= 1
      BY FS_EmptySet
    <3>5. nunsat' = 0
      BY <1>1, <1>2
    <3> HIDE <2>1, <1>6, <1>7
    <3>6. \A true \in HardModels' : \E t \in SUBSET blockvs' :
           /\ MeetsAll(t)'
           /\ \A c \in clset' : Cardinality(t \cap c.bvs) <= 1
           /\ Cardinality({c \in INITs' : ~At([true |-> true, bvs |-> t], c)}) + nunsat'
                = Cardinality(Missed(true)')
      <4> TAKE true \in HardModels'
      <4>1. true \in HardModels /\ Missed(true)' = Missed(true)
        BY <1>3
      <4>2. {} \in SUBSET blockvs'
        OBVIOUS
      <4>3. Cardinality({c \in INITs' : ~At([true |-> true, bvs |-> {}], c)}) + nunsat'
                = Cardinality(Missed(true)')
        BY <4>1, <3>5, <2>8
      <4> QED
        BY <4>2, <4>3, <3>3, <3>4
    <3> QED
      BY <3>1, <3>2, <3>6 DEF Msu1Inv
  <2>10. LitsIn({}) = {}
    BY DEF LitsIn
  <2>11. Cardinality({}) = 0
    BY FS_EmptySet
  <2>12. Msu2Inv'
    <3> SUFFICES ASSUME opts.alg = 2 PROVE Msu2Inv'
      BY <1>1 DEF Msu2Inv
    <3>1. lbv' = nscls' - minbs' /\ iternum' = 1 /\ cardset' = {} /\ nunsat' = 0 /\ blkclset' = {}
          /\ minbs' = nscls'
      BY <1>1, <1>2, <1>5, <2>1
    <3>2. \A asg \in HardModels' :
              LET n == Cardinality(Missed(asg) \cap LitsIn(blkclset))'
              IN  (iternum' > 1 /\ n >= minbs') \/ (n >= nunsat' /\ MeetsAll(Used(asg))')
      <4> TAKE asg \in HardModels'
      <4>1. Cardinality(Missed(asg) \cap LitsIn(blkclset))' = 0
        BY <3>1, <2>10, <2>11
      <4>2. MeetsAll(Used(asg))'
        BY <3>1 DEF MeetsAll
      <4>3. nunsat' = 0
        BY <3>1
      <4> HIDE <3>1
      <4> QED
        BY <4>1, <4>2, <4>3, NothingLess, Zenon
    <3>3. nunsat' <= Cardinality(blkclset') /\ ~(iternum' > 1)
      BY <3>1, <2>11
    <3> QED
      BY <3>1, <3>2, <3>3 DEF Msu2Inv
  <2>13. CoresInv'
    <3>1. minbs' = nscls' /\ nunsat' = 0 /\ coreset' = {} /\ UNION coreset' = {}
      BY <1>1, <1>2, <2>1
    <3>2. \A true \in HardModels' : Cardinality(Missed(true) \cap LitsIn(UNION coreset))' = 0
      BY <3>1, <2>10, <2>11
    <3> QED
      BY <3>1, <3>2, CountsAssumption DEF CoresInv
  <2>14. BoundInv'
    BY <1>1, <1>2, <1>3, <1>5, <2>1 DEF BoundInv
  <2>15. ReportInv'
    BY <1>4, <2>1 DEF ReportInv, ErrorsExplained
  <2> QED
    BY <2>4, <2>5, <2>6, <2>7, <2>9, <2>12, <2>13, <2>14, <2>15 DEF IInv
<1> QED
  BY <1>6, <1>7

(* Every step keeps the invariant. *)
LEMMA StepKeeps ==
    ASSUME IInv, [Next]_vars
    PROVE  IInv'
<1>1. CASE Start
  BY <1>1, StartKeeps
<1>2. CASE Solve
  BY <1>2, Msu1UnsatKeeps, Msu1SatKeeps, Msu2UnsatKeeps, Msu2SatKeeps, RemoveCoreKeeps,
     CoresRemovedKeeps, Msu3UnsatKeeps, Msu3SatKeeps DEF Solve
<1>3. CASE Timeout
  BY <1>3, TimeoutKeeps
<1>4. CASE Done \/ UNCHANGED vars
  BY <1>4, StutterKeeps DEF Done
<1> QED
  BY <1>1, <1>2, <1>3, <1>4 DEF Next

(* The invariant holds throughout, for every file and command line. *)
THEOREM Invariant == Spec => []IInv
<1>1. Init => IInv
  BY InitHolds
<1>2. IInv /\ [Next]_vars => IInv'
  BY StepKeeps
<1> QED
  BY <1>1, <1>2, PTL DEF Spec

(* Of a tidy file every line is kept. *)
LEMMA TidyKept ==
    ASSUME file \in Files, Tidy
    PROVE  Kept = Clauses
<1> DEFINE next(f) == [i \in Lines |-> i \in Clauses /\ (file.format = "pmcnf" =>
                            \A j \in 1..(i - 1) : f[j] => ~Clash(i, j))]
           keepcl == CHOOSE f : f = next(f)
           g == [i \in Lines |-> i \in Clauses]
<1>1. Kept = {i \in Clauses : keepcl[i]}
  BY DEF Kept
<1>2. Clauses \subseteq Lines /\ Lines = 1..Len(file.lines) /\ Len(file.lines) \in Nat
  BY LinesFacts DEF Clauses
<1>3. \A i \in Lines : \A j \in 1..(i - 1) : j \in Lines /\ i # j
  BY <1>2
<1>4. ASSUME NEW i \in Clauses, NEW j \in Clauses, i # j, file.format = "pmcnf" PROVE ~Clash(i, j)
  BY <1>4 DEF Tidy
<1>5. g = next(g)
  <2>1. ASSUME NEW i \in Lines
        PROVE  (i \in Clauses) = (i \in Clauses /\ (file.format = "pmcnf" =>
                            \A j \in 1..(i - 1) : g[j] => ~Clash(i, j)))
    <3>1. \A j \in 1..(i - 1) : g[j] => j \in Clauses
      BY <1>3
    <3> QED
      BY <3>1, <1>3, <1>4
  <2> QED
    BY <2>1
<1>6. keepcl = next(keepcl)
  <2> HIDE DEF g, next
  <2> QED
    BY <1>5
<1>7. \A i \in Lines : keepcl[i] = (i \in Clauses /\ (file.format = "pmcnf" =>
                            \A j \in 1..(i - 1) : keepcl[j] => ~Clash(i, j)))
  <2> DEFINE k == keepcl
  <2>1. k = next(k)
    BY <1>6
  <2> HIDE DEF k, keepcl
  <2>2. \A i \in Lines : k[i] = (i \in Clauses /\ (file.format = "pmcnf" =>
                            \A j \in 1..(i - 1) : k[j] => ~Clash(i, j)))
    BY <2>1
  <2> QED
    BY <2>2 DEF k
<1> HIDE DEF keepcl, next, g
<1>8. ASSUME NEW i \in Clauses PROVE keepcl[i]
  <2>1. ASSUME NEW j \in 1..(i - 1), keepcl[j], file.format = "pmcnf" PROVE ~Clash(i, j)
    <3>1. j \in Lines /\ i # j
      BY <1>2, <1>3
    <3>2. j \in Clauses
      BY <3>1, <2>1, <1>7
    <3> QED
      BY <3>1, <3>2, <2>1, <1>4
  <2> QED
    BY <2>1, <1>2, <1>7
<1> QED
  BY <1>1, <1>8

(* So what is counted is what the file asks for. *)
LEMMA TidyFacts ==
    ASSUME file \in Files, Tidy
    PROVE  /\ parse.nsoft = Cardinality(SoftLines)
           /\ Optimum = FileOptimum
<1>1. Kept = Clauses
  BY TidyKept
<1>2. \A i, j \in Clauses : i # j => LitsAt(i) # LitsAt(j)
  BY DEF Tidy
<1>3. LastOf(Clauses) = Clauses
  <2>1. Clauses \subseteq Nat
    BY LinesFacts DEF Clauses
  <2>2. \A i, j \in Clauses : j > i => LitsAt(j) # LitsAt(i)
    BY <1>2, <2>1
  <2> QED
    BY <2>2 DEF LastOf
<1>4. parse.clauses = {Record(i) : i \in Clauses}
  BY <1>1, <1>3, ParseFacts
<1>5. parse.nsoft = Cardinality(SoftLines)
  <2>1. {i \in Clauses : file.format = "pmcnf" => TypeAt(i) = 0} = SoftLines
    <3>1. CASE file.format = "pmcnf"
      BY <3>1 DEF SoftLines
    <3>2. CASE file.format = "cnf"
      BY <3>2 DEF SoftLines, TypeAt
    <3> QED
      BY <3>1, <3>2 DEF Tidy
  <2> QED
    BY <1>1, <2>1, ParseFacts
<1>6. \A i \in Clauses : Record(i).lits = LitsAt(i) /\ (IsSoft(Record(i)) <=> TypeAt(i) = 0)
  BY DEF Record, IsSoft
<1>7. SoftLits = LitsOf(SoftLines)
  BY <1>4, <1>6 DEF SoftLits, LitsOf, SoftLines
<1>8. HardLits = LitsOf(HardLines)
  <2>1. HardLines = {i \in Clauses : TypeAt(i) # 0}
    BY DEF Tidy, HardLines, SoftLines
  <2> QED
    BY <1>4, <1>6, <2>1 DEF HardLits, LitsOf
<1>9. SoftLits \cup HardLits = LitsOf(Clauses)
  BY <1>7, <1>8 DEF LitsOf, Tidy
<1>10. HardModels = Models(LitsOf(HardLines), Vars(LitsOf(Clauses)))
  BY <1>8, <1>9 DEF HardModels, FormulaVars
<1>11. ASSUME NEW asg
       PROVE  Cardinality(Missed(asg)) = Cardinality({i \in SoftLines : ~Satisfies(asg, LitsAt(i))})
  <2> DEFINE D == {i \in SoftLines : ~Satisfies(asg, LitsAt(i))}
             f == [i \in D |-> LitsAt(i)]
  <2>1. Missed(asg) = {LitsAt(i) : i \in D}
    BY <1>7 DEF Missed, Falsified, LitsOf
  <2>2. D \subseteq Clauses /\ D \subseteq Lines
    BY DEF SoftLines, Clauses
  <2>3. IsFiniteSet(D)
    BY <2>2, LinesFacts, FS_Subset
  <2> HIDE DEF D
  <2>4. f \in Bijection(D, Missed(asg))
    BY <1>2, <2>1, <2>2 DEF Bijection, Injection, Surjection, IsInjective
  <2> HIDE DEF f
  <2>5. Cardinality(D) = Cardinality(Missed(asg))
    BY <2>3, <2>4, FS_Bijection DEF ExistsBijection
  <2> QED
    BY <2>5 DEF D
<1> DEFINE costs == {Cardinality(Missed(true)) : true \in HardModels}
<1>12. Optimum = Least(costs)
  BY DEF Optimum, SoftLits, HardLits, HardModels, FormulaVars, Missed
<1>13. FileOptimum = Least(costs)
  BY <1>10, <1>11 DEF FileOptimum
<1> QED
  BY <1>5, <1>12, <1>13

(* The invariant contains ClausesKept. *)
LEMMA KeptHolds == IInv => ClausesKept
<1> SUFFICES ASSUME IInv PROVE ClausesKept
  OBVIOUS
<1>1. TypeOK /\ file \in Files
  BY DEF IInv, TypeOK
<1>2. SUFFICES ASSUME Running
      PROVE  /\ {[c EXCEPT !.bvs = {}] : c \in Held} = parse.clauses
             /\ Cardinality(Held) = Cardinality(parse.clauses)
             /\ \A c \in Held : ~(c.type = 0) => c.bvs = {}
  BY <1>1 DEF ClausesKept, Running, Held
<1>3. KeptSet(Held, parse.clauses)
  BY <1>2 DEF IInv, KeptInv
<1> DEFINE H == Held
           R == parse.clauses
<1>4. /\ R \subseteq Work /\ IsFiniteSet(R) /\ \A r \in R : r.bvs = {}
      /\ \A c, d \in R : c.lits = d.lits => c = d
      /\ KeptSet(H, R)
  BY <1>1, <1>3, ReadFacts
<1> HIDE DEF H, R
<1>5. Cardinality(H) = Cardinality(R) /\ {[c EXCEPT !.bvs = {}] : c \in H} = R
  BY <1>4, SameCount
<1>6. \A c \in H : ~(c.type = 0) => c.bvs = {}
  BY <1>4 DEF KeptSet
<1> QED
  BY <1>5, <1>6 DEF H, R

(* The invariant contains BoundsHold. *)
LEMMA BoundsFollow == IInv => BoundsHold
<1> SUFFICES ASSUME IInv, Feasible, pc # "start", result.kind # "error"
             PROVE  nunsat <= Optimum /\ nbvlb <= Optimum /\ Optimum <= minbs
  BY DEF BoundsHold
<1>1. CASE Running
  BY <1>1 DEF IInv, ShapeInv, BoundInv
<1>2. CASE pc = "end"
  <2>1. result.kind \in {"answer", "bounds", "quit"}
    BY <1>2 DEF IInv, TypeOK
  <2> QED
    BY <2>1 DEF IInv, ReportInv, BoundInv
<1> QED
  BY <1>1, <1>2 DEF IInv, TypeOK, Running

(* The invariant implies ReportsTrue. *)
LEMMA ReportsFollow == IInv => ReportsTrue
<1> SUFFICES ASSUME IInv PROVE ReportsTrue
  OBVIOUS
<1>1. ErrorsExplained
  BY DEF IInv, ReportInv
<1>2. CoreBoundsEnclose
  BY DEF IInv, ReportInv, CoreBoundsEnclose, BoundsEnclose
<1>3. ComputedIsBest
  <2> SUFFICES ASSUME result.kind = "answer", Tidy, FileOptimum # Infinity
               PROVE  result.lb = Cardinality(SoftLines) - FileOptimum
    BY DEF ComputedIsBest
  <2>1. file \in Files
    BY DEF IInv, TypeOK
  <2>2. parse.nsoft = Cardinality(SoftLines) /\ Optimum = FileOptimum
    BY <2>1, TidyFacts
  <2>3. Feasible
    BY <2>2 DEF Feasible
  <2> QED
    BY <2>2, <2>3 DEF IInv, ReportInv, BoundInv
<1> QED
  BY <1>1, <1>2, <1>3 DEF ReportsTrue

(* No clause is lost, doubled or changed on its way through clset, blkclset *)
(* and coreset; only soft ones are blocked (extract_fromclset,             *)
(* add_blocking_vars, add_blockvs_coreset).                                *)
THEOREM ClausesAreKept == Spec => []ClausesKept
  BY Invariant, KeptHolds, PTL

(* Neither the cores counted nor the bound of msu3 exceed the optimum, and *)
(* the best model does not fall below it.                                  *)
THEOREM BoundsAreHeld == Spec => []BoundsHold
  BY Invariant, BoundsFollow, PTL

(* The number computed is the best the file allows, the bounds reported when *)
(* time runs out enclose it in msu2 and msu3, and a failure has a reason.  *)
THEOREM ReportsAreTrue == Spec => []ReportsTrue
  BY Invariant, ReportsFollow, PTL

(* No count goes back, and no step follows the end. *)
LEMMA CountsAdvance ==
    ASSUME IInv, Start \/ Solve \/ Timeout
    PROVE  /\ result.kind = "none" /\ UNCHANGED file
           /\ nunsat <= nunsat' /\ nbvlb <= nbvlb' /\ iternum <= iternum'
           /\ iternum > 0 => minbs' <= minbs
<1>1. {nscls, iternum, nunsat, nbvlb, minbs, lbv} \subseteq Nat
      /\ ((pc = "end") <=> (result.kind # "none"))
  BY DEF IInv, TypeOK
<1>2. CASE Start
  BY <1>1, <1>2 DEF Start, input, IInv, StartInv, exit_err, Report
<1>3. CASE Msu1Unsat
  BY <1>1, <1>3 DEF Msu1Unsat, input, exit_err, Report, Continue
<1>4. CASE Msu1Sat
  <2>1. pc = "search" /\ UNCHANGED <<input, iternum, nunsat, nbvlb>>
    BY <1>4 DEF Msu1Sat
  <2>2. Ready
    BY <2>1 DEF IInv, Ready, Running, TypeOK
  <2>3. \A p \in AllPoints : Cardinality(p.bvs) \in Nat
    BY <2>1, <2>2, HeldFacts, ModelCost
  <2>4. PICK p \in AllPoints : minbs' = minbs \/ (Cardinality(p.bvs) < minbs /\ minbs' = Cardinality(p.bvs))
    BY <1>4 DEF Msu1Sat
  <2>5. minbs' <= minbs
    BY <1>1, <2>3, <2>4
  <2> QED
    BY <1>1, <2>1, <2>5 DEF input
<1>5. CASE Msu2Unsat
  BY <1>1, <1>5 DEF Msu2Unsat, input, Computed, Report, Continue
<1>6. CASE Msu2Sat
  <2>1. pc = "search" /\ UNCHANGED <<input, nunsat, nbvlb>>
    BY <1>6 DEF Msu2Sat
  <2>2. Ready
    BY <2>1 DEF IInv, Ready, Running, TypeOK
  <2>3. \A p \in AllPoints : Cardinality(p.bvs) \in Nat
    BY <2>1, <2>2, HeldFacts, ModelCost
  <2>4. PICK p \in AllPoints :
       IF iternum = 1
         THEN Computed(nscls) /\ UNCHANGED <<cardset, iternum, minbs, lbv>>
         ELSE LET mins == Min({Cardinality(p.bvs), minbs})
              IN  minbs' = mins /\ iternum' \in {iternum, iternum + 1}
    BY <1>6 DEF Msu2Sat
  <2> DEFINE n == Cardinality(p.bvs)
             mins == Min({n, minbs})
  <2>5. n \in Nat
    BY <2>3, <2>4
  <2>6. (iternum' = iternum /\ minbs' = minbs) \/ (minbs' = mins /\ iternum' \in {iternum, iternum + 1})
    BY <2>4
  <2> HIDE DEF n
  <2>7. mins \in Nat /\ mins <= minbs
    BY <1>1, <2>5, MinOfTwo
  <2> HIDE DEF mins
  <2> QED
    BY <1>1, <2>1, <2>6, <2>7 DEF input
<1>7. CASE RemoveCore
  BY <1>1, <1>7 DEF RemoveCore, input
<1>8. CASE CoresRemoved
  <2>1. nbvlb = 0
    BY <1>8 DEF CoresRemoved, IInv, ShapeInv
  <2>2. pc = "cores" /\ UNCHANGED <<input, iternum, nunsat, minbs>> /\ nbvlb' \in {nbvlb, nunsat}
    BY <1>8 DEF CoresRemoved
  <2> QED
    BY <1>1, <2>1, <2>2 DEF input
<1>9. CASE Msu3Unsat
  BY <1>1, <1>9 DEF Msu3Unsat, input
<1>10. CASE Msu3Sat
  BY <1>1, <1>10 DEF Msu3Sat, input, work, counts
<1>11. CASE Timeout
  BY <1>1, <1>11 DEF Timeout, input, work, counts
<1> QED
  BY <1>2, <1>3, <1>4, <1>5, <1>6, <1>7, <1>8, <1>9, <1>10, <1>11 DEF Solve

(* A step before the end moves the bounds towards the optimum, or answers it. *)
LEMMA StepNarrows ==
    ASSUME IInv, IInv', Start \/ Solve \/ Timeout
    PROVE  Bounds!Next
<1> DEFINE low == IF nunsat > nbvlb THEN nunsat ELSE nbvlb
           high == IF iternum = 0 \/ ~Feasible THEN Infinity ELSE minbs
           answer == IF result.kind = "answer" THEN nscls - result.lb ELSE None
<1>1. /\ result.kind = "none" /\ UNCHANGED file
      /\ nunsat <= nunsat' /\ nbvlb <= nbvlb' /\ iternum <= iternum'
      /\ iternum > 0 => minbs' <= minbs
  BY CountsAdvance
<1>2. /\ {nscls, iternum, nunsat, nbvlb, minbs, lbv} \subseteq Nat
      /\ {nscls', iternum', nunsat', nbvlb', minbs', lbv'} \subseteq Nat
      /\ file \in Files
  BY DEF IInv, TypeOK
<1>3. Optimum' = Optimum /\ Feasible' = Feasible /\ parse' = parse
  BY <1>1, SameFile DEF Feasible
<1>4. /\ Feasible => Optimum \in Nat
      /\ ~Feasible => Optimum = Infinity
      /\ parse.nsoft \in Nat /\ parse.nsoft < Infinity /\ Infinity \in Nat
  BY <1>2, OptimumFacts, CountsAssumption
<1>5. /\ Feasible => nunsat' <= Optimum /\ nbvlb' <= Optimum /\ (iternum' > 0 => Optimum <= minbs')
      /\ ~Feasible => nunsat' <= Infinity /\ nbvlb' <= Infinity
      /\ minbs' <= nscls' /\ (iternum' > 0 => nscls' = parse.nsoft)
  BY <1>3 DEF IInv, BoundInv
<1>6. answer = None
  BY <1>1
<1>7. low <= low' /\ low' <= Optimum
  BY <1>1, <1>2, <1>4, <1>5
<1>8. high' <= high /\ Optimum <= high'
  <2>1. CASE ~Feasible
    BY <2>1, <1>3, <1>4
  <2>2. CASE Feasible /\ iternum' = 0
    BY <2>2, <1>1, <1>2, <1>3, <1>4, OptimumFacts
  <2>3. CASE Feasible /\ iternum' # 0 /\ iternum = 0
    BY <2>3, <1>2, <1>3, <1>4, <1>5
  <2>4. CASE Feasible /\ iternum' # 0 /\ iternum # 0
    BY <2>4, <1>1, <1>2, <1>3, <1>5
  <2> QED
    BY <2>1, <2>2, <2>3, <2>4
<1>9. answer' = None \/ (Feasible => answer' = Optimum)
  <2>1. CASE result'.kind = "answer" /\ Feasible
    <3>1. result'.lb = nscls' - Optimum
      BY <2>1, <1>3 DEF IInv, ReportInv
    <3>2. nscls' - result'.lb = Optimum
      BY <2>1, <3>1, <1>2, <1>4
    <3> QED
      BY <2>1, <3>2
  <2> QED
    BY <2>1
<1> HIDE DEF low, high, answer
<1>10. Bounds!Narrow
  BY <1>7, <1>8 DEF Bounds!Narrow, low, high
<1>11. Bounds!Search \/ Bounds!Answer
  BY <1>9 DEF Bounds!Search, Bounds!Answer, answer, Feasible
<1> QED
  BY <1>3, <1>6, <1>10, <1>11 DEF Bounds!Next, answer

(* msuncore does what BoundSearch promises: its bounds close in on the     *)
(* optimum, and what it answers is the optimum.                            *)
THEOREM ClosesInOnOptimum == Spec => ImplementsBounds
<1>1. Init => Bounds!Init
  BY DEF Init, Bounds!Init
<1>2. IInv /\ IInv' /\ [Next]_vars => [Bounds!Next]_(Bounds!vars)
  <2> SUFFICES ASSUME IInv, IInv', [Next]_vars PROVE Bounds!Next \/ UNCHANGED Bounds!vars
    OBVIOUS
  <2>1. CASE Start \/ Solve \/ Timeout
    BY <2>1, StepNarrows
  <2>2. CASE UNCHANGED vars
    <3>1. UNCHANGED input /\ UNCHANGED <<nunsat, nbvlb, iternum, minbs, nscls, result>>
      BY <2>2 DEF vars, input
    <3>2. Optimum' = Optimum /\ Feasible' = Feasible
      BY <3>1, SameOptimum
    <3> QED
      BY <3>1, <3>2 DEF Bounds!vars
  <2> QED
    BY <2>1, <2>2 DEF Next, Done
<1> QED
  BY <1>1, <1>2, Invariant, PTL DEF Spec, ImplementsBounds, Bounds!Spec

=============================================================================
