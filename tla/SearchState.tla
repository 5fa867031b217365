---------------------------- MODULE SearchState ----------------------------
(***************************************************************************)
(* The state a local search of ubcsat keeps of a formula and an assignment *)
(* (src/ubcsat/ubcsat-defaults.cc, saps.cc, weighted.cc): how many         *)
(* literals of each clause are true, the list of false clauses, and what   *)
(* flipping each variable would make and break.  It is computed once at    *)
(* the start of a run and from then on repaired by every flip, clause by   *)
(* clause, through the occurrence lists of the two literals that change.   *)
(*                                                                         *)
(* The algorithms keep different parts of it.  FlipFalseInfo, FlipVarScore,*)
(* FlipMakeBreakVarInFalse, FlipSAPS, FlipMakeBreakW and                   *)
(* FlipMakeBreakVarInFalseW are one loop with different statements in it,  *)
(* and here one operator, in which a part that the algorithm does not keep *)
(* never changes.  aVarScore is the difference of break and make: each     *)
(* statement that changes it is one that changes either in the others.     *)
(* head is the first entry of aCandidateList, which only GSAT-TABU reads   *)
(* without having written it in the same step.                             *)
(* A clause's weight is 0 where the algorithm has none, its weight in the  *)
(* file where the algorithm is weighted, and its penalty in SAPS; floating *)
(* point numbers are integers.                                             *)
(***************************************************************************)
EXTENDS Integers, FiniteSets, Sequences, SequencesExt, FiniteSetsExt, IndexedSet

CONSTANT NumVar    \* iNumVar

VARIABLE algorithm \* the algorithm that runs: what is kept depends on it

\* Those that compute their scores in each step, for one clause.
NoveltyLike == {"novelty", "novelty+", "rnovelty", "rnovelty+", "novelty+-w"}
WalkSatLike == {"walksat", "walksat-tabu"}
HSatLike    == {"hsat", "hwsat"}

Algorithms == NoveltyLike \cup WalkSatLike \cup HSatLike
              \cup {"gsat", "gsat-tabu", "gwsat", "saps", "gsat-w", "gwsat-w"}

ASSUME NumVarAssumption == NumVar \in Nat \ {0}

\* bWeighted.  Weighted Novelty+ is registered with the functions of the
\* unweighted algorithms: nobody keeps the cost of its false clauses.
Weighted    == algorithm \in {"gsat-w", "gwsat-w", "novelty+-w"}
KeepsCost   == algorithm \in {"gsat-w", "gwsat-w"}
KeepsCrit   == Weighted \/ algorithm \notin NoveltyLike \cup WalkSatLike
KeepsChange == algorithm \in NoveltyLike \cup HSatLike \cup {"walksat-tabu", "gsat-tabu"}
KeepsHead   == algorithm = "gsat-tabu"
KeepsVars   == algorithm \in {"gwsat", "saps", "gwsat-w"}
\* What one clause adds to the unweighted make and break counts.
Unit        == IF KeepsCrit /\ algorithm \notin {"gsat-w", "novelty+-w"} THEN 1 ELSE 0

Vars     == 1..NumVar
NoVar    == 0          \* iFlipCandidate of a null flip
Indices  == 0..NumVar  \* the index range of the arrays over variables
Literals == (-NumVar..NumVar) \ {0}

(* A literal is a signed variable, a clause a sequence of literals, and a  *)
(* formula a sequence of clauses: nothing is done about a clause that      *)
(* holds a literal twice, or a literal and its negation.                   *)
Var(l) == IF l < 0 THEN -l ELSE l

IsLitTrue(val, l) == (l > 0) = val[Var(l)]

TrueLit(val, v)  == IF val[v] THEN v ELSE -v
FalseLit(val, v) == -TrueLit(val, v)

(* How often a clause holds a literal, and a variable.                     *)
Times(F, c, l)    == Cardinality({i \in DOMAIN F[c] : F[c][i] = l})
VarTimes(F, c, u) == Cardinality({i \in DOMAIN F[c] : Var(F[c][i]) = u})

(* pLitClause[l]: a clause occurs in it once for each time it holds l.     *)
Occurrences(F, l) ==
    LET add(occ, c) == occ \o [i \in 1..Times(F, c, l) |-> c]
    IN  FoldLeft(add, <<>>, [c \in 1..Len(F) |-> c])

NumTrueLit(F, val, c) == Cardinality({i \in DOMAIN F[c] : IsLitTrue(val, F[c][i])})

(* The variable of the first true literal of a clause, 0 if none is.       *)
FirstTrueVar(F, val, c) ==
    LET True == {i \in DOMAIN F[c] : IsLitTrue(val, F[c][i])}
    IN  IF True = {} THEN NoVar ELSE Var(F[c][Min(True)])

Total(f) == FoldFunction(+, 0, f)

WeightOf(weight, C) == Total([c \in C |-> weight[c]])

(***************************************************************************)
(* InitStateInfo                                                           *)
(***************************************************************************)
InitCounts(F, numTrue, crit, unit) ==
    [break |-> [u \in Indices |->
                    Total([c \in DOMAIN F |->
                        IF numTrue[c] = 1 /\ crit[c] = u THEN unit[c] ELSE 0])],
     make  |-> [u \in Indices |->
                    Total([c \in DOMAIN F |->
                        IF numTrue[c] > 0 THEN 0 ELSE unit[c] * VarTimes(F, c, u)])]]

InitState(F, val, weight) ==
    LET numTrue == [c \in DOMAIN F |-> NumTrueLit(F, val, c)]
        crit    == [c \in DOMAIN F |->
                       IF KeepsCrit /\ numTrue[c] = 1 THEN FirstTrueVar(F, val, c)
                       ELSE NoVar]
        count   == InitCounts(F, numTrue, crit, [c \in DOMAIN F |-> Unit])
        heavy   == InitCounts(F, numTrue, crit, weight)
    IN  [val     |-> val,
         numTrue |-> numTrue,
         falses  |-> Listed({c \in DOMAIN F : numTrue[c] = 0}, Len(F)),
         crit    |-> crit,
         break   |-> count.break,
         make    |-> count.make,
         breakW  |-> heavy.break,
         makeW   |-> heavy.make,
         vars    |-> Listed({u \in Vars : KeepsVars /\ count.make[u] > 0}, NumVar),
         weight  |-> weight,
         sum     |-> Total(weight),
         falseW  |-> IF KeepsCost THEN WeightOf(weight, {c \in DOMAIN F : numTrue[c] = 0})
                     ELSE 0,
         head    |-> NoVar,
         change  |-> [u \in Indices |-> IF KeepsChange /\ u # NoVar THEN -NumVar
                                        ELSE 0]]

(***************************************************************************)
(* A flip.                                                                 *)
(***************************************************************************)
AddBreak(s, u, c, d) ==
    [s EXCEPT !.break[u] = @ + d * Unit, !.breakW[u] = @ + d * s.weight[c]]

(* One literal, of variable u, of a clause that has become false (d = 1)   *)
(* or true (d = -1); the list of variables follows the count.              *)
AddMake(s, u, c, d) ==
    LET made == [s EXCEPT !.make[u] = @ + d * Unit,
                          !.makeW[u] = @ + d * s.weight[c]]
    IN  CASE KeepsVars /\ d = 1 /\ made.make[u] = 1  -> [made EXCEPT !.vars = AddTo(@, u)]
          [] KeepsVars /\ d = -1 /\ made.make[u] = 0 -> [made EXCEPT !.vars = DropFrom(@, u)]
          [] OTHER -> made

MakeAll(F, s, c, d) ==
    LET make(t, l) == AddMake(t, Var(l), c, d)
    IN  FoldLeft(make, s, F[c])

(* One true literal is left in c: its variable breaks the clause now.      *)
NewCritical(F, s, c) ==
    LET u == FirstTrueVar(F, s.val, c)
    IN  IF KeepsCrit /\ u # NoVar THEN [AddBreak(s, u, c, 1) EXCEPT !.crit[c] = u] ELSE s

(* A literal of v in clause c is no longer true.                           *)
LoseTrueLit(F, s, v, c) ==
    LET n == s.numTrue[c] - 1
        t == [s EXCEPT !.numTrue[c] = n]
    IN  CASE n = 0 -> MakeAll(F, AddBreak([t EXCEPT !.falses = AddTo(@, c)], v, c, -1), c, 1)
          [] n = 1 -> NewCritical(F, t, c)
          [] OTHER -> t

(* A literal of v in clause c has become true.                             *)
GainTrueLit(F, s, v, c) ==
    LET n == s.numTrue[c] + 1
        t == [s EXCEPT !.numTrue[c] = n]
    IN  CASE n = 1 ->
                LET u == AddBreak(MakeAll(F, [t EXCEPT !.falses = DropFrom(@, c)], c, -1),
                                  v, c, 1)
                IN  IF KeepsCrit THEN [u EXCEPT !.crit[c] = v] ELSE u
          [] n = 2 /\ KeepsCrit -> AddBreak(t, t.crit[c], c, -1)
          [] OTHER -> t

LoseAll(F, s, v, clauses) ==
    LET lose(t, c) == LoseTrueLit(F, t, v, c) IN FoldLeft(lose, s, clauses)

GainAll(F, s, v, clauses) ==
    LET gain(t, c) == GainTrueLit(F, t, v, c) IN FoldLeft(gain, s, clauses)

(* The occurrence lists are chosen before the value changes; the clauses   *)
(* that lose a literal come first.                                         *)
Flip(F, s, v) ==
    LET turned == [s EXCEPT !.val[v] = ~@]
        lost   == LoseAll(F, turned, v, Occurrences(F, TrueLit(s.val, v)))
    IN  IF v = NoVar THEN s ELSE GainAll(F, lost, v, Occurrences(F, FalseLit(s.val, v)))

(***************************************************************************)
(* What the state should be, from the assignment alone.                    *)
(***************************************************************************)
FalseClauses(F, val) == {c \in DOMAIN F : \A i \in DOMAIN F[c] : ~IsLitTrue(val, F[c][i])}

Turned(val, v) == [val EXCEPT ![v] = ~@]

(* The clauses that flipping u would satisfy, and those it would falsify.  *)
Makes(F, val, u)  == FalseClauses(F, val) \ FalseClauses(F, Turned(val, u))
Breaks(F, val, u) == FalseClauses(F, Turned(val, u)) \ FalseClauses(F, val)

(* No clause holds a variable twice.                                       *)
Simple(F) ==
    \A c \in DOMAIN F : \A i, j \in DOMAIN F[c] : Var(F[c][i]) = Var(F[c][j]) => i = j

=============================================================================
