-------------------------- MODULE SearchAlgorithms --------------------------
(***************************************************************************)
(* How the algorithms that algorithms.cc of src/ubcsat registers choose    *)
(* the variable to flip, and what SAPS does to its penalties.  Each        *)
(* operator returns the set of what random numbers may choose.  s is the   *)
(* search state before step, p the parameters.  (Weighted Novelty is left  *)
(* out: it names a function PickNOVELTYW that does not exist.)             *)
(***************************************************************************)
EXTENDS SearchState

CONSTANTS
    WalkPeriod,  \* 100: R-Novelty walks in every step divided by it
    MaxPenalty,  \* fMaxClausePenalty: a penalty above it is scaled down
    Alpha        \* fAlpha: the factor of a penalty at a local minimum

ASSUME MaxPenaltyAssumption == MaxPenalty \in Nat \ {0}
ASSUME WalkPeriodAssumption == WalkPeriod \in Nat \ {0}
ASSUME AlphaAssumption      == Alpha \in Nat \ {0, 1}

NumFalse(s) == Len(s.falses.list)

Score(s) == [u \in Vars |-> IF Weighted \/ algorithm = "saps"
                            THEN s.breakW[u] - s.makeW[u] ELSE s.break[u] - s.make[u]]

(* The candidates with the least score, all equally likely.                *)
Least(s, C) == {u \in C : \A w \in C : Score(s)[u] <= Score(s)[w]}

PickGSAT(s) == Least(s, Vars)

(* A variable of a false clause, as each literal of each is as likely; no  *)
(* variable if no clause is false.                                         *)
Walk(F, s) ==
    IF NumFalse(s) = 0 THEN {NoVar}
    ELSE UNION {{Var(F[c][i]) : i \in DOMAIN F[c]} : c \in ToSet(s.falses.list)}

(* Of the least scores, the variables flipped longest ago.  (The scan      *)
(* compares the first score that equals iNumClause with an entry left in   *)
(* aCandidateList; with two variables or more another score is less.)      *)
PickHSAT(s) == {u \in Least(s, Vars) : \A w \in Least(s, Vars) : s.change[u] <= s.change[w]}

PickHWSAT(F, s) == PickHSAT(s) \cup Walk(F, s)

(* Mutant: a variable is free one step early.                              *)
TabuShort(s, u, step, p) == s.change[u] + p.tabu > step

(* Flipped within the last steps.                                          *)
Tabu(s, u, step, p) == s.change[u] + p.tabu >= step

Free(s, step, p) == {u \in Vars : ~Tabu(s, u, step, p)}

(* With all variables tabu, the first candidate of an earlier step.        *)
PickGSATTABU(s, step, p) ==
    LET C == Least(s, Free(s, step, p)) IN IF C = {} THEN {s.head} ELSE C

NewHead(s, step, p) ==
    LET C == Least(s, Free(s, step, p)) IN IF KeepsHead /\ C # {} THEN Min(C) ELSE s.head

(* With the walk probability, a variable of a false clause.                *)
PickGWSAT(s) == PickGSAT(s) \cup (IF NumFalse(s) = 0 THEN {NoVar} ELSE ToSet(s.vars.list))

(* At a local minimum any variable, or none.                               *)
PickSAPS(s) ==
    LET C == ToSet(s.vars.list)
    IN  IF \E u \in C : Score(s)[u] < 0 THEN Least(s, C) ELSE Vars \cup {NoVar}

(* What flipping l's variable breaks, by the occurrences of its negation:  *)
(* the break count of a variable that is not kept.                         *)
BreakScore(F, s, l) ==
    Cardinality({i \in DOMAIN Occurrences(F, -l) : s.numTrue[Occurrences(F, -l)[i]] = 1})

LiteralScore(F, s, l) ==
    BreakScore(F, s, l)
      - Cardinality({i \in DOMAIN Occurrences(F, l) : s.numTrue[Occurrences(F, l)[i]] = 0})

(* The literals L of a clause that break the least.                        *)
LeastBroken(F, s, L) == {l \in L : \A m \in L : BreakScore(F, s, l) <= BreakScore(F, s, m)}

(* A variable of a false clause that breaks the least; any of the clause   *)
(* with the walk probability, unless one of them breaks nothing.           *)
PickWALKSATSKG(F, s) ==
    LET picks(L) ==
            LET best == LeastBroken(F, s, L)
            IN  IF \E l \in best : BreakScore(F, s, l) > 0 THEN L ELSE best
    IN  IF NumFalse(s) = 0 THEN {NoVar}
        ELSE UNION {{Var(l) : l \in picks(ToSet(F[c]))} : c \in ToSet(s.falses.list)}

(* The same without the walk, among the variables that are not tabu or     *)
(* break nothing, if there are any.                                        *)
PickWALKSATTABU(F, s, step, p) ==
    LET free(c) == {l \in ToSet(F[c]) :
                       BreakScore(F, s, l) = 0 \/ ~Tabu(s, Var(l), step, p)}
    IN  IF NumFalse(s) = 0 THEN {NoVar}
        ELSE UNION {IF free(c) = {} THEN {NoVar}
                    ELSE {Var(l) : l \in LeastBroken(F, s, free(c))} :
                    c \in ToSet(s.falses.list)}

(* By weight, the scores are those that are kept of the variables; worst  *)
(* is what a scan starts with.                                             *)
ClauseScore(F, s, l) == IF Weighted THEN Score(s)[Var(l)] ELSE LiteralScore(F, s, l)
Worst(F, s)          == IF Weighted THEN s.sum ELSE Len(F) + 1

(* Ties go to the variable that was flipped longer ago.                    *)
Before(s, score, u, score2, u2) ==
    score < score2 \/ (score = score2 /\ s.change[u] < s.change[u2])

(* Variable u with its score among the best two; the youngest variable is *)
(* the one flipped last.                                                   *)
Rank(s, t, u, score) ==
    LET young == IF s.change[u] > s.change[t.young] THEN u ELSE t.young
    IN  CASE Before(s, score, u, t.score, t.best) ->
                [best |-> u, score |-> score, second |-> t.best,
                 score2 |-> t.score, young |-> young]
          [] ~Before(s, score, u, t.score, t.best)
             /\ Before(s, score, u, t.score2, t.second) ->
                [t EXCEPT !.second = u, !.score2 = score, !.young = young]
          [] OTHER -> [t EXCEPT !.young = young]

(* The next literal of a clause.                                           *)
Scan(F, s, t, l) == Rank(s, t, Var(l), ClauseScore(F, s, l))

(* Best and second best variable of a clause.                              *)
NoveltyScan(F, s, c) ==
    LET scan(t, l) == Scan(F, s, t, l)
    IN  FoldLeft(scan, [best |-> NoVar, score |-> Worst(F, s), second |-> NoVar,
                        score2 |-> Worst(F, s), young |-> Var(F[c][1])], F[c])

(* The second best only when the best is the youngest.  A clause of one    *)
(* literal has no second best.                                             *)
PickNovelty(F, s, c) ==
    LET t == NoveltyScan(F, s, c)
    IN  {t.best} \cup (IF t.best = t.young THEN {t.second} ELSE {})

(* There the margin between the two and the noise decide as well.  noise   *)
(* is the sign of its difference to a half; half of that difference is an  *)
(* unsigned number, and huge when it is negative.                          *)
PickRNovelty(F, s, c, p) ==
    LET t == NoveltyScan(F, s, c)
        margin == t.score2 - t.score
    IN  CASE t.best # t.young                          -> {t.best}
          [] t.best = t.young /\ p.noise < 0 /\ margin > 1 -> {t.best}
          [] t.best = t.young /\ p.noise < 0 /\ margin = 1 -> {t.best, t.second}
          [] t.best = t.young /\ p.noise < 0 /\ margin < 1 -> {t.second}
          [] t.best = t.young /\ p.noise >= 0 /\ margin = 1 -> {t.second}
          [] t.best = t.young /\ p.noise = 0 /\ margin # 1  -> {t.best}
          [] t.best = t.young /\ p.noise > 0 /\ margin # 1  -> {t.best, t.second}

(* The false clauses that may be chosen: by weight, those that have one,   *)
(* and the last, which the largest of the random numbers leads to.         *)
Chosen(s) ==
    LET C == ToSet(s.falses.list)
    IN  IF Weighted THEN {c \in C : s.weight[c] > 0} \cup {Last(s.falses.list)} ELSE C

(* PickNOVELTY, PickRNOVELTYCore and PickNOVELTYWCSWE, for every clause    *)
(* they may choose.                                                        *)
NoveltyPicks(F, s, p) ==
    IF NumFalse(s) = 0 THEN {NoVar}
    ELSE UNION {IF algorithm \in {"rnovelty", "rnovelty+"} THEN PickRNovelty(F, s, c, p)
                ELSE PickNovelty(F, s, c) : c \in Chosen(s)}

PickNOVELTYPLUS(F, s, p) == NoveltyPicks(F, s, p) \cup Walk(F, s)

PickRNOVELTY(F, s, step, p) ==
    IF step % WalkPeriod = 0 THEN Walk(F, s) ELSE NoveltyPicks(F, s, p)

Picks(F, s, step, p) ==
    CASE algorithm \in {"gsat", "gsat-w"}           -> PickGSAT(s)
      [] algorithm \in {"gwsat", "gwsat-w"}         -> PickGWSAT(s)
      [] algorithm = "hsat"                         -> PickHSAT(s)
      [] algorithm = "hwsat"                        -> PickHWSAT(F, s)
      [] algorithm = "gsat-tabu"                    -> PickGSATTABU(s, step, p)
      [] algorithm = "saps"                         -> PickSAPS(s)
      [] algorithm = "walksat"                      -> PickWALKSATSKG(F, s)
      [] algorithm = "walksat-tabu"                 -> PickWALKSATTABU(F, s, step, p)
      [] algorithm = "novelty"                      -> NoveltyPicks(F, s, p)
      [] algorithm = "rnovelty"                     -> PickRNOVELTY(F, s, step, p)
      [] algorithm \in {"novelty+", "rnovelty+", "novelty+-w"} -> PickNOVELTYPLUS(F, s, p)

(***************************************************************************)
(* PostFlip of SAPS, after a null flip.  The make and break penalties of   *)
(* the variables follow those of the clauses, change by change.            *)
(***************************************************************************)

(* The variables of a clause make d more of it.                            *)
MakeMore(F, s, c, d) ==
    LET more(t, l) == [t EXCEPT !.makeW[Var(l)] = @ + d] IN FoldLeft(more, s, F[c])

(* Clause c has grown by d: t has what the clauses before it have changed. *)
Grow(F, s, t, c, d) ==
    CASE s.numTrue[c] = 0 -> MakeMore(F, t, c, d)
      [] s.numTrue[c] = 1 -> [t EXCEPT !.breakW[s.crit[c]] = @ + d]
      [] OTHER            -> t

(* The clauses' penalties become w.                                        *)
Reweigh(F, s, w) ==
    LET d == [c \in DOMAIN F |-> w[c] - s.weight[c]]
        grow(t, c) == Grow(F, s, t, c, d[c])
    IN  [FoldLeft(grow, s, [c \in 1..Len(F) |-> c]) EXCEPT
            !.weight = w, !.sum = @ + Total(d)]

(* Mutant: the penalties of the variables are forgotten.                   *)
SmoothClauses(F, s) ==
    LET a == s.sum \div Len(F)
    IN  [s EXCEPT !.weight = [c \in DOMAIN F |-> @[c] + a], !.sum = @ + a * Len(F)]

(* All penalties grow by a share of their average; the variables' by as    *)
(* much for each clause they count.                                        *)
SmoothSAPS(F, s) ==
    LET a == s.sum \div Len(F)
    IN  [s EXCEPT !.weight = [c \in DOMAIN F |-> @[c] + a],
                  !.sum    = @ + a * Len(F),
                  !.makeW  = [u \in Indices |->
                                 IF u = NoVar THEN @[u] ELSE @[u] + a * s.make[u]],
                  !.breakW = [u \in Indices |->
                                 IF u = NoVar THEN @[u] ELSE @[u] + a * s.break[u]]]

(* Divided, when a false clause's penalty has grown too large, and rounded *)
(* up as a penalty stays positive.                                         *)
AdjustPenalties(F, s) ==
    IF \E c \in ToSet(s.falses.list) : s.weight[c] > MaxPenalty
    THEN Reweigh(F, s, [c \in DOMAIN F |->
                            (s.weight[c] + MaxPenalty - 1) \div MaxPenalty])
    ELSE s

ScaleSAPS(F, s) ==
    Reweigh(F, s, [c \in DOMAIN F |-> IF c \in ToSet(s.falses.list)
                                      THEN Alpha * s.weight[c] ELSE s.weight[c]])

PostFlipSAPS(F, s) ==
    LET rest(t) == ScaleSAPS(F, AdjustPenalties(F, t))
    IN  {rest(s), rest(SmoothSAPS(F, s))}

=============================================================================
