------------------------------- MODULE Ubcsat -------------------------------
(***************************************************************************)
(* One call of ubcsat::main (src/ubcsat/ubcsat.cc): runs of a stochastic   *)
(* local search, with what the search reports of each of them.  Random     *)
(* numbers are choices; the clock may pass the time limit after any step.  *)
(*                                                                         *)
(* The function lists that main runs are those of one algorithm alone, in  *)
(* a fresh process, with the default reports; how they are built is not    *)
(* modelled.                                                               *)
(***************************************************************************)
EXTENDS SearchAlgorithms

CONSTANTS
    Tasks,    \* the calls: algorithm, formula with the clauses' weights, parameters
    WordSize  \* 2^32: an unsigned int wraps here

ASSUME InstancesAssumption ==
    \A i \in {t.instance : t \in Tasks} :
        /\ i.formula \in Seq(Seq(Literals)) /\ i.formula # <<>>
        /\ \A c \in DOMAIN i.formula : i.formula[c] # <<>>
        /\ i.weight \in [DOMAIN i.formula -> Nat]
        \* The candidate array has room for this many variables.
        /\ NumVar <= Len(i.formula) + 1

ASSUME SettingsAssumption ==
    /\ {t.algorithm : t \in Tasks} \subseteq Algorithms
    /\ \A p \in {t.parm : t \in Tasks} :
          /\ {p.runs, p.cutoff, p.restart, p.find, p.target, p.noImprove, p.tabu}
                \subseteq Nat
          /\ p.noise \in {-1, 0, 1}
          /\ p.timeout \in BOOLEAN
          /\ p.mode \in {"plain", "solve", "satzilla"}

ASSUME WordSizeAssumption == WordSize \in Nat \ {0}

VARIABLES
    inst,      \* the instance that was read
    parm,      \* the parameters
    pc,        \* where main is
    search,    \* the search state
    flip,      \* iFlipCandidate
    iRun, iStep, iNumFound,
    found, terminateRun, terminateAll,   \* bSolutionFound, bTerminate...
    best,      \* iBestNumFalse and fBestFalseWeight, each with its step
    startFalse,\* iStartFalse
    track,     \* aBestFalseTrack and aBestFalseStepTrack
    rows,      \* what the report columns hold of the finished runs
    exitCode

data == <<algorithm, inst, parm>>
runs == <<iRun, iNumFound, rows>>
vars == <<algorithm, inst, parm, pc, search, flip, iRun, iStep, iNumFound, found, terminateRun,
          terminateAll, best, startFalse, track, rows, exitCode>>

F == inst.formula

(* SAPS starts each run, and each restart, with penalties of 1.            *)
StartWeight ==
    CASE algorithm = "saps" -> [c \in DOMAIN F |-> 1]
      [] Weighted           -> inst.weight
      [] OTHER              -> [c \in DOMAIN F |-> 0]

(* InitData and InitStateInfo, for every assignment InitVars may draw.     *)
(* The list of candidates and entry 0 of aVarLastChange are left alone.    *)
Starts ==
    {[InitState(F, val, StartWeight) EXCEPT !.head = search.head,
                                            !.change[NoVar] = search.change[NoVar]] :
        val \in [Vars -> BOOLEAN]}

(* InitSolveMode: iFind after Start.                                       *)
Find == IF parm.mode = "solve" /\ parm.find = 0 THEN 1 ELSE parm.find

(* InitBestFalse                                                           *)
NoBest == [num |-> Len(F) + 1, step |-> 0, w |-> Total(inst.weight) + 1, stepW |-> 0]

Init ==
    /\ \E t \in Tasks :
          algorithm = t.algorithm /\ inst = t.instance /\ parm = t.parm
    /\ pc = "run"
    \* The memory of the list of candidates is not initialized: of its
    \* first entry any variable, or none, is followed here.
    /\ \E head \in IF KeepsHead THEN Indices ELSE {NoVar} :
          search = [InitState(F, [v \in Vars |-> FALSE], StartWeight) EXCEPT !.head = head]
    /\ flip = NoVar
    /\ iRun = 0 /\ iStep = 0 /\ iNumFound = 0
    /\ found = FALSE /\ terminateRun = FALSE /\ terminateAll = FALSE
    /\ best = NoBest
    /\ startFalse = 0
    /\ track = <<>>
    /\ rows = <<>>
    /\ exitCode = 0

(* PreRun, InitData, InitStateInfo and PostInit.                           *)
StartRun ==
    /\ pc = "run"
    /\ iRun < parm.runs
    /\ ~terminateAll
    /\ search' \in Starts
    /\ best' = NoBest
    /\ track' = <<>>
    /\ startFalse' = NumFalse(search')
    /\ iStep' = 0
    /\ found' = FALSE
    /\ terminateRun' = FALSE
    /\ pc' = "step"
    /\ UNCHANGED <<data, runs, flip, terminateAll, exitCode>>

(* The condition of the loop over the steps.                               *)
InRun == iStep < parm.cutoff /\ ~found /\ ~terminateRun

(* CheckBestFalse, on the state t after the flip: the number of false      *)
(* clauses is up to date, their weight is that of the step before.         *)
CheckBestFalse(t) ==
    LET num == NumFalse(t) < best.num
        w   == Weighted /\ t.falseW <= best.w
    IN  [num   |-> IF num THEN NumFalse(t) ELSE best.num,
         step  |-> IF num THEN iStep + 1 ELSE best.step,
         w     |-> IF w THEN t.falseW ELSE best.w,
         stepW |-> IF w THEN iStep + 1 ELSE best.stepW]

(* What PostFlip does to the search state.                                 *)
PostFlip(t, v) ==
    CASE algorithm = "saps" /\ v = NoVar -> PostFlipSAPS(F, t)
      [] KeepsChange -> {[t EXCEPT !.change[v] = iStep + 1]}
      [] OTHER -> {t}

(* Mutant: an entry is never continued.                                    *)
TrackStepAppends(tr, num, isBest) ==
    LET entry == [num |-> num, step |-> iStep + 1]
    IN  IF iStep = 0 THEN {<<entry>>} ELSE IF isBest THEN {Append(tr, entry)} ELSE {tr}

(* UpdateBestTrack.  The step of the last entry is read when this step is  *)
(* the best: without an entry, before the array.  The program ends there,  *)
(* or goes on with either branch.                                          *)
TrackStep(tr, num, isBest) ==
    LET entry == [num |-> num, step |-> iStep + 1]
        n     == Len(tr)
    IN  CASE iStep = 0 -> {<<entry>>}
          [] iStep > 0 /\ ~isBest -> {tr}
          [] iStep > 0 /\ isBest /\ n = 0 -> {<<entry>>, <<>>}
          [] OTHER -> {IF tr[n].step = iStep THEN [tr EXCEPT ![n] = entry]
                       ELSE Append(tr, entry)}

(* The weight of the false clauses after flipping v has led from s to t.   *)
FalseWeight(s, t, v) ==
    LET sum(clauses, n) ==
            Total([k \in DOMAIN clauses |->
                       IF t.numTrue[clauses[k]] = n THEN t.weight[clauses[k]] ELSE 0])
    IN  IF ~KeepsCost \/ v = NoVar THEN t.falseW
        ELSE t.falseW + sum(Occurrences(F, TrueLit(s.val, v)), 0)
                      - sum(Occurrences(F, FalseLit(s.val, v)), 1)

(* Mutant: counted from the start of the run.                              *)
NoImproveSinceStart(step, b) == parm.noImprove > 0 /\ step > parm.noImprove

(* CheckNoImprove                                                          *)
NoImprove(step, b) == parm.noImprove > 0 /\ step > b.step + parm.noImprove

(* CheckTermination and CheckTerminationW: -timeout activates the first    *)
(* for all algorithms, and weighted Novelty+ has no other.                 *)
OnTarget(s) ==
    \/ KeepsCost /\ s.falseW <= parm.target
    \/ (~KeepsCost \/ parm.timeout) /\ NumFalse(s) <= parm.target

Restarting == parm.restart > 0 /\ (iStep + 1) % parm.restart = 0

(* A step of the run.                                                      *)
Step ==
    /\ pc = "step"
    /\ InRun
    /\ iStep' = iStep + 1
    /\ \E s \in IF Restarting THEN Starts ELSE {search} :
       \E v \in Picks(F, s, iStep + 1, parm) :
          LET t == [Flip(F, s, v) EXCEPT !.head = NewHead(s, iStep + 1, parm)] IN
          /\ flip' = v
          /\ best' = CheckBestFalse(t)
          /\ track' \in TrackStep(IF Restarting THEN <<>> ELSE track, NumFalse(t),
                                  best'.step = iStep')
          /\ \E p \in PostFlip(t, v) :
                search' = [p EXCEPT !.falseW = FalseWeight(s, p, v)]
    /\ found' = OnTarget(search')
    /\ \E late \in IF parm.timeout THEN BOOLEAN ELSE {FALSE} :
          /\ terminateRun' = (NoImprove(iStep', best') \/ late)
          /\ terminateAll' = (terminateAll \/ late)
    /\ UNCHANGED <<data, runs, pc, startFalse, exitCode>>

(* UpdateBestTrack reads before its array.                                 *)
Crash ==
    /\ pc = "step"
    /\ InRun
    /\ Restarting
    /\ iStep > 0
    /\ \E s \in Starts : \E v \in Picks(F, s, iStep + 1, parm) : NumFalse(Flip(F, s, v)) < best.num
    /\ pc' = "crashed"
    /\ UNCHANGED <<data, runs, search, flip, iStep, found, terminateRun, terminateAll,
                   best, startFalse, track, exitCode>>

(* CalcImproveMean: the numerator, an unsigned difference.                 *)
Improvement == IF best.step = 0 THEN 0 ELSE (startFalse - best.num) % WordSize

(* Mutants: a run counts as one more solution whatever it found; the run   *)
(* is not counted.                                                         *)
EndRunCounts ==
    /\ pc = "step"
    /\ ~InRun
    /\ rows' = Append(rows, [found |-> found, steps |-> iStep, best |-> best.num,
                             start |-> startFalse, improvement |-> Improvement])
    /\ iRun' = iRun + 1
    /\ iNumFound' = iNumFound + 1
    /\ terminateAll' = (terminateAll \/ (found /\ iNumFound' = Find))
    /\ pc' = "run"
    /\ UNCHANGED <<data, search, flip, iStep, found, terminateRun, best, startFalse,
                   track, exitCode>>

EndRunAgain ==
    /\ pc = "step"
    /\ ~InRun
    /\ pc' = "run"
    /\ UNCHANGED <<data, runs, search, flip, iStep, found, terminateRun, terminateAll,
                   best, startFalse, track, exitCode>>

(* RunCalculations, PostRun and the end of the loop over the runs.         *)
EndRun ==
    /\ pc = "step"
    /\ ~InRun
    /\ rows' = Append(rows, [found |-> found, steps |-> iStep, best |-> best.num,
                             start |-> startFalse, improvement |-> Improvement])
    /\ iRun' = iRun + 1
    /\ iNumFound' = IF found THEN iNumFound + 1 ELSE iNumFound
    /\ terminateAll' = (terminateAll \/ (found /\ iNumFound' = Find))
    /\ pc' = "run"
    /\ UNCHANGED <<data, search, flip, iStep, found, terminateRun, best, startFalse,
                   track, exitCode>>

Exit ==
    /\ pc = "run"
    /\ iRun >= parm.runs \/ terminateAll
    /\ exitCode' = IF iNumFound > 0 THEN 10 ELSE 0
    /\ pc' = "done"
    /\ UNCHANGED <<data, runs, search, flip, iStep, found, terminateRun, terminateAll,
                   best, startFalse, track>>

Ended == pc \in {"done", "crashed"} /\ UNCHANGED vars

Next == StartRun \/ Step \/ Crash \/ EndRun \/ Exit \/ Ended

(* The process is not stopped from outside: WF_vars(Next), with its        *)
(* ENABLED, which is true before the end, written out.                     *)
Fairness == []<>(pc \in {"done", "crashed"}) \/ []<><<Next>>_vars

Spec == Init /\ [][Next]_vars /\ Fairness

-----------------------------------------------------------------------------
(***************************************************************************)
(* Properties.                                                             *)
(***************************************************************************)

(* Every variable has its type, and no score exceeds the value with which  *)
(* the scan for the best candidate starts (iBestScore = iNumClause).       *)
TypeOK ==
    /\ pc \in {"run", "step", "crashed", "done"}
    /\ flip \in Indices
    /\ {iRun, iStep, iNumFound, startFalse, best.num, best.step} \subseteq Nat
    /\ iStep <= parm.cutoff
    /\ {found, terminateRun, terminateAll} \subseteq BOOLEAN
    /\ search.val \in [Vars -> BOOLEAN]
    /\ search.numTrue \in [DOMAIN F -> Nat]
    /\ \A u \in Vars : search.break[u] - search.make[u] <= Len(F)
    /\ Len(rows) = iRun
    /\ exitCode \in {0, 10}

(* The incremental list of false clauses is that of the assignment, after  *)
(* any number of flips and for any formula, with literals that occur twice *)
(* in a clause as well (FlipFalseInfo and the other flips).                *)
FalseListExact ==
    /\ search.numTrue = [c \in DOMAIN F |-> NumTrueLit(F, search.val, c)]
    /\ Represents(search.falses, FalseClauses(F, search.val))

(* Where no clause holds a variable twice, the make and break counts are   *)
(* the numbers of clauses a flip satisfies and falsifies, the critical     *)
(* variable of a clause with one true literal is that literal's, and the   *)
(* list of variables holds those of the false clauses.                     *)
CountsExact ==
    Simple(F) =>
        /\ \A u \in Vars :
              /\ search.make[u]  = Unit * Cardinality(Makes(F, search.val, u))
              /\ search.break[u] = Unit * Cardinality(Breaks(F, search.val, u))
        /\ \A c \in DOMAIN F :
              KeepsCrit /\ search.numTrue[c] = 1 =>
                  search.crit[c] = FirstTrueVar(F, search.val, c)
        /\ KeepsVars => Represents(search.vars, {u \in Vars : Makes(F, search.val, u) # {}})

(* The same of the weights: the make and break weights of weighted GSAT    *)
(* and GWSAT and the penalties of SAPS, through smoothing and scaling.     *)
WeightsExact ==
    Simple(F) =>
        /\ \A u \in Vars :
              /\ search.makeW[u]  = WeightOf(search.weight, Makes(F, search.val, u))
              /\ search.breakW[u] = WeightOf(search.weight, Breaks(F, search.val, u))
        /\ search.sum = Total(search.weight)
        /\ KeepsCost => search.falseW = WeightOf(search.weight, FalseClauses(F, search.val))

(* The whole of the incremental state is what its definitions say of the   *)
(* current assignment, whichever flips led there.                          *)
StateExact == TypeOK /\ FalseListExact /\ CountsExact /\ WeightsExact

(* The cost of an assignment that the algorithm descends.                  *)
Cost(val) ==
    IF Weighted \/ algorithm = "saps" THEN WeightOf(search.weight, FalseClauses(F, val))
    ELSE Cardinality(FalseClauses(F, val))

Improving(u) == Cost(Turned(search.val, u)) < Cost(search.val)

StepTaken == pc = "step" /\ pc' = "step" /\ iStep' = iStep + 1 /\ ~Restarting

(* GSAT, HSAT, weighted GSAT and SAPS take the steepest descent while      *)
(* there is one: the incremental scores lead to the best neighbour of all. *)
(* SAPS looks at the variables of false clauses alone and misses none.     *)
DescentOf(u) ==
    /\ u # NoVar
    /\ \A w \in Vars : Cost(Turned(search.val, u)) <= Cost(Turned(search.val, w))

Descent ==
    [][StepTaken /\ algorithm \in {"gsat", "hsat", "gsat-w", "saps"} /\ Simple(F)
           /\ (\E u \in Vars : Improving(u)) => DescentOf(flip')]_vars

(* The algorithms that choose a false clause first flip a variable of it,  *)
(* and so do GWSAT and HWSAT when they do not take the best of all.  A     *)
(* step flips nothing only if no clause is false, if Novelty wants the     *)
(* second best variable of a clause that has one literal, or if            *)
(* WALKSAT-TABU has a clause all of whose variables are tabu.  Weighted    *)
(* Novelty+ may want no variable, too, of a clause without a weight: its   *)
(* scan starts from a score that only such a clause leaves unbeaten.       *)
InFalseClause(u) ==
    \E c \in FalseClauses(F, search.val) : \E i \in DOMAIN F[c] : Var(F[c][i]) = u

StuckOn(c) ==
    \/ algorithm \in NoveltyLike /\ Len(F[c]) = 1
    \/ algorithm = "novelty+-w" /\ search.weight[c] = 0
    \/ /\ algorithm = "walksat-tabu"
       /\ \A i \in DOMAIN F[c] :
             search.change[Var(F[c][i])] + parm.tabu >= iStep'

Walker == NoveltyLike \cup WalkSatLike \cup {"gwsat", "gwsat-w", "hwsat"}

WalkInFalse ==
    [][StepTaken /\ algorithm \in Walker =>
          \/ flip' \in Vars /\ InFalseClause(flip')
          \/ /\ flip' \in Vars
             /\ algorithm \in {"gwsat", "gwsat-w", "hwsat"}
             /\ Simple(F) => DescentOf(flip')
          \/ flip' = NoVar /\ FalseClauses(F, search.val) = {}
          \/ flip' = NoVar /\ \E c \in FalseClauses(F, search.val) : StuckOn(c)]_vars

(* A tabu search flips a variable of the last steps only when it has to:   *)
(* GSAT-TABU when all are tabu, the variables that it never flipped        *)
(* counting as flipped iNumVar steps before the run, and WALKSAT-TABU when *)
(* that breaks no clause.                                                  *)
Recent(u)      == search.change[u] >= iStep' - parm.tabu
JustFlipped(u) == search.change[u] > 0 /\ Recent(u)

TabuKept ==
    [][StepTaken /\ flip' \in Vars /\ JustFlipped(flip') =>
          \/ algorithm \notin {"gsat-tabu", "walksat-tabu"}
          \/ algorithm = "gsat-tabu" /\ \A u \in Vars : Recent(u)
          \/ /\ algorithm = "walksat-tabu"
             /\ Simple(F) => Breaks(F, search.val, flip') = {}]_vars

(* Each algorithm goes only where its kind of search may: down, within the *)
(* false clauses, past what is tabu.                                       *)
MovesAllowed == Descent /\ WalkInFalse /\ TabuKept

(* A run has found a solution exactly when its last step has led to one:   *)
(* by the number of its false clauses, by their cost for the algorithms    *)
(* that keep it, and for those by either under -timeout.                   *)
ByNumber == Cardinality(FalseClauses(F, search.val)) <= parm.target
ByCost   == WeightOf(inst.weight, FalseClauses(F, search.val)) <= parm.target

FoundExact ==
    pc = "step" /\ iStep > 0 /\ (KeepsCost => Simple(F)) =>
        (found <=> \/ KeepsCost /\ ByCost
                   \/ (~KeepsCost \/ parm.timeout) /\ ByNumber)

(* The best number of false clauses is at most the current one, and was    *)
(* reached at the step noted with it, in this run.                         *)
BestAccounts ==
    pc = "step" /\ iStep > 0 =>
        /\ best.step \in 1..iStep
        /\ best.num <= NumFalse(search)
        /\ best.step = iStep => best.num = NumFalse(search)

(* In the course of a run the best number only falls (CheckBestFalse).     *)
BestOnlyImproves ==
    [][StepTaken /\ best'.step # best.step => best'.num < best.num]_vars

(* The track ends with the best solution; an entry is the end of a streak  *)
(* of improvements, so that the next one is not of the following step.     *)
TrackEndsAtBest ==
    pc = "step" /\ iStep > 0 /\ parm.restart = 0 =>
        /\ track # <<>>
        /\ track[Len(track)] = [num |-> best.num, step |-> best.step]
        /\ \A i \in 1..(Len(track) - 1) :
              track[i].num > track[i + 1].num /\ track[i].step + 1 < track[i + 1].step

(* What a run reports of its solutions is what happened in it.             *)
RunExact == FoundExact /\ BestAccounts /\ TrackEndsAtBest

(* A run ends on a solution, at the cutoff, on time, or exactly when the   *)
(* allowed number of steps without an improvement is exceeded.             *)
RunEndJustified ==
    pc = "step" /\ ~InRun =>
        \/ found
        \/ iStep = parm.cutoff
        \/ parm.timeout /\ terminateAll
        \/ parm.noImprove > 0 /\ iStep = best.step + parm.noImprove + 1

(* main ends after all runs, with as many solutions as were asked for, or  *)
(* on time; its exit code is 10 when some run has found a solution.        *)
ExitAccounts ==
    pc = "done" =>
        /\ \/ iRun = parm.runs
           \/ Find > 0 /\ iNumFound = Find
           \/ parm.timeout
        /\ iNumFound = Cardinality({r \in DOMAIN rows : rows[r].found})
        /\ Find > 0 => iNumFound <= Find
        /\ exitCode = 10 <=> \E r \in DOMAIN rows : rows[r].found

(* main ends.                                                              *)
Ends == <>(pc \in {"done", "crashed"})

=============================================================================
