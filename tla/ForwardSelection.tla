-------------------------- MODULE ForwardSelection --------------------------
(***************************************************************************)
(* Forward selection of features (src/src/forwardselection.cc).  The only  *)
(* thing the algorithm sees of the data is the regression sum of squares   *)
(* of the least-squares model over each set of columns: ssr.  It grows     *)
(* with the set and is bounded by the total sum of squares SSt; what it    *)
(* leaves is the error SSe.                                                *)
(***************************************************************************)
EXTENDS Integers, FiniteSets

CONSTANTS
    NumFeatures,  \* columns of the feature matrix (fmatrix->size2)
    RowCounts,    \* the numbers of rows it may have (ovec->size)
    SSt,          \* total corrected sum of squares
    Fins,         \* the thresholds run() may be called with
    Counts        \* the numbers runForBest() may be called with

ASSUME NumFeaturesAssumption == NumFeatures \in Nat \ {0}
ASSUME RowCountsAssumption   == RowCounts \subseteq Nat \ {0}
ASSUME SStAssumption         == SSt \in Nat
ASSUME FinsAssumption        == Fins \subseteq Nat
ASSUME CountsAssumption      == Counts \subseteq Nat

Regressors == 0..(NumFeatures - 1)

VARIABLES
    ssr,            \* the data: regression sum of squares of each model
    observations,   \* the data: number of instances
    place,          \* where the program is
    initRegressor,  \* the regressor with the highest correlation
    mode,           \* "run" or "runForBest"
    fin,            \* argument of run
    nvars,          \* argument of runForBest
    modelSSr,       \* the sum of squares the F test compares with
    isInModel,      \* the set of regressors chosen
    rindex,         \* the regressor the scan is at
    ssrvalues,      \* the regressors the scan keeps as candidates
    regs            \* the result: how often each index occurs in the vector

args == <<ssr, observations, initRegressor, mode, fin, nvars>>
selectionVars == <<args, place, modelSSr, isInModel, rindex, ssrvalues, regs>>

Monotone(f) == \A S, T \in SUBSET Regressors : S \subseteq T => f[S] <= f[T]

(* Mutant: the comparison is the wrong way round. *)
FirstWorst(val) ==
    CHOOSE r \in DOMAIN val : \A q \in DOMAIN val :
        val[q] > val[r] \/ (val[q] = val[r] /\ r <= q)

(* The first index with the greatest value: a strict comparison replaces   *)
(* the best so far only by something better.                               *)
FirstBest(val) ==
    CHOOSE r \in DOMAIN val : \A q \in DOMAIN val :
        val[q] < val[r] \/ (val[q] = val[r] /\ r <= q)

NoRegs == [f \in Regressors |-> 0]

SelectionInit ==
    /\ ssr \in [SUBSET Regressors -> 0..SSt]
    /\ Monotone(ssr)
    /\ observations \in RowCounts
    /\ place = "construct"
    /\ initRegressor = 0
    /\ mode = "run"
    /\ fin \in Fins
    /\ nvars \in Counts
    /\ modelSSr = 0
    /\ isInModel = {}
    /\ rindex = 0
    /\ ssrvalues = {}
    /\ regs = NoRegs

(* The constructor: the squared correlation of one column with the output  *)
(* is the share of SSt its one-variable model explains.                    *)
Construct ==
    /\ place = "construct"
    /\ initRegressor' = FirstBest([r \in Regressors |-> ssr[{r}]])
    /\ place' = "call"
    /\ UNCHANGED <<ssr, observations, mode, fin, nvars, modelSSr, isInModel, rindex,
                   ssrvalues, regs>>

(* Mutant: SSe - SSt. *)
initSSrNegated == 0 - ssr[{initRegressor}]

initSSr == ssr[{initRegressor}]

Start(m) ==
    /\ place = "call"
    /\ mode' = m
    /\ modelSSr' = initSSr
    /\ isInModel' = {initRegressor}
    /\ rindex' = 0
    /\ ssrvalues' = {}
    /\ place' = "while"
    /\ UNCHANGED <<ssr, observations, initRegressor, fin, nvars, regs>>

Run == Start("run")

RunForBest == nvars \in 2..NumFeatures /\ Start("runForBest")

(* The calls of runForBest that return at once.                            *)
RunForBestAtOnce ==
    /\ place = "call"
    /\ mode' = "runForBest"
    /\ \/ /\ nvars = 0                    \* MSZError does not return
          /\ place' = "exited"
          /\ UNCHANGED regs
       \/ /\ nvars = 1
          /\ place' = "done"
          /\ regs' = [NoRegs EXCEPT ![initRegressor] = 1]
       \/ /\ nvars > NumFeatures          \* size2 zeros, then 0..size2-1
          /\ place' = "done"
          /\ regs' = [f \in Regressors |-> IF f = 0 THEN NumFeatures + 1 ELSE 1]
    /\ UNCHANGED <<ssr, observations, initRegressor, fin, nvars, modelSSr, isInModel,
                   rindex, ssrvalues>>

(* Mutant: the scan starts from 1, as the constructor's does.              *)
EnterFromOne ==
    /\ place = "while"
    /\ mode = "runForBest" => Cardinality(isInModel) < nvars
    /\ place' = "scan"
    /\ rindex' = 1
    /\ ssrvalues' = {}
    /\ UNCHANGED <<args, modelSSr, isInModel, regs>>

Enter ==
    /\ place = "while"
    /\ mode = "runForBest" => Cardinality(isInModel) < nvars
    /\ place' = "scan"
    /\ rindex' = 0
    /\ ssrvalues' = {}
    /\ UNCHANGED <<args, modelSSr, isInModel, regs>>

(* fj > fin, without the division: fj = (new - old) / (SSe / rows).        *)
FtestPasses(old, new) == (new - old) * observations > fin * (SSt - new)

With(r) == ssr[isInModel \cup {r}]

(* The regression has as many parameters as regressors, and one more.      *)
TooFewRows == Cardinality(isInModel) + 2 > observations

Scan ==
    /\ place = "scan"
    /\ rindex \in Regressors
    /\ rindex \in isInModel \/ ~TooFewRows
    /\ rindex' = rindex + 1
    /\ ssrvalues' =
          IF /\ rindex \notin isInModel
             /\ mode = "run" => FtestPasses(modelSSr, With(rindex))
          THEN ssrvalues \cup {rindex} ELSE ssrvalues
    /\ UNCHANGED <<args, place, modelSSr, isInModel, regs>>

(* GSL's error handler aborts when there are more parameters than rows.    *)
Abort ==
    /\ place = "scan"
    /\ rindex \in Regressors \ isInModel
    /\ TooFewRows
    /\ place' = "exited"
    /\ UNCHANGED <<args, modelSSr, isInModel, rindex, ssrvalues, regs>>

Choose ==
    /\ place = "scan"
    /\ rindex \notin Regressors
    /\ ssrvalues # {}
    /\ isInModel' = isInModel \cup {FirstBest([r \in ssrvalues |-> With(r)])}
    /\ place' = "while"
    /\ UNCHANGED <<args, modelSSr, rindex, ssrvalues, regs>>

(* Mutant: one regressor too early. *)
FinishEarly ==
    /\ \/ /\ place = "scan" /\ mode = "run"
          /\ rindex \notin Regressors /\ ssrvalues = {}
       \/ /\ place = "while" /\ mode = "runForBest"
          /\ Cardinality(isInModel) >= nvars - 1
    /\ place' = "done"
    /\ regs' = [f \in Regressors |-> IF f \in isInModel THEN 1 ELSE 0]
    /\ UNCHANGED <<args, modelSSr, isInModel, rindex, ssrvalues>>

Finish ==
    /\ \/ /\ place = "scan" /\ mode = "run"
          /\ rindex \notin Regressors /\ ssrvalues = {}
       \/ /\ place = "while" /\ mode = "runForBest"
          /\ Cardinality(isInModel) >= nvars
    /\ place' = "done"
    /\ regs' = [f \in Regressors |-> IF f \in isInModel THEN 1 ELSE 0]
    /\ UNCHANGED <<args, modelSSr, isInModel, rindex, ssrvalues>>

SelectionEnded == place \in {"done", "exited"} /\ UNCHANGED selectionVars

SelectionNext ==
    \/ Construct \/ Run \/ RunForBest \/ RunForBestAtOnce
    \/ Enter \/ Scan \/ Abort \/ Choose \/ Finish \/ SelectionEnded

SelectionSpec ==
    SelectionInit /\ [][SelectionNext]_selectionVars /\ WF_selectionVars(SelectionNext)
-----------------------------------------------------------------------------
SelectionTypeOK ==
    /\ ssr \in [SUBSET Regressors -> 0..SSt]
    /\ observations \in RowCounts
    /\ place \in {"construct", "call", "while", "scan", "done", "exited"}
    /\ initRegressor \in Regressors
    /\ mode \in {"run", "runForBest"}
    /\ fin \in Fins
    /\ nvars \in Counts
    /\ modelSSr \in 0..SSt
    /\ isInModel \subseteq Regressors
    /\ rindex \in 0..NumFeatures
    /\ ssrvalues \subseteq Regressors
    /\ regs \in [Regressors -> Nat]

SelectedRegressors == {f \in Regressors : regs[f] > 0}

(* forwardselection.cc 94, "Current model SSr", says what modelSSr is, and *)
(* 106, "Found regressor to add with fj > fin", what a candidate is: one   *)
(* that passes the F test against the model run() has so far, which it     *)
(* would be added to.  (Line 95 sets modelSSr, and nothing updates it when *)
(* a regressor enters.)                                                    *)
TestedAgainstCurrent ==
    place = "scan" /\ mode = "run" =>
        \A r \in ssrvalues : FtestPasses(ssr[isInModel], With(r))

(* What a correct stop means: no feature left out passes the test run()    *)
(* makes of it.                                                            *)
NothingLeftPasses ==
    place = "done" /\ mode = "run" =>
        \A r \in Regressors \ SelectedRegressors :
            ~FtestPasses(modelSSr, ssr[SelectedRegressors \cup {r}])

(* The two assertions of run and runForBest: the candidates are outside    *)
(* the model, and runForBest, which assert(ssrvalues.size() > 0) guards,   *)
(* always has one.                                                         *)
CandidatesAreNew ==
    place = "scan" =>
        /\ ssrvalues \cap isInModel = {}
        /\ mode = "runForBest" /\ rindex \notin Regressors => ssrvalues # {}

(* runForBest(n) returns n regressors when there are that many.            *)
ExactlyN ==
    place = "done" /\ mode = "runForBest" /\ nvars <= NumFeatures =>
        Cardinality(SelectedRegressors) = nvars /\ \A f \in Regressors : regs[f] <= 1

(* A step adds at most one regressor, never removes one, and no regressor  *)
(* outside the model would have explained more than the one added.         *)
GreedyStep ==
    \A q \in Regressors \ isInModel :
        isInModel' = isInModel
        \/ isInModel = {}
        \/ /\ Cardinality(isInModel' \ isInModel) = 1 /\ isInModel \subseteq isInModel'
           /\ With(q) <= ssr[isInModel']
Greedy == [][GreedyStep]_selectionVars

=============================================================================
