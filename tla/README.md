# A verification development of maxsatzilla

maxsatzilla is a portfolio for MaxSAT. Off line, the **coach** learns from
measured runtimes one model per solver; on line, **furius** computes the features
of an instance, predicts a runtime for each solver and runs the solvers in the
order of their predictions. Many of the features come from **ubcsat**, a suite of
local search algorithms that is linked in as a library and called as
`ubcsat::main`.

This directory holds TLA+ modules that model these programs, TLC configurations
that check them on small instances, and theorems that TLAPS proves for every
value of the constants. Everything is translated from the source; where the source
and its comments disagree, the model does what the source does and a run shows the
disagreement.

    tlc -workers 2 -config MCPortfolio.cfg MCPortfolio     # one run
    tlapm PortfolioProofs.tla                              # one set of proofs

`PROJECT.json` lists the components, the runs, which lines each definition models,
for each property a plausible bug that breaks it (a *mutant*: the operators
commented as such stand beside what they mutate and nothing uses them), the
hazards, the findings and the theorems.


## 1. The system

    measurements, coach.config                          instance (cnf, wcnf, pmcnf)
            |                                                     |
         coach ----> model file ----> furius (main) <---- features program
            |                           |    fork, exec, wait       |
    data set, forward selection,     solvers                 MaxSatInstance
    ridge regression, SVR                                         |
                                                        ubcsat::main, twice

The programs interact through files and pipes (the model file, the features on a
pipe, the converted instance), through processes (furius and its children, which
share a copied stdio buffer at `fork`), and, inside the features program, through
a library whose state is global and survives from one call to the next. msuncore, one of the
solvers, is a Perl program that calls mscore as a process, through files.

| Component (sources under `src/`) | State | Operations | What is hard, and what makes it right |
|---|---|---|---|
| portfolio program, `src/main.cc` | predictions, a map from prediction to solver, an iterator, one child process | rank, fork, exec, wait, fail over, exit | Processes interleave; fork, exec and solvers fail; the buffer is copied at fork. Right: one child at a time, the order of the predictions, no solver lost but to a tie, success only for a reason. |
| features program, `src/features.cc`, `src/MaxSatInstance.cc`, `scripts/pmcnf2wcnf` | counters of clauses, sizes and occurrences | read, sort and simplify each clause, convert a partial instance, two calls of ubcsat | Two readers of one file with different ideas of it. Right: what is counted is in the file; what is searched is the formula; a hard clause outweighs the soft ones. |
| search loop, `ubcsat/ubcsat.cc` | run, step, termination flags, best solution, track | start a run, step, restart, end a run, exit | Boundaries between counters; state left over from a run. Right: runs end for a reason; best and track are those of the run; exit code. |
| search algorithms, `ubcsat/{gsat,gwsat,hsat,...}.cc` | candidate list, ages, scores | choose a variable | Stale candidates, unsigned arithmetic. Right: GSAT goes down when it can, WalkSAT stays in a false clause, tabu is kept. |
| search state, `ubcsat/ubcsat-defaults.cc`, `saps.cc`, `weighted.cc` | true literals per clause, list of false clauses, make and break counts, critical variables, penalties | built once a run, repaired by every flip | Incremental state drifts from what it stands for. Right: it equals its definition after any number of flips. |
| cnf reader, `ubcsat/ubcsat-cnf.cc` | chunks of literals, a pointer per clause | read a clause, move it to a new chunk | A clause on the border of two chunks. Right: the clause that is read is the clause that was written. |
| allocator, `ubcsat/ubcsat-mem.cc` | heaps filled from the front | allocate, give back the end of the last request, free all | Rounding, large requests, giving back. Right: blocks stay apart. |
| reports and statistics, `ubcsat/ubcsat-reports.cc`, `reports.cc` | columns over the runs | per run, at the end | Unsigned differences, fixed array bounds. |
| function registry, `ubcsat/ubcsat-alg.cc`, `ubcsat.cc` | table of functions, dependencies, dispatch lists | register, activate, dispatch | The order of a list follows from who named what first; lists grow while main runs them; a second call in the same process. Right: a function runs after those whose work it reads. |
| coach, `src/coach.cc` | a training and a test data set per solver, the model file | eleven stages, in loops over the solvers | Long protocol with many configurations and stages that fail. Right: test set treated as the training set; the model file describes the model. |
| data sets, `src/dataset.cc` | matrix, outputs, labels, factors | split, remove columns, remove timeouts, standardize, expand | Rows, columns, labels and outputs must move together. |
| forward selection, `src/forwardselection.cc` | the regressors chosen, the candidates | `run(Fin)`, `runForBest(n)` | A stale sum of squares. Right: greedy, stops rightly, as many as asked for. |
| ridge and support vector regression, `src/ridgeregression.cc`, `src/svmregression.cc` | weights | fit, predict | Numerical. |
| timeout manager, `src/timeoutmgm.cc` | the outputs at the limit | fit until the predictions converge | Nothing bounds the repetitions. |
| model files, `src/modelwriter.cc`, `src/modelreader.cc`, `src/mszreader.hpp` | maps by solver | write and read lines | Order of the lines. Right: what is written can be read. |
| configuration, arguments, log, interfaces | | parse, print | Text. |
| maxsatz, `estimators/maxsatz/{maxsatz,input}.c` | clauses with their lists of occurrences, stacks of assigned variables, reduced and replaced clauses, units | read, branch, look ahead, propagate, resolve, take back | Branch and bound on one formula that is changed in place: whatever a branch, a failed value or a lookahead changed must be put back in the right order. Right: at every node the formula is the one of the assignment, and the answer is the optimum. |
| msuncore, `solvers/msuncore/src/*.pm` | initial and blocked clauses, blocking variables, bounds | msu1, msu2, msu3: call the SAT solver, take out a core, block it, constrain the blocking variables | Any core and any model may come back, or none in time. Right: bounds enclose the optimum and meet in it. |
| cardinality encodings, `CARD.pm` | the constraints and the variables made so far | BDDs, sequential counter, pairwise, sorters | Names shared between constraints, special cases at 0, n - 1, n. Right: the clauses admit what the constraint admits. |
| mscore, `solvers/msuncore/extsrc/mscore` | clauses, watches, trail, reasons, trace of antecedents | read, propagate, analyse, learn, jump back, restart, walk the trace for a core | Watches lost by a jump; literals dropped without a reason in the trace. Right: SAT with a model, UNSAT with clauses of the file that are unsatisfiable. |

`PROJECT.json` lists all 32 components with their status. Of the third-party solvers that
the portfolio runs, msuncore is modelled, with the SAT solver it calls; of the estimators of
features, maxsatz. The other solvers (most
of them copies of MiniSat, SatELite and of each other), GSL, libsvm, build files and scripts for
tables are not modelled.


## 2. The modules

Each component has a module of its own with its state as variables and one action
per operation; names are those of the source where TLA+ allows it.

| Module | Models | Used by |
|---|---|---|
| `Failover` | abstract specification: alternatives are tried in order, dropped when lost, and the first answer ends it | refined by `Portfolio` |
| `Portfolio` | `main` of furius and the children it forks | `PortfolioProofs`, `MCPortfolio` |
| `ForwardSelection` | the constructor, `run` and `runForBest` | `CoachProofs`, `MCForwardSelection` |
| `Loops` | lemmas only: least elements, induction up to a number, a loop over a sequence or a sum over a set as the values it goes through | the proof modules |
| `IndexedSet` | a set as a list with the position of each element | `SearchState` |
| `SearchState` | the incremental state of a search and the flip that repairs it | `SearchAlgorithms`, `UbcsatProofs` |
| `SearchAlgorithms` | fifteen algorithms, each as the set of variables it may flip; SAPS's penalties | `Ubcsat`, `UbcsatProofs` |
| `Ubcsat` | one call of `ubcsat::main` | `UbcsatProofs`, `MCUbcsat` |
| `DataSet` | the operations of a data set | `Coach` |
| `Coach` | the coach, from the configuration to the test of each model, with the model file | `CoachProofs`, `MCCoach` |
| `Registry` | the table of functions of ubcsat, activation, and the dispatch of `main` | `MCRegistry` |
| `Heap` | the allocator | `Instance`, `InstanceProofs` |
| `Instance` | the features program: the counting constructor, then both calls of ubcsat up to the search, with `ReadCNF` and the heap | `InstanceProofs`, `MCInstance` |
| `Cnf` | clauses, literals, assignments, what satisfies what | the five below |
| `BoundSearch` | abstract specification: a lower and an upper bound close in on the optimum, and the answer is the optimum | refined by `Msu` |
| `Cardinality` | what each encoding of a cardinality constraint accepts, refuses and admits | `Msu`, `Encoders` |
| `Encoders` | the clauses of each encoding, gate by gate | `Card` |
| `Solving` | a procedure that decides whether clauses can be satisfied, for the properties of `Card` only | `Card` |
| `Card` | a process that asks for one constraint after the other | `CardProofs`, `MCCard.cfg` |
| `Msu` | msu1, msu2, msu3, from the file to the answer | `MsuProofs`, `MCMsu` |
| `SatOracle` | abstract specification: the right answer, with a model or a core | refined by `Mscore` |
| `Mscore` | the SAT solver from the file to the answer, with its trace and its core | `MscoreProofs`, `MCMscore` |
| `Maxsatz` | the branch and bound with its lookahead | `MCMaxsatz` |

How they fit: `Coach` composes `DataSet` with what `ForwardSelection` may return
(`Selections` lists the results of the code as it is,
and `SelectionFits` is the proof); `Ubcsat` composes `SearchState` and `SearchAlgorithms` with the loop of
`main`; `Registry` shares with `SearchState` the list of what each algorithm keeps, and its
property says that the functions an algorithm names keep that; `Instance` composes the
constructor, the converter, `ReadCNF` and `Heap`, and
leaves the runs to `Ubcsat`; `Portfolio` takes predictions as a free function, the
abstraction of features and models. `Msu` takes any core and any model a SAT solver may
return, which is what `SatOracle` promises and `Mscore` is proved to keep; and it takes from
`Cardinality` the constraint that the clauses of an encoding stand for, which is what `Card`
is checked against and what the clauses in `Encoders` are proved to mean.

### Portfolio

`pc` is where `main` is; `child[s]` is the process forked for solver `s`; `pending` is
the set of processes whose stdio buffer holds the report, since a child copies the
buffer at `fork` and an `execv` that succeeds discards it; `lost`, `reason` and
`reports` are observations. A solver is the rank of its name, as `std::map` iterates
by name. `Display` is one turn of the loop that enters a solver into
`map<double, string>`, where an equal key replaces the solver, and a NaN key is
equivalent to all (`Slot`). `Fork`, `ForkFails`, `Exec`, `ExecFails`, `SolverExits`, `Signal`
and `Reap` are the process steps. A failed `fork` is `-1`, which the code takes for a
parent with a child: `wait` fails and the status it looks at is uninitialized, so
either branch follows. A child whose `execv` failed exits with success, so `main` takes it
for a solver that terminated.

### ForwardSelection

Its state is told from the coach's by name: `place` is where the program is, `observations` the number of
rows, and `SelectionInit`, `SelectionNext`, `SelectionSpec` the specification.
The data enter as one function, the regression sum of squares of each set of columns,
monotone and bounded by the total. One action is one turn of the scan over the
regressors (`Scan`), the choice at its end (`Choose`), or a return. `FtestPasses` is the
F test without the division. `Abort` is GSL's error handler for a regression with
more parameters than rows.

### IndexedSet, SearchState, SearchAlgorithms, Ubcsat

`search` is the record of the arrays ubcsat keeps (`numTrue`, the false list with its
positions, `make`, `break`, `crit`, weights, `change`). The six flip procedures of the
source are one loop with different statements, and here one operator `Flip`, in which
a part that the algorithm does not keep never changes. Each algorithm is the set of
variables it may flip in a state: random numbers are choices, and a comparison of
probabilities is a disjunction. `Step` is a whole turn of `main`'s inner loop:
restart, choice, flip, `CheckBestFalse`, track, post-flip (ages, penalties), the weight
of the false clauses, termination — in the order of the dispatch lists, on which the
outcome depends (the best weight is compared before the weight is updated).
`Starts` are all assignments `InitVars` may draw.

### DataSet, Coach

A cell of the matrix is abstracted to what the properties can tell apart: which raw
columns are multiplied in it and with which factors each was scaled; a value matters
only in whether it varies over the rows. `rows` and `out` are the instances a row and
an output belong to, so that a misalignment is visible. `pc` and `solver` walk through
the loops of `coach.cc`; the model file is a sequence of lines. A step that
fails — a null test set, an assertion, an index past the end — ends in `failed`,
`aborted`, `crashed`, or `undefined` if the program may survive it.

### Heap, Instance

A file is a sequence of lines; the readers see it as tokens, a number being one token
until somebody takes its first character away, which is what both readers do when
they look for a comment (`Bite`). `ReadClause` is a turn of the constructor's loop
with the sorting of `isTautologicalClause`; `ReadSearchClause` is a turn of `ReadCNF`'s,
with `Store` for `*pNextLit++`. `blocks` in the heap is not in the code: it is what
the callers rely on.

### Registry

The code knows of each function a name, a phase, the names it depends on and a pointer. What a
function reads and writes is read off its body, and is here part of the table: `needs`,
`follows` (what it carries on from the step before) and `gives`. `Activate` is
`ActivateFunction` with `ParseItemList`; `SetUp` is the one place where the lists grow while
`main` runs them, which is why the loop looks at the length in each turn. `fresh` and `behind`
are observations: what is valid, and what was before the flip.

### Cardinality, Encoders, Card, Msu

A clause of `Msu` is its literals, its type and its blocking variables; the sets are those of
`CLMSET`. One action is one call of the SAT solver with all that follows from it (`Solve`), or
such a call that runs out of time (`Timeout`); which core and which model come back is a
choice among all that are correct. A constraint is a record of operator, variables and bound.
`Encoders` makes each encoding's clauses: the gates, the BDDs with their node variables, counters
and pairs, the odd-even merge sorters, the special cases. The recursion of a sorter is a recursive function of
the logarithm of its size; a variable it makes (`gen_id`) is named for the call and the path of
recursive calls that made it. `Card` adds the process and its counter `nconstr`. A request is one that msuncore can make.

### Mscore

The state is MiniSat's: `trail`, `level`, `reason`, the lists of watches in the order the
solver walks them, the learnt clauses, and the proof logger's antecedents. An action is one clause
of the file (`ReadClause`), one turn of `propagate`'s loops, one step of `analyze`, a backjump with
the learnt clause, a restart, a decision, and one step each of the two walks through the
trace. Activities are abstracted to a choice of the next variable among those the heap may hold; `reduceDB`, `simplifyDB` and
assumptions have no caller in this program.

### Maxsatz

`f` is the record of what is put back when the search backtracks: states of clauses and
variables, lengths, the lists of occurrences and the stacks. One action is one step of `dpl`'s loop: a
turn of the loop over the variables (`Inspect`: the failed values and the choice of the branch), a branch, a
bound that is reached, a backtracking. `PopNothing` is `backtracking` with nothing assigned, which
reads before its stack. The formulas that weigh variables are a choice. Sizes of tables, the
width of the counters (`signed char`), the alarm and empty clauses are left out.


## 3. The runs

Bounds are small, but every action and every disjunct of the next-state relations
happens in the passing runs.

| Run | Bounds | States | What it shows |
|---|---|---|---|
| `portfolio` | 3 solvers, predictions 1, 2 or NaN, all sets of configured solvers, terminal or file | 8,504 | Ties only lose a solver (`LostOnlyToTies`); one child at a time, none left behind (`OneChildAtATime`); `ExitTells`: exit with success only when pretending, after an answer, after a failed fork, or when all were killed, and the report is printed once, and once more per child whose `execv` failed unless on a terminal; refinement of `Failover`; termination unless a solver hangs. |
| `selection` | 3 features, 3 or 4 rows, every monotone sum of squares up to 3, thresholds 0, 2 and 7, counts 0 to 4 | 426,245 | Nothing that `run` leaves out passes the test it applies; `runForBest` returns as many as asked for; both greedy. |
| `search` | 3 variables, 3 or 4 clauses from a pool of 8 (unit clauses, a literal twice, a literal with its negation), every start, 15 algorithms, up to 5 steps and 3 runs, restarts, targets, time limits, solve modes, tabu 2 and 3, noise below, at and above a half; weights 1 to 4, and clauses, or all of them, that weigh nothing | 70,802 | `StateExact`: the incremental state is that of the assignment after every flip (false list, counts, weights); `RunExact`: what is found, the best solution and its track are those of the run; runs and the program end for a reason; `MovesAllowed`: GSAT, HSAT and SAPS take the steepest descent, the WalkSAT family stays in false clauses (or, weighted, has one without a weight), tabu is kept; termination. |
| `registry` | 16 algorithms, the two pairs of calls the features program makes, all reports at once with a restart, other columns, statistics and orders, up to 2 runs and 2 steps | 20,503 | `FunctionsServed`: in the order that names produce, every function finds what it reads up to date, but for two omissions; nothing is activated for a phase that has passed; nothing is left from the call before; each algorithm keeps what `SearchState` says it keeps. |
| `coach` | 2 solvers, 2 features, 7 instances, test shares 0, 33, 60, 101, with and without standardization, all selections, expansions of order 1 and 2 with and without partitions, both learners, four sets of values, timeouts of none, some or all instances | 110,683 | The split is exact and rows keep their outputs; labels tell the cells when there are no partitions; test and training set have the same columns and factors at every stage; the file describes the model; a sound input succeeds. |
| `coach_rows` | no test set, every set of timeouts of a solver | violated | rows of timeouts go, their outputs stay. |
| `instance` | 2 variables, chunks of 3 literals, heaps of 24 bytes, at most 6; every file of up to two lines (three for a smaller choice of clauses) in the four formats | 21,909 | Counts are those of the file, hard and soft told apart where there is no soft section; the search has the clauses of the file, through chunks and copies, but for the first of a `cnf` file; hard clauses outweigh all soft ones; heap blocks stay apart; the program ends unless it looks for its header for ever. |
| `instance_reads` | `cnf` files | violated | the first character of the first clause is lost. |
| `msu` | files of up to five clauses over 2 or 3 variables in three formats, up to four soft clauses falsified, lines and markers twice or missing, the encodings that matter, `-q`, `-m`, `-T`; any correct core and model | 5,118 | `ReportsTrue`: the answer is the optimum of the file, an interval contains it, a failure has a reason; no clause is lost or changed on its way through the sets; refinement of `BoundSearch`; termination. |
| `encodings` | every sequence of 2 requests over up to 6 inputs | 2,295 | `RequestsServed`: the clauses of an encoding admit exactly what the constraint admits, two requests share no auxiliary variable, and the program dies on exactly the requests counted as refused. |
| `mscore` | 20 files of up to 8 clauses over 4 variables, restart after each conflict | 147,203 | `SolverConsistent`, `PropagationComplete` (nothing that a clause forces is missed), `TraceSound` (what is learnt follows from the file, by the trace), refinement of `SatOracle`, termination. |
| `maxsatz` | 6 files of up to 12 clauses over 5 variables, bounds 1, 3 and the number of clauses, both values or one | 18,467 | `FormulaExact`: at every node each clause is what the assignment left of it and the falsified ones are counted, whatever was looked ahead, replaced and put back; `FindsBest`: it ends with the optimum, or with the bound if nothing is better. |

Why the bounds are enough. Portfolio: three solvers give a tie, a loss and a third to
go on with, in every order. Selection: with three features, the turn after
the first choice is not the last one. Search: a clause with three literals
goes through 0, 1, 2 and 3 true ones; the interesting transitions of
the counts are those between 0, 1 and 2; five steps leave every neighbourhood of a
three-variable formula and outlive the tabu of 2 and 3. Registry: two steps show what was
repaired after the first, the restart comes in the second, and a second call shows what is left
of the first. Coach: seven instances split
by 33 give test rows at 0, 3 and 6 with training rows between them; two features give
a product. Instance: a clause of four literals is longer than a chunk, one of three
fills it, and two clauses meet its border at every offset. Msu: cores follow on cores, a clause
is in several of them, and models come before, between and after cores. Encodings: bounds of
0, 1, n - 1 and n, and three to six inputs rounded up to four and eight. Mscore: conflicts
follow on conflicts, backjumps leave several levels, units are against each other and against what
follows from them. Maxsatz: chains of units and pairs meet, values fail,
clauses are resolved, cancelled and replaced twice, and the bound is reached with and without a
decision to go back to.

Bounds in the modules: `WordSize` (2^32 in the code; small here, so that a wrap is
seen), `MaxPenalty` (above which SAPS rescales), `WalkPeriod` (R-Novelty's 100 steps),
`Alpha` (SAPS's factor, an integer here), `ChunkLits` (LITSPERCHUNK), `DefaultHeapSize`,
`MaxHeaps`; the cutoff in steps bounds every run of a search. `MaxCores` stands for the endless first loop of
msu3, `Infinity` for the cost where nothing satisfies the hard clauses, `MaxInputs` and `MaxRequests` for what is
asked of the encodings, `RestartAfter` for mscore's 100 conflicts. Deadlock is checked, the
ends of a program being explicit stuttering steps, but in `encodings`, which stops after its
requests, and in `mscore`, which stops with its answer.

### Fairness

- `Portfolio`: weak fairness of `main`, and of a child between `fork` and `execv`: the
  kernel schedules both. None of a running solver: nothing bounds its time, and
  `EndsUnlessSolverHangs` says so.
- `Msu`: weak fairness of `Start \/ Solve`: the SAT solver answers, which `Mscore` is shown to.
  None of `Timeout`.
- `ForwardSelection`, `Coach`, `Ubcsat`, `Instance`, `Mscore`, `Maxsatz`: weak fairness of the next-state
  relation: one sequential process that nobody stops. Where the step is defined with
  folds, `WF_vars(Next)` is written out as
  `[]<>(ended) \/ []<><<Next>>_vars`, the same formula with ENABLED replaced by what it
  amounts to, as every state that has not ended has a step.


## 4. What is proved

The proofs are about the same modules, for every value of the constants that
satisfies the named ASSUMEs, and use nothing unproved. 38,405 obligations, of which
8,372 are about the encodings of msuncore and 3,607 about its algorithms, 7,579 about the
reading of an instance, 7,115 about the search of ubcsat, 6,179 about the coach and forward
selection, and 4,255 about mscore.

**`PortfolioProofs`.** The inductive invariant `IInv` adds to the type invariant:
`NothingYet` (before the loop nothing was forked), `Waiting` (in `wait` exactly the child of
the current solver is unwaited for, otherwise none), `Ranking` (each solver entered so far has its prediction among the
keys, and the solver kept for it is itself or a later one), `NaNAlone` (a map with NaN holds nothing else) and `Passed` (what the iterator has
passed was killed or lost). None of the properties is inductive alone: that only
one child is alive needs that `main` forks only when there is none; that the best goes
first needs that what was passed is accounted for.
A second invariant, `Told`, says where the report is at each moment (`Buffered`: printed, in main's
buffer, or in the copy of the one child that has not replaced its image yet) and what became of
the solvers that were passed (`Accounted`, which unlike `Passed` holds with NaN too).
Theorems: `TypeCorrect`, `TiesOnly`, `SingleChild`, `PredictedOrder` (`BestFirst`: a solver
starts only when for each smaller prediction the solver kept was lost), `CallerIsTold`
(`ExitTells`: exit code and output), and
`Implementation`: the portfolio implements `Failover` with `todo` for
`remaining` and `Phase` for `phase`.

**`UbcsatProofs`.** First, what a flip of ubcsat repairs is exact, for every formula; where a
clause names a variable twice, break counts and weights are bounded by the sums, which is what the code keeps. `Exact` says what the state is: `Numbers` (true
literals of each clause), `CritOK` (the critical variable of a clause with one true literal is that
literal's), and `Consistent`, the part that survives in the middle of a flip: the list of false
clauses, the make and break counts as sums over the clauses of what each contributes
(`MakeOf`, `BreakOf`), the list of variables as those with a make count. `FlipKeepsExact` goes
clause by clause. While the clauses of the literal that becomes false are repaired (`Losing`), one that
holds it twice may be left with one true literal that is nobody's any more: the break counts are
sums but for the set `X` of these (`Doomed`), which is empty before and after. Then the clauses of the other literal
follow (`Gaining`). `Added` and `Dropped` are the steps of the two
lists, `InitIsExact` is the start, `PostFlipKeepsExact` the scaling, smoothing and rescaling of
SAPS, whose changes of the variables' penalties are shown to add up to the new sums. `ExactCounts`
leads from sums to what a reader means: in a formula whose clauses name no variable twice (`Simple`), make
and break are the clauses, and weights, that a flip satisfies and falsifies. Folds stand for the loops of the
code; `Loops` gives for each the function from the number of turns to the state after them, and a
property of all turns is shown by induction on that number (`UpTo`, which takes a set where a
predicate would be an operator parameter). Next comes where each algorithm goes: a score
is the difference of cost (`ScoreIsGain`), so that the least score is the steepest descent, and the
scan of Novelty never leaves its clause without a best variable.

Then the control of `main`, independent of what the search does:
`IInv` is `ControlOK` (types of the counters), `RunOn` (what holds while a run goes on),
`Counted` (solutions found against runs) and `Told` (the exit code). Theorems:
`RunsEndRightly`, `ExitsRightly`, `BestImproves`. Last, the search itself. `SInv` is `CallOK` (the call is one of
those allowed), `Typed` and `Whole` (the state is `Exact`, its weights are summed up, and the cost of weighted
algorithms is that of the false clauses); `StateIsExact` states that in every reachable state `StateExact` holds.
`RInv` is `FoundOK`, `BestOK` and `TrackOK`, which tell of the report that it follows the assignments the
run has visited, and `RunIsExact` is its consequence. `MovesRightly` (`MovesAllowed`, an action
property) follows from `SInv` alone: an algorithm goes where its scores lead, and they are exact.
The assumptions are those on the constants: at least one variable, formulas with at least one
clause and none that is empty, weights that are naturals, and room in the candidate array for every variable
(`InstancesAssumption`), settings of the right types (`SettingsAssumption`).

**`CoachProofs`.** For every number of solvers, features and instances, every configuration
and all values. `TestLikeTraining`: the test set has the columns and factors of the training set
at every stage, as long as both sets lose the same harmful columns. The invariant `IInv` is
`Shape`, `NotYet` (stages not reached), `Records`, `Fresh` (what a set not yet standardized looks
like) and `Mirror`. `SplitIsExact`: the two sets of a solver hold its usable instances once, in
the order of the file, each row beside the output of its own instance, from the moment they are
made to the end. What `Chosen` takes out of a sequence is led back to `Loops` (`ChosenIs`,
`ChosenSorted`), and so is an expansion over several partitions (`ExpandLoop`); the invariant
`RInv` adds to the types that data sets are made in turn (`MadeInTurn`), that those of a test are there with
the others (`Wholes`), and `Splits`, which holds only with a test set: without one
`removeTimeouts` parts rows from outputs, as the run `coach_rows` shows. That what a selection names are columns
(`SelectionsAreColumns`) needs the columns to be a sequence after every expansion,
hence `CombinationsType`. `SoundSucceeds`: where `Sound` holds of every solver, no stage ends the
program at a fault. `SoundInv` says what is sure along the way (`Progress`): until a solver's features are selected
its training set has the columns that were not harmful, none of them null or constant (`Ready`);
after that it still has the columns that the expansion and the second selection ask for
(`Least`), none null, as a selection names columns in ascending order (`SelectedInOrder`,
`KeepInOrder`) and an expansion only adds some (`ExpandSturdy`). What the test set does follows from `Mirror`, how
many rows there are from `Splits`. `LabelsAreTold` and `ModelIsWritten`: without partitions the
label of each column tells what its cells are, and for each solver whose model is written the file holds
what `ModelMatches` says, with partitions too. Their
invariant `MInv` tells of each solver (`Tale`) the lines in the file (`Noted`) and the columns (`Columned`): until its features are standardized
every column is a single feature (`Single`), so that its own label finds its own factors (`OwnScale`);
afterwards all cells are made of features whose factors are in the file (`Known`), which selections and
expansions keep (`RemoveAmong`, `ExpandTold`), and the record of a column's cells is its label
with each feature put beside its scale (`Matched`, `Lift`). That a product's label and cells stay
so is that `Lift` goes through the sums of bags (`LiftAdds`, `LiftJoins`); it fails with
partitions, as the label is then found without the partition, hence the premise. That a label gets one weight is
`DistinctIs`. Assumed of the constants: the fields of an input have their types
(`InputsAssumption`), there is a solver, the features are a sequence.

**Forward selection, in `CoachProofs`.** The key lemma is `GreaterPasses`: with a fixed old value
the F test is monotone in the new sum of squares. As `modelSSr` is never updated
(`FixedSSr`) and the sums of squares grow, once a candidate passes all later ones pass
(`ThenAllPass`), so that `run` stops at one feature or at all (part of `Returned`). That is what the
stale value does, not what the selection promises: see `TestedAgainstCurrent` in section 5.
`StopsRightly`, `AssertionsHold` (the two `assert`s), `ReturnsAsMany`, `GreedySearch`
and `SelectionTypeCorrect` follow from the same `SelectionIInv`, which also says when rows suffice
(`Room`) and what was returned (`Returned`).
`SelectionFits` composes the two modules of the coach: run on a whole data set without null columns, as
the configuration says, forward selection returns a vector that `Selections` lists, or ends
the program as `SelectionStops` says, so that what `Coach` takes from it is what the code does.
The invariant `AnswerInv` adds to `SelectionIInv` when there are rows enough (`EnoughRows`), and what is left at the
end (`GivesUp`, `Answers`); a set of columns is an increasing vector (`Listed`).

**`InstanceProofs`.** For every set of files, size of a chunk, of a heap and number of heaps.
The allocator first. `Allocated`: a request of any size gets bytes no other block has.
`Adjusted`: giving back the end of the last request touches no other block, if the last
block is that request's (`LastIsLast`) — the premise is missing when no literal was read,
and then blocks do overlap. That blocks are apart is not inductive: a new block
could lie in the padding of another. `InOrder`, that within a heap each block begins
behind the end of those before it, is. `KeptIfWellFormed` leads back to `BlocksKept`.

Then the two readers and the program around them: `HeapStaysSound`, `SearchReadsExactly` and
`HardWeighMore`, from an invariant `IInv` in parts:

- `Types`, with the sums of each heap (`Sums`: what is used and what is free is its size);
- `Counting`: while the constructor counts, its stream is at a line (`Lined`), and it has never read
  more clauses than it still takes the file to have, as a tautology lowers that number;
- `Holding`: once a literal was stored there is a chunk, and the heap is one of `GoodHeaps`, which
  `Allocated` and `Adjusted` keep so; `Chunked`: no chunk is longer than `ChunkLits`, or a clause is;
- `InFile`: `ReadCNF` is `Somewhere` in the text: at the end of a line or behind it, with just the
  clauses above that place read; and the last request is the one for its last chunk, unless it has none;
- `HasRead`: each clause read is `Stored` where `at` and `len` say, and has its weight.

None of the properties is inductive alone. That a turn takes one line is `Turned`, by where its
`Bite` falls: on the line feed of the line above, on a space, or on the first character of the
first clause of a `cnf` file, which is the clause that `Exact` leaves out, or on the 0
of an empty one, which takes the next line with it. That a clause is kept whatever
chunks it crosses is an induction over its literals (`Writing`: what is written so far is the end
of the last chunk), and that later ones leave it in place is `Grown`.
`HardWeighMore` then needs that the converted file has the soft clauses first, each of weight 1,
and that the sum of their weights is their number. Assumed of the constants: `FilesAssumption` (lines have
their fields, literals are of the variables, sections are in `pmcnf` files only), at least one literal
in a chunk, at least one byte and one heap, 1 to 9 variables. TLC checked `IInv` on the run `instance` before it was proved.

`CountsTruly` is about the constructor, of `Tame` files: `cnf` and `pmcnf`, no comments, a clause between any two
sections, which are the ones `CountsTrue` speaks of. Which clauses are hard it tells only of files without a
soft section: with one the code miscounts (`HardCounted`, section 5). Its invariant `CountsSoFar`: what is counted is that of the clauses above the place
where the reader is (`Tallied`), and the clauses that are still thought to come are those below it and no
more. What a clause adds rests on the loops of `isTautologicalClause`: the
rows that are done hold smaller variables than all behind them (`Rising`, `RowDone`), and the literals are the same set,
each turn, also when a redundant literal is replaced by the last one, which has to be compared
again (`PairShortened`). Each turn takes the loops on (`Progressed`), so that with n literals they have ended after n(n + 1)
turns (`SortingEnds`): sorted, each literal once (`SortedIs`), hence as many as the clause has members
(`InOrderIs`). TLC checked this invariant too.

**`MscoreProofs`.** For every set of files. `AnswersAreRight`: mscore implements `SatOracle`,
so that what `Msu` takes from a SAT solver is what this one gives: a model of the file, or a
core of clauses of the file that no assignment satisfies. `SolverIsConsistent`,
`LearntClausesFollow` and `NothingIsMissed` are the three invariants of the run. The inductive invariant is
in parts: `SolverInv` (the types; `Watching`: a clause is in exactly the lists of its two watches;
`Assigning`: the trail, its levels and reasons; `Walking`: the list that is being walked;
`Phases`; `Queueing`), from which a learnt clause is seen to have exactly one literal of its level;
`TraceInv` (what is resolved follows from the clauses it came from: `Resolution`); `WalkInv`
(`Counting`, `Traversing`, `Collected`: the counts of dependents reach zero exactly when a clause has been
seen from all of them, so that nothing the last conflict needs is left out); and `PropInv` (`Covered`:
if one watch is false, the other is true since that level or before, which is what a backjump
needs to keep: without it a watch that became false earlier than the other became true would be
missed after it). That no assignment satisfies the core is shown by its least unsatisfied
clause: it has antecedents, all of them earlier.

**`MsuProofs`.** msu1, msu2 and msu3 on every file, with every command line, and whichever cores and
models the SAT solver returns. The argument is about the assignments of the hard clauses
(`HardModels`). Each has a cost, the soft clauses it falsifies (`Missed`), and the invariant says of
every one of them what the constraints collected so far still let it do with the blocking variables.
`ReportsTrue` is far from inductive: a wrong constraint would be noticed only when a later model
or core is found. The parts of `IInv` are

- `KeptInv`: the clauses at work, without blocking variables, are those of the file, each once; the
  blocking variables of a clause are numbered without a gap, so that the next one is new;
- `ShapeInv`: where clauses are in each phase (nothing in `blkclset` in msu1, one blocking variable
  for each blocked clause in msu2 and msu3, disjoint cores in `coreset`);
- `Msu1Inv`: what the constraints allow uses no more blocking variables than cores were found;
  and every assignment can use some, never two of one clause, so that the clauses left falsified and the
  cores together are its cost. A new core holds a clause that is left, which can be given the
  new variable of that core (`Msu1Witness`, `Msu1UnsatKeeps`);
- `Msu2Inv`: an assignment falsifies as many blocked clauses as there were cores and meets the
  constraints, or is no better than the best model so far;
- `CoresInv`, `Msu3Inv`: one falsified clause in each of the disjoint cores, then as many falsified
  blocked clauses as the bound says. A new core holds a falsified clause of every assignment that
  meets the bound, and only those that meet it need one;
- `BoundInv`, `ReportInv`: what follows for the bounds and for the report, and `StartInv`.

TLC checked `IInv` on the instance of the run `msu` before it was proved. Theorems: `ClausesAreKept`,
`BoundsAreHeld`, `ReportsAreTrue`, `ClosesInOnOptimum` (`msuncore` implements `BoundSearch`).
Assumed of the constants: lines have the fields that the parser reads (`FilesAssumption`), options are those
of the command line (`OptionsAssumption`), `Infinity` is above the number of lines and above
`MaxCores` (`CountsAssumption`). That the solver's cores are cores is part of the model (`Cores`), and what
`SatOracle` promises. `ReportsTrue` leaves out what does not hold: msu1's interval, and files that are not `Tidy`.

**`CardProofs`.** The clauses of `Encoders` mean the constraint, which `Msu` takes from
`Cardinality`, for every number of inputs and every bound. A process is a sequence of requests, numbered as
`Card` numbers them (`Served`). An assignment is a set of true variables, and a node of a BDD, at level
`l` with `p` true inputs above, is to be true when `p` and the true inputs from `l` on are as many as
the constraint wants. That is what a solution must give every node that matters, from the last level up
(`AtMostSound`, `AtLeastSound`: with implications only, a true node suffices, one path down at a
time), and giving exactly this to every node, and to the counter's ids whether one input up to theirs is true,
is a solution (`AtMostComplete`, `AtLeastComplete`, `CounterComplete`).

A sorter is shown to sort by counting: under an assignment that obeys its gates, a list of wires is sorted
when its true wires come last, and then how many are true (`Trues`) says all of it. The odds and evens of two
sorted lists are sorted and hold as many true wires up to two (`TruesHalves`), which is what the last stage of
comparators repairs (`ComparedSorts`), so that a merge of sorted lists is sorted (`MergeSorts`), a sorter
sorts (`SortSorts`), and the outputs that are forced to be false bound the inputs (`SorterMost`). That any values of the
inputs can be extended to the gates needs an order in which they are computed: `Circuit` says that each
comparator's outputs are new and its inputs were made before, which the paths in the names give
(`SortCircuit`, `CircuitExtends`, `CircuitApart`). The recursive functions are led back to `Loops`: such a
function exists (`RecursionExists`, from its initial parts, where each number has a set that its
value lies in), and hence the one that is defined satisfies its equation (`MergeDefined`, `SortDefined`). Theorems:

- `EncodingsExact`: the clauses of any requests of one process have a solution over given inputs exactly
  when the inputs meet every constraint;
- `ClausesDistinct`: no clause on an auxiliary variable is in two gates, so that `add_cl`, which ends the program on
  a clause it has seen, never does so. Each clause of a gate is on the gate's own node, and on no node but those
  one level further down; a comparator's clauses are on its own outputs;
- `RefusalsExact`: the program dies on exactly the requests that `Cardinality` says it refuses;
- `RequestsAlwaysServed`: `CardSpec => []RequestsServed`, the property of the run `encodings`, for any number of requests
  over any number of inputs. Its invariant `CardInv` is that a state is what serving some requests has
  made (`Serves`). The property asks `Solvable` whether there is a solution; that this procedure is right
  of finitely many clauses (`SolvableIs`) is an induction on the number of literals: what is left
  when the unit clauses are true, or when a literal or else its opposite is, has a solution exactly when the clauses have one
  (`GivenSatisfiable`), and has fewer literals (`GivenLess`). The gates are finite sets
  of clauses over the names there are (`TidyGates`).

### Only model-checked

Liveness (`Ends`, `EndsUnlessSolverHangs`) and all that needs ENABLED, hence `FindsBest` as
well; and `FunctionsServed` and `FormulaExact`. `FunctionsServed` is about the one table of functions that
ubcsat has, which a run goes through entry by entry; `FormulaExact` needs induction over data that
is computed by recursion. The modules of both declare RECURSIVE operators. `BestFirst` and `BestOnlyImproves` are the other way round: proved, and
not checked by a run of their own, since `ImplementsFailover` or a theorem says more.


## 5. Where the code disagrees with itself

Two are runs that find a violation; `PROJECT.json` quotes the lines.

- `dataset.cc:439`: `removeTimeouts` compacts the rows and leaves the outputs (`coach_rows`).
- `ubcsat-cnf.cc:123`: the first character of the first clause of a `cnf` file is lost
  (`instance_reads`).

For two more the modules state what the source says, and TLC finds it violated, with a trace, when asked
with the `.cfg` named. No passing run and no theorem claims the opposite.

- `forwardselection.cc:95`: `modelSSr`, "Current model SSr" (line 94), stays that of the first regressor, so
  that `run` returns one feature or all of them. `TestedAgainstCurrent`
  (`tlc -config MCForwardSelectionCurrent.cfg MCForwardSelection`): after the second feature a third is a
  candidate that does not pass the test against the model it would join.
- `MaxSatInstance.cc:81`: the word read at a section line is its "p", so the branch for "soft" (83-86) is never
  taken and "Number of Hard Clauses: " (226) is that of all clauses. `HardCounted`
  (`tlc -config MCInstanceHard.cfg MCInstance`): a hard and a soft clause count as two hard ones.

Other behaviour the models reproduce, and properties of the passing runs allow for by name,
that a reader may not expect:

- Portfolio: a failed `fork` may be taken for success or for a solver that was killed.
- Features: weights of a `wcnf` file are counted as literals, beyond the end of
  the arrays; a comment in the body of a `cnf` file becomes an empty clause; a `wpmcnf` file, and a
  file without clauses, hang `ReadCNF` in the search for its header.
- Coach: a share of the test set over 50 % puts every usable row there; a share of 0 ends in a
  null pointer at the latest when the first model is tested (the repository's TODO
  names it); constant columns are dropped from the two sets independently, and factors are then looked up
  past the end of a vector; labels of products use `ind`, cells `pvec[ind]` (`dataset.cc:376`); no line
  creates the model in the reader before its weights (`coach.cc:253`).
- Search: GSAT-TABU flips a stale candidate when every variable is tabu; R-Novelty's unsigned
  difference makes a choice certain that should be random; the best weight lags a step;
  a target is tested only after a flip, so a run that starts on a solution moves away; the mean
  improvement is an unsigned difference, near 2^32 for a run that starts better than
  everything it visits (`ubcsat-reports.cc:81`); `-timeout` activates the test by number for the
  weighted algorithms too, so that a target that is a cost is reached without
  (`ubcsat-defaults.cc:211`).
- Registry: weighted `novelty` names `PickNOVELTYW`, which nobody registers, so that the program
  exits; weighted `novelty+`, the first the features program calls on a partial instance, is
  registered with the functions of the unweighted algorithms, so that its target is a number
  and its best weight stays 0; `FinalBestTrack` reads the false clauses at the start without
  naming `StartFalse`; `SortByStepPerformance`, `UpdateTimes` and `CalcFPS` read the column of the steps whether or
  not it is active; a second call that counts random numbers in the same process
  would count by calling itself (`ubcsat-io.cc:328`; no call of the features program does, and the sessions here
  have none); the reset of the dispatch table in `ubcsat.cc:54` writes one entry behind its end, and
  what is needed of it is done by the `memset` of `BuildAlgorithmList`; a comment says that the satcomp
  report has to be last as it exits, and it is not the last and does not exit.
- msuncore: msu1's lower bound when time runs out counts iterations, which the calls so far do
  not support (`BoundsEnclose`, which `ReportsTrue` asks of msu2 and msu3 only); msu1 gives up when
  every soft clause is falsified; a unit clause is dropped when its negation was stored before it, hard or
  soft (`CLSET.pm:380`); a clause that is twice in a `cnf` file counts twice; a weight of 0 marks the soft
  clauses of a `wmcnf` file; msu3's first loop has no end if the hard clauses cannot be met.
- mscore: the random choice of variables has a frequency of 0; the constructor makes a variable,
  so that variable 1 exists in an empty file; the reduction of the clause database, simplification and
  assumptions have no caller, and `Solver::remove` would exit.
- maxsatz: `init` empties the stack of units after the reader filled it; `backtracking` with
  nothing assigned reads before the stack; units that contradict each other are always cancelled against each other.


## 6. What is not modelled, and why

- **Numbers**: the regressions, the cross validation, the convergence of the timeout
  manager and most report columns are formulas over reals. They appear where control depends
  on them, as free choices or as functions with the property the control needs.
- **Text**: parsing of configurations and command lines, help, logs, printing.
- **Weighted Novelty** (`PickNOVELTYWCSWE`): never runs, see section 5.
- **The model reader** and furius's use of what it reads: a scanner of words and numbers.
- **The penalty and unsat-count traces** of ubcsat, and functions of its table that nobody names.
- **Weights in maxsatz's rankings, empty clauses and the sizes of its tables**; tautologies in msuncore;
  an empty clause in a file of mscore, after which its trace is missing.
- **The other solvers and estimators** (minimaxsat and its SatELite and MiniSat, minisat+, wpmsz, sat4j,
  further versions of maxsatz): most of the lines of the repository. They are third-party
  programs that furius only starts, several of them copies of one another; the portfolio sees of
  them how they end, and that is in `Portfolio`.
- `MAXBEST` (1000 entries of the track) and the size of the candidate array: stated as
  assumptions (`InstancesAssumption`) or hazards; out of reach of small formulas.
- `gsat.cc` 25-123, the ladder encoding, msuncore's filtering hints and `InitVarFile`'s file have no caller.


## 7. Plan

Done, in the order of importance for what the system answers: the portfolio with its
abstract specification; forward selection; the search with its state and
algorithms, and the registry that decides which functions maintain it; the coach with its data sets; the
instance with both readers and the allocator; msuncore with its encodings, and mscore below it
with the refinement that joins the two; maxsatz; the proofs of section 4.

Where to go on:

1. `Model`: the reader of `modelreader.cc` composed with the coach's writer and with furius's
   checks.
2. Reports: the columns and statistics over several runs.
3. Proofs: `FormulaExact`, with the recursion of `Maxsatz` written as recursive functions or folds, as it is
   in `Encoders`.
