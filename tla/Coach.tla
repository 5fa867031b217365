-------------------------------- MODULE Coach --------------------------------
(***************************************************************************)
(* The coach (src/src/coach.cc): from a configuration and a file of        *)
(* measurements it makes two data sets per solver, prepares them, selects  *)
(* and expands features, fits a model, writes it down and tests it.  Each  *)
(* action is one stage for one solver; the stages of its loops are the     *)
(* values of pc.                                                           *)
(***************************************************************************)
EXTENDS DataSet

CONSTANTS
    NumSolvers,    \* outputs in the file of measurements
    Features,      \* the sequence of its feature names
    NumInstances,  \* its rows
    Inputs         \* configurations, values and timeouts it may be given

ASSUME NumSolversAssumption   == NumSolvers \in Nat \ {0}
ASSUME NumInstancesAssumption == NumInstances \in Nat
ASSUME FeaturesAssumption     == Features \in Seq(ToSet(Features))

Solvers   == 1..NumSolvers
Instances == 0..(NumInstances - 1)
InOrder   == [i \in 1..NumInstances |-> i - 1]

ASSUME InputsAssumption ==
    \A in \in Inputs :
        /\ in.percentTest \in Nat /\ in.fePartOrder \in Nat /\ in.fsInsts \in Nat
        /\ in.fsopt \in {"NONE", "DELTA", "INSTS"} /\ in.la \in {"RR", "SVM"}
        /\ in.handleTimeout \in BOOLEAN
        /\ in.outputStd \in BOOLEAN /\ in.featureStd \in BOOLEAN
        /\ in.timeouts \in [Solvers -> SUBSET Instances]
        /\ in.fePartitions \in Seq(Seq(Nat))

VARIABLES
    input,     \* the configuration and the file, read at the start
    timedOut,  \* the instances whose output equals the time limit
    train,     \* dss[s].first
    test,      \* dss[s].second
    file,      \* what was written to the model file
    pc,        \* the stage
    solver     \* the s of its loop

vars == <<input, timedOut, train, test, file, pc, solver>>
data == <<input, timedOut>>

NoDataSet == <<>>   \* a null pointer

Line(param, s, value) == [param |-> param, solver |-> s, value |-> value]
Lines(param, s, values) == [i \in DOMAIN values |-> Line(param, s, values[i])]
Plain(param) == Line(param, 0, <<>>)

Init ==
    /\ input \in Inputs
    /\ timedOut = input.timeouts
    /\ train = [s \in Solvers |-> NoDataSet]
    /\ test  = [s \in Solvers |-> NoDataSet]
    /\ file = <<Plain("training")>>
    /\ pc = "create"
    /\ solver = 1

Goto(stage) == pc' = stage /\ UNCHANGED solver

(* The end of one turn of a loop over the solvers.                         *)
NextSolver(head, exit) ==
    /\ pc' = IF solver < NumSolvers THEN head ELSE exit
    /\ solver' = IF solver < NumSolvers THEN solver + 1 ELSE 1

(* How the program may end at a fault.  What it does after an index past   *)
(* the end, if it survives, is not followed.                               *)
Outcomes(fault) ==
    CASE fault = "assert" -> {"aborted"}
      [] fault = "null"   -> {"crashed"}
      [] OTHER            -> {"crashed", "undefined"}   \* "wild"

Stop(outcomes) ==
    /\ pc' \in outcomes
    /\ UNCHANGED <<data, train, test, file, solver>>

HasTest == input.percentTest > 0
Terminal == {"done", "failed", "aborted", "crashed", "undefined"}
-----------------------------------------------------------------------------
(* predictTimeouts puts a prediction in the place of each output at the    *)
(* limit; it may be the limit again.                                       *)
StillTimedOut ==
    IF input.handleTimeout THEN SUBSET timedOut[solver] ELSE {timedOut[solver]}

Create ==
    /\ pc = "create"
    /\ \E out \in StillTimedOut :
        /\ input.percentTest <= 100 \/ out = Instances
        /\ timedOut' = [timedOut EXCEPT ![solver] = out]
        /\ IF HasTest
           THEN /\ train' = [train EXCEPT ![solver] = NewDataSet(
                       TrainingRows(InOrder, out, input.percentTest), Features)]
                /\ test' = [test EXCEPT ![solver] = NewDataSet(
                       TestRows(InOrder, out, input.percentTest), Features)]
           ELSE /\ train' = [train EXCEPT ![solver] = NewDataSet(InOrder, Features)]
                /\ UNCHANGED test
    /\ NextSolver("create", "harmful")
    /\ UNCHANGED <<input, file>>

(* testValue is 0: the remainder traps at the first usable row.            *)
CreateTraps ==
    /\ pc = "create"
    /\ input.percentTest > 100
    /\ \E out \in StillTimedOut : out # Instances
    /\ Stop({"crashed"})

RemoveHarmful ==
    /\ pc = "harmful"
    /\ train' = [train EXCEPT ![solver] = RemoveHarmfulFeatures(@, input.value)]
    /\ test' = IF HasTest
               THEN [test EXCEPT ![solver] = RemoveHarmfulFeatures(@, input.value)]
               ELSE test
    /\ NextSolver("harmful", "names")
    /\ UNCHANGED <<data, file>>

WriteSolverNames ==
    /\ pc = "names"
    /\ file' = Append(file, Plain("solvers"))
    /\ Goto("outputs")
    /\ UNCHANGED <<data, train, test>>

(* Without a test set the rows with timeouts are removed here; then the    *)
(* outputs are standardized, with a test set or not.                       *)
Unlimited(ds) == IF HasTest THEN ds ELSE RemoveTimeouts(ds, timedOut[solver])

PrepareOutputs ==
    /\ pc = "outputs"
    /\ input.outputStd => HasTest
    /\ train' = [train EXCEPT ![solver] =
           IF input.outputStd THEN StandardizeOutput(Unlimited(@)) ELSE Unlimited(@)]
    /\ test' = [test EXCEPT ![solver] =
           IF input.outputStd THEN StandardizeOutput(@) ELSE @]
    /\ Goto("features")
    /\ UNCHANGED <<data, file>>

PrepareOutputsNoTest ==
    /\ pc = "outputs"
    /\ input.outputStd /\ ~HasTest
    /\ Stop({"crashed"})

HasConstant(ds) == \E c \in DOMAIN ds.cols : IsConstant(ds, c, input.value)

(* Mutant: the test set is given factors of its own. *)
StandardizeFeaturesOwn ==
    /\ pc = "features"
    /\ input.featureStd => HasTest
    /\ ~(input.featureStd /\ HasConstant(train[solver]))
    /\ IF input.featureStd
       THEN /\ train' = [train EXCEPT ![solver] = Standardize(@, Factors(@))]
            /\ test'  = [test  EXCEPT ![solver] = Standardize(@, Factors(@))]
            /\ file'  = file \o Lines("stdfactor", solver, Factors(train[solver]))
       ELSE UNCHANGED <<train, test, file>>
    /\ NextSolver("outputs", "flags")
    /\ UNCHANGED data

(* The training set is standardized with its own factors, the test set     *)
(* with those of the training set, and these are written down.             *)
StandardizeFeatures ==
    /\ pc = "features"
    /\ input.featureStd => HasTest
    /\ ~(input.featureStd /\ HasConstant(train[solver]))
    /\ IF input.featureStd
       THEN LET factors == Factors(train[solver]) IN
            /\ train' = [train EXCEPT ![solver] = Standardize(@, factors)]
            /\ test'  = [test  EXCEPT ![solver] = Standardize(@, factors)]
            /\ file'  = file \o Lines("stdfactor", solver, factors)
       ELSE UNCHANGED <<train, test, file>>
    /\ NextSolver("outputs", "flags")
    /\ UNCHANGED data

(* A value 0/0 exits; a null test set crashes; a factor read past the end  *)
(* may do either, or else the column is scaled with junk.                  *)
StandardizeFeaturesStops ==
    /\ pc = "features"
    /\ input.featureStd
    /\ \/ HasConstant(train[solver]) /\ Stop({"failed"})
       \/ ~HasConstant(train[solver]) /\ ~HasTest /\ Stop({"crashed"})
       \/ /\ HasTest
          /\ FactorMissing(test[solver], Factors(train[solver]))
          /\ Stop(IF test[solver].rows = <<>> THEN {"crashed"}
                                              ELSE {"crashed", "failed"})

WriteFlags ==
    /\ pc = "flags"
    /\ file' = file \o (IF input.featureStd THEN <<Plain("feastd")>> ELSE <<>>)
                    \o (IF input.outputStd  THEN <<Plain("outstd")>> ELSE <<>>)
    /\ Goto("select")
    /\ UNCHANGED <<data, train, test>>
-----------------------------------------------------------------------------
(* What forward selection may answer for a data set, as columns counted    *)
(* from 1: run() returns its first regressor alone or all of them,         *)
(* runForBest() as many as asked for; asked for more than there are, the   *)
(* first column over and over and then all.  A regression of p parameters  *)
(* needs p rows.                                                           *)
Alone(ds) == {<<c>> : c \in DOMAIN ds.cols}
AllOf(ds) == [c \in DOMAIN ds.cols |-> c]

(* Mutant: regressors counted as the columns of a regression are, where    *)
(* the constant comes first.                                               *)
SetsPast(ds, k) ==
    {[i \in 1..k |-> 1 + cs[i]] : cs \in {s \in [1..k -> DOMAIN ds.cols] : IsSorted(s, <)}}

Sets(ds, k) == {cs \in [1..k -> DOMAIN ds.cols] : IsSorted(cs, <)}

Unusable(ds) == NumCols(ds) = 0 \/ (ds.rows # <<>> /\ NullCols(ds) # {})

Selections(ds) ==
    LET n == NumCols(ds)
        r == Len(ds.rows)
        k == input.fsInsts
    IN  CASE Unusable(ds) -> {}
          [] ~Unusable(ds) /\ input.fsopt = "DELTA" ->
                IF n = 1 THEN {AllOf(ds)}
                ELSE (IF r >= 3 THEN Alone(ds) ELSE {})
                     \cup (IF r > n THEN {AllOf(ds)} ELSE {})
          [] OTHER ->
                CASE k = 0         -> {}
                  [] k = 1         -> Alone(ds)
                  [] k > n         -> {[c \in 1..n |-> 1] \o AllOf(ds)}
                  [] OTHER         -> IF r > k THEN Sets(ds, k) ELSE {}

(* Where it ends the program: no column, or no row (in older GSL), or      *)
(* fewer rows than parameters; a column that is a null pointer; and        *)
(* MSZError when nothing is asked for.                                     *)
SelectionStops(ds) ==
    LET n == NumCols(ds)
        r == Len(ds.rows)
        k == input.fsInsts
    IN  CASE n = 0                   -> {"aborted"}
          [] n > 0 /\ Unusable(ds)   -> {"crashed"}
          [] OTHER ->
                (IF r = 0 THEN {"aborted"} ELSE {})
                \cup (IF input.fsopt = "DELTA" /\ n > 1 /\ r <= n
                      THEN {"aborted"} ELSE {})
                \cup (IF input.fsopt = "INSTS" /\ k \in 2..n /\ r <= k
                      THEN {"aborted"} ELSE {})
                \cup (IF input.fsopt = "INSTS" /\ k = 0 THEN {"failed"} ELSE {})

(* The columns selected on the training set are kept in both sets.         *)
Select(here, after) ==
    /\ pc = here
    /\ IF input.fsopt = "NONE"
       THEN Goto(after) /\ UNCHANGED <<data, train, test, file>>
       ELSE \/ \E res \in Selections(train[solver]) :
                IF ~HasTest THEN Stop({"crashed"})
                ELSE LET kept == RemoveFeatures(test[solver], res) IN
                     IF kept.fault # "none" THEN Stop(Outcomes(kept.fault))
                     ELSE /\ train' = [train EXCEPT ![solver] = RemoveFeatures(@, res)]
                          /\ test'  = [test  EXCEPT ![solver] = kept]
                          /\ Goto(after)
                          /\ UNCHANGED <<data, file>>
            \/ Stop(SelectionStops(train[solver]))

FirstSelection  == Select("select", "expand")
SecondSelection == Select("reselect", "learn")

Expanding == input.la = "RR" /\ input.fePartOrder # 0
Expanded(ds) == Expand(ds, input.fePartOrder, input.fePartitions)

DoNotExpand ==
    /\ pc = "expand"
    /\ ~Expanding
    /\ Goto("learn")
    /\ UNCHANGED <<data, train, test, file>>

ExpandBoth ==
    /\ pc = "expand"
    /\ Expanding
    /\ LET first == Expanded(train[solver]) IN
       IF first.fault # "none" THEN Stop(Outcomes(first.fault))
       ELSE IF ~HasTest THEN Stop({"crashed"})
       ELSE LET second == Expanded(test[solver]) IN
            IF second.fault # "none" THEN Stop(Outcomes(second.fault))
            ELSE /\ train' = [train EXCEPT ![solver] = first]
                 /\ test'  = [test  EXCEPT ![solver] = second]
                 /\ Goto("reselect")
                 /\ UNCHANGED <<data, file>>

(* Mutant: a regressor for every column. *)
DistinctNot(labels) == labels

(* RRModel::addRegressor ignores a label it has already.                   *)
Distinct(labels) ==
    FoldLeft(LAMBDA kept, l : IF l \in ToSet(kept) THEN kept ELSE Append(kept, l), <<>>, labels)

(* A weight per regressor, after the free one.  The support vector machine *)
(* writes the labels of its columns in order.                              *)
ModelLines(ds) ==
    IF input.la = "RR"
    THEN <<Line("freeweight", solver, <<>>)>>
         \o Lines("weight", solver, Distinct(Labels(ds)))
    ELSE <<Line("svm_model_file", solver, <<>>), Line("nlabels", solver, <<>>)>>
         \o Lines("featurelabel", solver, Labels(ds))

Unreadable(ds) == ds.rows # <<>> /\ NullCols(ds) # {}

Learn ==
    /\ pc = "learn"
    /\ ~Unreadable(train[solver])
    /\ file' = file \o ModelLines(train[solver])
    /\ Goto("test")
    /\ UNCHANGED <<data, train, test>>

LearnStops ==
    /\ pc = "learn"
    /\ \/ Unreadable(train[solver]) /\ Stop({"crashed"})
       \/ train[solver].rows = <<>> /\ Stop({"aborted"})

Test ==
    /\ pc = "test"
    /\ HasTest
    /\ ~Unreadable(test[solver])
    /\ NextSolver("select", "done")
    /\ UNCHANGED <<data, train, test, file>>

TestStops ==
    /\ pc = "test"
    /\ HasTest => Unreadable(test[solver])
    /\ Stop({"crashed"})

Ended == pc \in Terminal /\ UNCHANGED vars

Next ==
    \/ Create \/ CreateTraps \/ RemoveHarmful \/ WriteSolverNames
    \/ PrepareOutputs \/ PrepareOutputsNoTest
    \/ StandardizeFeatures \/ StandardizeFeaturesStops \/ WriteFlags
    \/ FirstSelection \/ DoNotExpand \/ ExpandBoth \/ SecondSelection
    \/ Learn \/ LearnStops \/ Test \/ TestStops \/ Ended

Spec == Init /\ [][Next]_vars /\ WF_vars(Next)
-----------------------------------------------------------------------------
IsDataSet(ds) ==
    /\ DOMAIN ds = {"rows", "out", "cols", "stdDone", "oStdDone", "fault"}
    /\ ToSet(ds.rows) \subseteq Instances /\ ToSet(ds.out) \subseteq Instances
    /\ ds.stdDone \in BOOLEAN /\ ds.oStdDone \in BOOLEAN
    /\ ds.fault = "none"

TypeOK ==
    /\ input.percentTest \in Nat /\ input.timeouts \in [Solvers -> SUBSET Instances]
    /\ timedOut \in [Solvers -> SUBSET Instances]
    /\ pc \in Terminal \cup {"create", "harmful", "names", "outputs", "features", "flags",
                             "select", "expand", "reselect", "learn", "test"}
    /\ solver \in Solvers
    /\ \A s \in Solvers :
          /\ train[s] # NoDataSet => IsDataSet(train[s])
          /\ test[s] # NoDataSet => IsDataSet(test[s]) /\ train[s] # NoDataSet
          /\ HasTest => (test[s] = NoDataSet <=> train[s] = NoDataSet)

Made(s) == train[s] # NoDataSet

(* createDataSets, "both of which without timeouts and split according to  *)
(* the percentTest value": at every later moment the two sets of a solver  *)
(* together hold each instance with a usable output once, in the order of  *)
(* the file, the multiples of testValue being for the test, and each row   *)
(* stands beside the output of its own instance.                           *)
SplitExact ==
    /\ TypeOK
    /\ \A s \in Solvers : Made(s) /\ HasTest =>
           LET usable == Instances \ timedOut[s]
               held   == train[s].rows \o test[s].rows
           IN  /\ ToSet(held) = usable /\ Len(held) = Cardinality(usable)
               /\ IsSorted(train[s].rows, <) /\ IsSorted(test[s].rows, <)
               /\ \A i \in usable :
                     i \in ToSet(test[s].rows) <=> i % (100 \div input.percentTest) = 0
               /\ train[s].out = train[s].rows /\ test[s].out = test[s].rows

Copies(e, bag) == IF BagIn(e, bag) THEN bag[e] ELSE 0

(* The label of a column of the training set tells what its cells are: the *)
(* features multiplied into them, with their multiplicities, all raw or    *)
(* each scaled with its own factors.                                       *)
Tells(col, rows) ==
    /\ \A f \in ToSet(Features) :
          Copies(f, col.label)
              = MapThenSumSet(LAMBDA a : Copies(a, col.cells),
                              {a \in BagToSet(col.cells) : a[1] = f})
    /\ \A a \in BagToSet(col.cells) : a[2] \in {Raw, <<SetToBag({a[1]}), rows>>}

LabelsTell ==
    \A s \in Solvers : Made(s) =>
        \A c \in DOMAIN train[s].cols : Tells(train[s].cols[c], train[s].rows)

(* The labels are told in the same way where the configuration has no      *)
(* partitions: the expansion is then over all columns.                     *)
LabelsTellOfComplete == input.fePartitions = <<>> => LabelsTell

(* The harmful columns of the training and of the test set of a solver are *)
(* found independently; these are the same.                                *)
Harmless(instances) ==
    RemoveHarmfulFeatures(NewDataSet(instances, Features), input.value).cols

SameKept(s) ==
    Harmless(TrainingRows(InOrder, timedOut[s], input.percentTest))
        = Harmless(TestRows(InOrder, timedOut[s], input.percentTest))

(* As long as that is so the test set has the columns of the training set, *)
(* in the same order, made in the same way from the same factors, after    *)
(* every stage.                                                            *)
TestMirrors ==
    \A s \in Solvers : Made(s) /\ HasTest /\ SameKept(s) =>
        test[s].cols = train[s].cols

(* What the model file says of a solver, once its model is written: a free *)
(* weight, before the weights; one weight for each label of the training   *)
(* set; and of every feature multiplied into one of its columns the        *)
(* factors it was standardized with, and no others.                        *)
At(param, s) == {i \in DOMAIN file : file[i].param = param /\ file[i].solver = s}
Said(param, s) == {file[i].value : i \in At(param, s)}

Written(s) == \/ pc = "done"
              \/ pc \in {"select", "expand", "reselect", "learn"} /\ s < solver
              \/ pc = "test" /\ s <= solver

ModelMatches ==
    \A s \in Solvers : Written(s) /\ input.la = "RR" =>
        /\ Cardinality(At("freeweight", s)) = 1
        /\ \A f \in At("freeweight", s), w \in At("weight", s) : f < w
        /\ Said("weight", s) = ToSet(Labels(train[s]))
        /\ Cardinality(At("weight", s)) = Cardinality(Said("weight", s))
        /\ input.featureStd =>
              \A c \in DOMAIN train[s].cols : \A a \in BagToSet(train[s].cols[c].cells) :
                  {v \in Said("stdfactor", s) : v[1] = SetToBag({a[1]})} = {a[2]}

(* A configuration and measurements the coach gets through: a proper share *)
(* for the test, the same columns kept in both sets, enough rows for the   *)
(* regressions of the selection, and an expansion whose order is at most   *)
(* the number of columns it is sure to find.                               *)
Columns(s) == Len(Harmless(TrainingRows(InOrder, timedOut[s], input.percentTest)))
RowsFor(s) == Len(TrainingRows(InOrder, timedOut[s], input.percentTest))

Sound(s) ==
    /\ input.percentTest \in 1..100
    /\ SameKept(s) /\ Columns(s) > 0 /\ RowsFor(s) > 0
    /\ CASE input.fsopt = "NONE"  -> TRUE
         [] input.fsopt = "DELTA" -> ~Expanding /\ RowsFor(s) > Columns(s)
         [] OTHER                 -> /\ input.fsInsts \in 1..Columns(s)
                                     /\ RowsFor(s) > input.fsInsts
    /\ Expanding =>
          /\ input.fePartitions = <<>>
          /\ input.fePartOrder >= 2
          /\ input.fePartOrder <= (IF input.fsopt = "INSTS" THEN input.fsInsts
                                                            ELSE Columns(s))

SoundInputSucceeds ==
    (\A s \in Solvers : Sound(s)) => pc \notin Terminal \ {"done"}

(* dataset.hh 60, "Removes the instances with timeouts in the given        *)
(* solver": the rows that stay keep their outputs.                         *)
RowsAligned ==
    \A s \in Solvers : Made(s) => SubSeq(train[s].out, 1, Len(train[s].rows)) = train[s].rows
=============================================================================
