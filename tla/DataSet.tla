------------------------------- MODULE DataSet -------------------------------
(***************************************************************************)
(* The training data of one solver and what the coach may do with it       *)
(* (src/src/dataset.cc).  A data set keeps its matrix column by column,    *)
(* beside the labels of the columns and the vector of outputs.  What a     *)
(* cell holds is told by how it was computed: the bag of the features      *)
(* multiplied into its column, each with the factors it was standardized   *)
(* with.  rows and out name the instance behind each row of the matrix and *)
(* each entry of the output vector; labels are bags of features, as in     *)
(* src/src/featurelabel.cc.                                                *)
(*                                                                         *)
(* An operation that goes wrong yields a data set with a fault: "assert",  *)
(* a failed assertion; "null", a column read that is a null pointer;       *)
(* "wild", an index past the end of the columns.                           *)
(***************************************************************************)
EXTENDS Integers, FiniteSets, SequencesExt

(* The scale of a feature: the factors it was standardized with, that is   *)
(* the label they were found under and the rows they were computed from.   *)
Raw  == <<>>         \* not standardized
Junk == <<"junk">>   \* factors read past the end of the vector

NumCols(ds)  == Len(ds.cols)
Labels(ds)   == [c \in DOMAIN ds.cols |-> ds.cols[c].label]
NullCols(ds) == {c \in DOMAIN ds.cols : ds.cols[c].null}

WithCols(ds, cols) == [ds EXCEPT !.cols = cols]
Faulty(ds, fault)  == [ds EXCEPT !.fault = fault]

(* The label of a product of columns has the multiplicities of its factors *)
(* added up, and so has the record of what its cells are made of.          *)
JoinBags(bags) == FoldLeft(LAMBDA acc, b : acc (+) b, EmptyBag, bags)

RawColumn(f) ==
    [label |-> SetToBag({f}), cells |-> SetToBag({<<f, Raw>>}), null |-> FALSE]

NewDataSet(instances, features) ==
    [rows |-> instances, out |-> instances,
     cols |-> [c \in DOMAIN features |-> RawColumn(features[c])],
     stdDone |-> FALSE, oStdDone |-> FALSE, fault |-> "none"]

(* The entries of a sequence that are in S, in their order.                *)
Chosen(seq, S) ==
    FoldLeft(LAMBDA kept, x : IF x \in S THEN Append(kept, x) ELSE kept, <<>>, seq)

(* createDataSets: of the instances that did not time out the rows whose   *)
(* number is a multiple of testValue are for testing.  Instances are       *)
(* numbered from 0, as the rows of the file are.                           *)
TestValue(percentTest) == 100 \div percentTest

IsTestRow(i, percentTest) == i % TestValue(percentTest) = 0

(* Mutant: the timeouts stay in the training set. *)
TrainingRowsAll(instances, timeouts, percentTest) ==
    Chosen(instances, {i \in ToSet(instances) : i \in timeouts \/ ~IsTestRow(i, percentTest)})

TrainingRows(instances, timeouts, percentTest) ==
    Chosen(instances, {i \in ToSet(instances) \ timeouts : ~IsTestRow(i, percentTest)})

TestRows(instances, timeouts, percentTest) ==
    Chosen(instances, {i \in ToSet(instances) \ timeouts : IsTestRow(i, percentTest)})

(* The entry that sort puts at place n.                                    *)
Sorted(keep, n) ==
    CHOOSE c \in ToSet(keep) :
        /\ Cardinality({m \in DOMAIN keep : keep[m] < c}) < n
        /\ Cardinality({m \in DOMAIN keep : keep[m] <= c}) >= n

(* removeFeatures keeps the columns named, in ascending order; the pointer *)
(* to a column named again has been cleared.  Asked for as many columns as *)
(* there are, it leaves all of them.                                       *)
RemoveFeatures(ds, keep) ==
    LET Kept(n) == [ds.cols[Sorted(keep, n)] EXCEPT
                       !.null = @ \/ \E m \in 1..(n - 1) : Sorted(keep, m) = Sorted(keep, n)]
    IN  IF Len(keep) = NumCols(ds) THEN ds
        ELSE IF \E n \in DOMAIN keep : keep[n] \notin DOMAIN ds.cols
        THEN Faulty(ds, "wild")
        ELSE WithCols(ds, [n \in DOMAIN keep |-> Kept(n)])

(* computeStdFactors yields the deviation 0 for a column without two       *)
(* values, and NaN for one without a row.                                  *)
IsConstant(ds, c, value) ==
    /\ ds.rows # <<>>
    /\ \E f \in BagToSet(ds.cols[c].label) :
          \A i, j \in ToSet(ds.rows) : value[i][f] = value[j][f]

RemoveHarmfulFeatures(ds, value) ==
    RemoveFeatures(ds, Chosen([c \in DOMAIN ds.cols |-> c],
                              {c \in DOMAIN ds.cols : ~IsConstant(ds, c, value)}))

(* standardize(factors): each column is scaled with the factors found      *)
(* under its own label.  It is called before any expansion, when a column  *)
(* is a single feature.                                                    *)
Factors(ds) == [c \in DOMAIN ds.cols |-> <<ds.cols[c].label, ds.rows>>]

Found(col, factors) == {i \in DOMAIN factors : factors[i][1] = col.label}

FactorMissing(ds, factors) ==
    ~ds.stdDone /\ \E c \in DOMAIN ds.cols : Found(ds.cols[c], factors) = {}

ScaleOf(col, factors) ==
    IF Found(col, factors) = {} THEN Junk ELSE factors[Min(Found(col, factors))]

Scaled(col, scale) ==
    [col EXCEPT !.cells = SetToBag({<<a[1], scale>> : a \in BagToSet(@)})]

Standardize(ds, factors) ==
    IF ds.stdDone THEN ds
    ELSE [ds EXCEPT !.stdDone = TRUE,
                    !.cols = [c \in DOMAIN @ |-> Scaled(@[c], ScaleOf(@[c], factors))]]

(* standardizeOutput only notes that it was done: the logarithm of an      *)
(* output is still that of its instance.                                   *)
StandardizeOutput(ds) == [ds EXCEPT !.oStdDone = TRUE]

(* removeTimeouts compacts the rows of the matrix; the output vector stays *)
(* as it was.                                                              *)
RemoveTimeouts(ds, timeouts) ==
    IF ds.oStdDone THEN ds
    ELSE [ds EXCEPT !.rows = Chosen(@, ToSet(@) \ timeouts)]

(* expandOnPartition: the products of k columns of the partition in        *)
(* lexicographic order, then the k-th powers.  The cells of a product are  *)
(* found through the partition, its label is not.                          *)
Longer(s, n) ==
    LET top == IF s = <<>> THEN 0 ELSE s[Len(s)]
    IN  [i \in 1..(n - top) |-> Append(s, top + i)]

AllLonger(found, n) == FoldLeft(LAMBDA all, s : all \o Longer(s, n), <<>>, found)

Combinations(n, k) ==
    FoldLeft(LAMBDA found, i : AllLonger(found, n), <<<<>>>>, [i \in 1..k |-> i])

(* Mutant: the columns are taken without the partition as well, and the    *)
(* labels through it.                                                      *)
ProductSwapped(cols, part, ind) ==
    [label |-> JoinBags([i \in DOMAIN ind |-> cols[part[ind[i]]].label]),
     cells |-> JoinBags([i \in DOMAIN ind |-> cols[1].cells]),
     null  |-> FALSE]

Product(cols, part, ind) ==
    [label |-> JoinBags([i \in DOMAIN ind |-> cols[ind[i]].label]),
     cells |-> JoinBags([i \in DOMAIN ind |-> cols[part[ind[i]]].cells]),
     null  |-> FALSE]

Power(col, k) ==
    [label |-> JoinBags([i \in 1..k |-> col.label]),
     cells |-> JoinBags([i \in 1..k |-> col.cells]),
     null  |-> FALSE]

ExpandOnPartition(ds, k, part) ==
    LET cols   == ds.cols
        combos == Combinations(Len(part), k)
    IN  IF ds.fault # "none" THEN ds
        ELSE IF k < 2 \/ k > Len(part) THEN Faulty(ds, "assert")
        ELSE IF \E p \in ToSet(part) : p \notin DOMAIN cols THEN Faulty(ds, "wild")
        ELSE IF ds.rows # <<>> /\ NullCols(ds) \cap ToSet(part) # {} THEN Faulty(ds, "null")
        ELSE WithCols(ds,
                cols \o [c \in DOMAIN combos |-> Product(cols, part, combos[c])]
                     \o [p \in DOMAIN part |-> Power(cols[part[p]], k)])

(* expand with the partitions of the configuration, or over all columns    *)
(* when it has none.                                                       *)
Expand(ds, k, parts) ==
    IF parts = <<>>
    THEN ExpandOnPartition(ds, k, [c \in DOMAIN ds.cols |-> c])
    ELSE FoldLeft(LAMBDA d, part : ExpandOnPartition(d, k, part), ds, parts)

=============================================================================
