------------------------------ MODULE MCUbcsat ------------------------------
(* Formulas of three or four clauses over three variables, satisfiable and *)
(* not: with unit clauses, with a literal that occurs twice in a clause,   *)
(* and with a literal and its negation in one.                             *)
EXTENDS Ubcsat

Pool == << <<1, 2>>, <<-1, 3>>, <<-2, -3>>, <<1>>, <<-1, -2, -3>>, <<-3>>,
           <<1, 1, 2>>, <<2, -2, 3>> >>

FormulaOf(I) ==
    LET clauses == SetToSortSeq(I, <)
    IN  [formula |-> [k \in 1..Len(clauses) |-> Pool[clauses[k]]],
         weight  |-> [k \in 1..Len(clauses) |-> k]]

Clauses(n) == {FormulaOf(I) : I \in {J \in SUBSET (1..8) : Cardinality(J) = n}}
Few        == {FormulaOf(I) : I \in {{1, 2, 3}, {1, 2, 3, 5}, {2, 4, 6}, {3, 7, 8}}}

\* Some clauses, or all, weigh nothing.
Light == {[i EXCEPT !.weight = [c \in DOMAIN i.formula |-> w[c]]] :
             i \in Few, w \in {<<0, 0, 0, 0>>, <<0, 1, 2, 0>>}}

Setting(n, cutoff, restart, find, target, noImprove, timeout, mode) ==
    [runs |-> n, cutoff |-> cutoff, restart |-> restart, find |-> find,
     target |-> target, noImprove |-> noImprove, timeout |-> timeout, mode |-> mode,
     tabu |-> 0, noise |-> 0]

Single == Setting(1, 5, 0, 0, 0, 0, FALSE, "plain")

OneRun == {Single}
Timed  == {Setting(2, 3, 0, 0, 1, 0, TRUE, "solve")}
Tabus  == {[Single EXCEPT !.tabu = n] : n \in {2, 3}}
Noises == {[Single EXCEPT !.noise = n] : n \in {-1, 0, 1}}

ManyRuns ==
    {Setting(3, 3, 0, 0, 0, 0, FALSE, "plain"),
     Setting(2, 5, 0, 1, 1, 1, FALSE, "plain"),
     Setting(2, 5, 0, 2, 0, 2, FALSE, "plain"),
     Setting(1, 0, 0, 0, 0, 0, FALSE, "plain"),
     Setting(2, 2, 0, 0, 0, 0, TRUE, "solve"),
     Setting(2, 2, 0, 0, 0, 0, FALSE, "satzilla")}

EverySecond == {Setting(1, 5, 2, 0, 0, 0, FALSE, "plain"),
                Setting(1, 4, 1, 0, 0, 2, FALSE, "plain")}

Calls(algorithms, instances, settings) ==
    {[algorithm |-> a, instance |-> i, parm |-> p] :
        a \in algorithms, i \in instances, p \in settings}

(* The loops of main around GSAT, and every algorithm on one run.          *)
OneCall   == Calls({"gsat"}, Clauses(4), OneRun)
TimedCall == Calls({"gsat-w"}, Few, Timed)

AllCalls ==
    UNION {Calls({"gsat"}, Few, ManyRuns),
           Calls({"gsat", "gwsat-w"}, Few, EverySecond),
           OneCall,
           Calls({"gsat-w", "gwsat", "gwsat-w"}, Clauses(3), OneRun),
           TimedCall,
           Calls({"hsat", "hwsat", "walksat", "novelty", "novelty+", "novelty+-w", "saps"},
                 Few, OneRun),
           Calls({"gsat-w", "gwsat-w", "novelty+-w"}, Light, OneRun),
           Calls({"gsat-tabu", "walksat-tabu"}, Few, Tabus),
           Calls({"rnovelty", "rnovelty+"}, Few, Noises)}

=============================================================================
