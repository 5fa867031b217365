------------------------------ MODULE Solving ------------------------------
(***************************************************************************)
(* Whether a finite set of clauses can be satisfied: what EncodingExact    *)
(* asks of clauses, as a procedure that TLC can run.  A clause is a set of *)
(* literals, a literal a sign and a variable.                              *)
(***************************************************************************)
EXTENDS Integers, FiniteSets

Opposite(l) == <<~l[1], l[2]>>

UnitsOf(clauses) == {l \in UNION clauses : {l} \in clauses}

(* What is left of the clauses when these literals are true. *)
Given(clauses, true) ==
  {c \ {Opposite(l) : l \in true} : c \in {d \in clauses : d \cap true = {}}}

(* All unit clauses first, then a literal or its opposite; rest decides    *)
(* what is left after that.                                                *)
Decided(rest, clauses) ==
  \/ clauses = {}
  \/ /\ {} \notin clauses
     /\ IF UnitsOf(clauses) # {}
        THEN /\ \A l \in UnitsOf(clauses) : Opposite(l) \notin UnitsOf(clauses)
             /\ rest[Given(clauses, UnitsOf(clauses))]
        ELSE LET l == CHOOSE l \in UNION clauses : TRUE
             IN  rest[Given(clauses, {l})] \/ rest[Given(clauses, {Opposite(l)})]

(* There are at most as many steps as literals. *)
Solvable(clauses) ==
  LET literals == UNION clauses
      solve[n \in Nat] ==
        [left \in SUBSET SUBSET literals |->
           IF n = 0 THEN left = {} ELSE Decided(solve[n - 1], left)]
  IN  solve[Cardinality(literals)][clauses]
=============================================================================
