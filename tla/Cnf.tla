-------------------------------- MODULE Cnf --------------------------------
(***************************************************************************)
(* Clauses as every solver of the portfolio sees them.  A literal is the   *)
(* number of a variable or its negation, a clause a set of literals, an    *)
(* assignment the set of the variables it makes true.                      *)
(***************************************************************************)
EXTENDS Integers, FiniteSets

VarOf(l) == IF l < 0 THEN -l ELSE l

Vars(clauses) == {VarOf(l) : l \in UNION clauses}

Holds(l, true) == IF l < 0 THEN -l \notin true ELSE l \in true

Satisfies(true, c) == \E l \in c : Holds(l, true)

Falsified(clauses, true) == {c \in clauses : ~Satisfies(true, c)}

Models(clauses, vars) ==
  {true \in SUBSET vars : \A c \in clauses : Satisfies(true, c)}

Satisfiable(clauses) == Models(clauses, Vars(clauses)) # {}

(* Every model of the clauses satisfies c. *)
Implies(clauses, c) ==
  \A true \in Models(clauses, Vars(clauses \cup {c})) : Satisfies(true, c)
=============================================================================
