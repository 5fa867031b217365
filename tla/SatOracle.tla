----------------------------- MODULE SatOracle -----------------------------
(***************************************************************************)
(* What msuncore asks of the SAT solver it calls: of the clauses in a file *)
(* the solver says once, and for good, either what satisfies them all or   *)
(* which of them no assignment satisfies together.                         *)
(***************************************************************************)
EXTENDS Cnf

CONSTANT Unanswered

VARIABLES formula, answer

Init == answer = Unanswered

Sat ==
  /\ answer'.status = "SAT"
  /\ Falsified(formula, answer'.true) = {}

Unsat ==
  /\ answer'.status = "UNSAT"
  /\ answer'.core \subseteq formula
  /\ ~Satisfiable(answer'.core)

Next == answer = Unanswered /\ (Sat \/ Unsat) /\ UNCHANGED formula

Spec == Init /\ [][Next]_<<formula, answer>>
=============================================================================
