----------------------------- MODULE MCMaxsatz -----------------------------
(***************************************************************************)
(* Files of up to twelve clauses over five variables, with the number of   *)
(* their clauses as the bound, as main takes it, or a given one.  In them  *)
(* chains of units and of pairs meet, values of a variable fail, clauses   *)
(* are resolved and cancelled, replaced clauses are replaced again, and    *)
(* the bound is reached with and without a decision to go back to.         *)
(***************************************************************************)
EXTENDS Maxsatz

Clausal == {
  <<{-1}, {-2, 3}, {-2, 4}, {-3, -4}, {2, 1}, {1, -1}, {2}, {5, -3}>>,
  <<{1}, {-1}, {2}, {-2, 3}, {-3, 1}, {-1, 2}>>,
  <<{1, 2}, {1, -2}, {-1, 2}, {-1, -2}, {3, 4}, {3, -4}, {-3, 4}, {-3, -4}>>,
  <<{-1}, {2, -4}, {-3, -4}, {2, -3, 4}, {-4}, {-2, 4, 5}, {4}, {3}, {3, 4},
    {-3, -5}, {1, -2, 5}, {-2, -4}>>,
  <<{-1, 4, 5}, {1, -2, -4}, {2}, {2, 3}, {-1, -4}, {2, -3}, {1, 5}, {4}, {4},
    {-4, -5}, {-1, -2, -4}, {1}>>,
  <<{1, 2}, {1, 3}, {-2, -3}, {-1, 4}, {-1, 5}, {-4, -5}, {2, 4}, {-2, 5}, {3, -5}>>}

MCFiles ==
  {[clauses |-> c, bound |-> Len(c)] : c \in Clausal}
    \cup {[clauses |-> c, bound |-> b] : c \in Clausal, b \in {1, 3}}
=============================================================================
