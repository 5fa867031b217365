------------------------------ MODULE MCMscore ------------------------------
(***************************************************************************)
(* Files for mscore: few variables, every kind of end.                     *)
(***************************************************************************)
EXTENDS Mscore

(* Every clause of three literals over three variables. *)
AllThree ==
  << {1, 2, 3}, {1, 2, -3}, {1, -2, 3}, {1, -2, -3},
     {-1, 2, 3}, {-1, 2, -3}, {-1, -2, 3}, {-1, -2, -3} >>

(* Four variables: a clause of four literals has two to go on to. *)
WithFour ==
  << {1, 2, 3, 4}, {-1, 2, 3, 4}, {1, -2, 3}, {-1, -2, 4}, {1, -3, 4}, {-1, -3, 2},
     {-4, 1, 2}, {-4, -1, 3} >>

Drop(s, k) == SubSeq(s, 1, k - 1) \o SubSeq(s, k + 1, Len(s))

MCFiles ==
  { AllThree, Drop(AllThree, 1), Drop(AllThree, 8), Drop(AllThree, 3) }
  \cup
  { (* no model, and clauses that have no part in it *)
    << {1, 2}, {-1, 2}, {2, 3}, {1, -2}, {-1, -2} >>,
    << {1, 2, 4}, {1, -2}, {-1, 2, 4}, {-1, -2}, {-4, 3}, {-4, -3}, {1, 4} >>,
    << {1, 2, 3, 4}, {-1, 2, 3}, {-2, 3}, {-3, 4}, {-3, -4} >>,
    (* a propagated variable is taken off the heap, then undone *)
    << {1, 4}, {1, 2, 3}, {1, 2, -3}, {1, -2, 3}, {1, -2, -3}, {-1, -4, 2} >>,
    (* a clause of three levels is learnt, then the latest is left *)
    << {1, 2, 3, 4}, {1, 2, 3, -4}, {1, -3, 4}, {1, -3, -4} >>,
    (* units: one against another, against what follows from one, and both *)
    << {1}, {2, 3}, {-1} >>,
    << {-3}, {1}, {-1, 2}, {-2, 3} >>,
    << {1, 2}, {-1}, {-2}, {1}, {-2, 3} >>,
    (* a clause twice, one that is always true, a variable without a clause *)
    << {1, 4}, {1, 4}, {2, -2}, {-1, 4}, {-4, 1}, {-1, -4, 2} >>,
    << {4}, {-4, 2} >>,
    << >> }
  \cup {WithFour}
=============================================================================
