---------------------------- MODULE BoundSearch ----------------------------
(***************************************************************************)
(* What a MaxSAT solver promises, whatever its method: it closes in on the *)
(* least number of soft clauses that have to be falsified from below and   *)
(* from above, and what it answers in the end is that number.  When no     *)
(* assignment satisfies the hard clauses the optimum is Infinity and the   *)
(* answer means nothing.                                                   *)
(***************************************************************************)
EXTENDS Integers

CONSTANTS Infinity, None

VARIABLES optimum, lo, hi, answer

vars == <<optimum, lo, hi, answer>>

Init ==
  /\ lo = 0
  /\ hi = Infinity
  /\ answer = None

(* One more reason why a cost is unavoidable, or one better assignment. *)
Narrow ==
  /\ lo <= lo' /\ lo' <= optimum
  /\ hi' <= hi /\ optimum <= hi'

Search == answer' = None

Answer == optimum # Infinity => answer' = optimum

Next ==
  /\ answer = None
  /\ Narrow
  /\ Search \/ Answer
  /\ UNCHANGED optimum

Spec == Init /\ [][Next]_vars
=============================================================================
