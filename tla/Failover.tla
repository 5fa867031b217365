------------------------------ MODULE Failover ------------------------------
(***************************************************************************)
(* What the portfolio promises of the order of its attempts, without       *)
(* processes, buffers or files: from a set of ranked alternatives, the     *)
(* first one is tried; when it is lost, it is dropped and the next is      *)
(* tried; when it answers, everything stops.                               *)
(***************************************************************************)
EXTENDS Integers

CONSTANT Alternatives  \* the ranks; those that are numbers are compared

VARIABLES remaining,   \* the alternatives not dropped
          phase        \* "ranking", "choosing", "trying" or "stopped"

IsFirst(r) == r \in remaining /\ \A q \in remaining \ {r} : r <= q

Init == remaining = {} /\ phase = "ranking"

Rank == /\ phase = "ranking"
        /\ remaining' \in SUBSET Alternatives
        /\ phase' = "choosing"

Try == /\ phase = "choosing"
       /\ remaining # {}
       /\ phase' = "trying"
       /\ UNCHANGED remaining

Drop == /\ phase \in {"choosing", "trying"}
        /\ \E r \in remaining : IsFirst(r) /\ remaining' = remaining \ {r}
        /\ phase' = "choosing"

Answer == /\ phase = "trying"
          /\ phase' = "stopped"
          /\ UNCHANGED remaining

GiveUp == /\ phase \in {"ranking", "choosing"}
          /\ phase' = "stopped"
          /\ UNCHANGED remaining

Next == Rank \/ Try \/ Drop \/ Answer \/ GiveUp

Spec == Init /\ [][Next]_<<remaining, phase>>
=============================================================================
