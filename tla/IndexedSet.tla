----------------------------- MODULE IndexedSet -----------------------------
(***************************************************************************)
(* The arrays aFalseList/aFalseListPos and aVarInFalseList/                *)
(* aVarInFalseListPos of src/ubcsat/ubcsat-defaults.cc: a set kept as a    *)
(* list together with the place of each member in it, so that a member is  *)
(* added, removed and drawn at random in constant time.  What lies behind  *)
(* the end of a list is never read and is left out; the place of an        *)
(* element that is not in the list is whatever it was when it left.        *)
(***************************************************************************)
EXTENDS Integers, Sequences, SequencesExt

(* Nothing is in the list: 0 stands for what the heap holds.               *)
EmptyOver(E) == [list |-> <<>>, pos |-> [e \in E |-> 0]]

(* list[n] = e; pos[e] = n++                                               *)
AddTo(s, e) ==
    [list |-> Append(s.list, e), pos |-> [s.pos EXCEPT ![e] = Len(s.list) + 1]]

Final(s) == s.list[Len(s.list)]

(* list[pos[e]] = list[--n]; pos[list[n]] = pos[e]: the last member takes  *)
(* the place of the one that leaves.                                       *)
DropFrom(s, e) ==
    [list |-> SubSeq([s.list EXCEPT ![s.pos[e]] = Final(s)], 1, Len(s.list) - 1),
     pos  |-> [s.pos EXCEPT ![Final(s)] = s.pos[e]]]

(* The members of S, added in ascending order.                             *)
Listed(S, n) ==
    LET add(s, e) == IF e \in S THEN AddTo(s, e) ELSE s
    IN  FoldLeft(add, EmptyOver(1..n), [e \in 1..n |-> e])

(* The list holds the members of S, each once, and knows where.            *)
Represents(s, S) ==
    /\ \A e \in S : s.pos[e] \in 1..Len(s.list) /\ s.list[s.pos[e]] = e
    /\ \A i \in 1..Len(s.list) : s.list[i] \in S /\ s.pos[s.list[i]] = i

=============================================================================
