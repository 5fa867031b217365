---------------------------- MODULE Cardinality ----------------------------
(***************************************************************************)
(* The cardinality constraints msuncore asks for and what becomes of each  *)
(* request: which encodings know it, and which bound they enforce.  The    *)
(* clauses the encodings consist of are in Card.                           *)
(*   "a" adders, "b" BDDs with equivalences, "i" BDDs with implications,   *)
(*   "c" sequential counters, "e" pairwise, "s" sorters                    *)
(***************************************************************************)
EXTENDS Integers, FiniteSets

Encodings == {"a", "b", "i", "c", "e", "s"}

AtMost(vs, rhs)  == [op |-> "atmost",  vs |-> vs, rhs |-> rhs]
AtLeast(vs, rhs) == [op |-> "atleast", vs |-> vs, rhs |-> rhs]

(* t, the set of the true variables, meets constraint k. *)
Meets(t, k) ==
  IF k.op = "atmost" THEN Cardinality(t \cap k.vs) <= k.rhs
                     ELSE Cardinality(t \cap k.vs) >= k.rhs

(* gen_card_constraint ends the program: no encoding for this bound. *)
NoAtMost(enc, n, rhs) ==
  \/ enc = "a"
  \/ enc = "e" /\ rhs > 1
  \/ enc = "c" /\ rhs > 1 /\ rhs < n - 1

(* The bound the clauses enforce: counters know no bound below 1, and the  *)
(* pairwise encoding none but 1.                                           *)
EncodedAtMost(enc, vs, rhs) ==
  AtMost(vs, IF enc \in {"c", "e"} /\ rhs < 1 THEN 1 ELSE rhs)

(* gen_extra_card_constraint ends the program. *)
NoAtLeast(enc, rhs) ==
  \/ enc = "a"
  \/ enc \in {"c", "e"} /\ rhs > 1
  \/ enc = "s" /\ rhs # 1

EncodedAtLeast(enc, vs, rhs) ==
  AtLeast(vs, IF enc \in {"c", "e"} /\ rhs < 1 THEN 1 ELSE rhs)
=============================================================================
