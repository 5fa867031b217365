------------------------------ MODULE Encoders ------------------------------
(***************************************************************************)
(* The clauses behind msuncore's cardinality constraints.                  *)
(*                                                                         *)
(* A variable is a tuple: <<"x", i>> an input, <<"y", nconstr, l, p>> the  *)
(* node of level l reached with p true inputs.  The others are what gen_id *)
(* returned, named for the call and the place: <<"id", call, <<j>>>> of    *)
(* the counter, <<"zero", call, i>>, <<"min", call, path, i>> and          *)
(* <<"max", call, path, i>> of the sorter.  A literal is a variable with a *)
(* sign.  What is generated is a sequence of gates, each of them a set of  *)
(* clauses.                                                                *)
(***************************************************************************)
EXTENDS Cardinality, Sequences, SequencesExt

Pos(v) == <<TRUE, v>>
Neg(l) == <<~l[1], l[2]>>

(***************************************************************************)
(* Gates.                                                                  *)
(***************************************************************************)
gen_ite(o, s, x1, x0) ==
  {{Neg(s), x1, Neg(o)}, {Neg(s), Neg(x1), o}, {s, x0, Neg(o)}, {s, Neg(x0), o}}
gen_and(o, x1, x0) == {{x1, Neg(o)}, {x0, Neg(o)}, {Neg(x1), Neg(x0), o}}
gen_or(o, x1, x0)  == {{Neg(x1), o}, {Neg(x0), o}, {x1, x0, Neg(o)}}
gen_2equiv(o, i)   == {{Neg(i), o}, {i, Neg(o)}}

gen_implic_pos_ite(o, s, x1, x0) == {{Neg(s), x1, Neg(o)}, {s, x0, Neg(o)}}
gen_implic_pos_and(o, x1, x0)    == {{x1, Neg(o)}, {x0, Neg(o)}}
gen_implic_pos_or(o, x1, x0)     == {{x1, x0, Neg(o)}}

gen_comparator(omn, omx, x1, x2) == gen_and(omn, x1, x2) \cup gen_or(omx, x1, x2)

(***************************************************************************)
(* Special cases.                                                          *)
(***************************************************************************)
gen_ge1(xs)   == <<{{xs[i] : i \in DOMAIN xs}}>>
gen_geN(xs)   == <<{{xs[i]} : i \in DOMAIN xs}>>
gen_leNm1(xs) == <<{{Neg(xs[i]) : i \in DOMAIN xs}}>>
gen_le0(xs)   == <<{{Neg(xs[i])} : i \in DOMAIN xs}>>

(***************************************************************************)
(* BDDs: a node at level l is reached with p true inputs among the first   *)
(* l.  Outside the strip of nodes the constraint is decided already.       *)
(***************************************************************************)
Larger(a, b)  == IF a > b THEN a ELSE b
Smaller(a, b) == IF a < b THEN a ELSE b

mk_yvar(k, l, p) == Pos(<<"y", k, l, p>>)

(* The nodes from the last level up: on level l, p is from base + l to     *)
(* high.                                                                   *)
Strip(n, base, high) ==
  FlattenSeq([j \in 1..n |->
    LET l  == n - j
        lo == Larger(0, base + l)
        hi == Smaller(l, high)
    IN  [i \in 1..(hi - lo + 1) |-> <<l, hi - i + 1>>]])

bdd_gen_atleastN(k, xs, tval) ==
  LET n     == Len(xs)
      nodes == Strip(n, tval - n, tval - 1)
      y(l, p) == mk_yvar(k, l, p)
      gate(l, p) ==
        CASE p < tval - 1 /\ p > tval - (n - l) -> gen_ite(y(l, p), xs[l + 1], y(l + 1, p + 1), y(l + 1, p))
          [] p < tval - 1 /\ p = tval - (n - l) -> gen_and(y(l, p), xs[l + 1], y(l + 1, p + 1))
          [] p = tval - 1 /\ p > tval - (n - l) -> gen_or(y(l, p), xs[l + 1], y(l + 1, p))
          [] p = tval - 1 /\ p = tval - (n - l) -> gen_2equiv(y(l, p), xs[l + 1])
  IN  Append([i \in DOMAIN nodes |-> gate(nodes[i][1], nodes[i][2])], {{y(0, 0)}})

AtMostNodes(k, xs, tval, ite(_, _, _, _), and(_, _, _), or(_, _, _)) ==
  LET n     == Len(xs)
      nodes == Strip(n, tval - n + 1, tval)
      y(l, p) == mk_yvar(k, l, p)
      not(l)  == Neg(xs[l + 1])
      gate(l, p) ==
        CASE p < tval /\ p > tval - (n - l) + 1 -> ite(y(l, p), xs[l + 1], y(l + 1, p + 1), y(l + 1, p))
          [] p < tval /\ p = tval - (n - l) + 1 -> or(y(l, p), not(l), y(l + 1, p + 1))
          [] p = tval /\ p > tval - (n - l) + 1 -> and(y(l, p), not(l), y(l + 1, p))
          [] p = tval /\ p = tval - (n - l) + 1 -> gen_2equiv(y(l, p), not(l))
  IN  Append([i \in DOMAIN nodes |-> gate(nodes[i][1], nodes[i][2])], {{y(0, 0)}})

bdd_gen_atmostN(k, xs, tval) == AtMostNodes(k, xs, tval, gen_ite, gen_and, gen_or)

bdd_atmostN_implic(k, xs, tval) ==
  AtMostNodes(k, xs, tval, gen_implic_pos_ite, gen_implic_pos_and, gen_implic_pos_or)

(***************************************************************************)
(* Sequential counter and pairwise encoding of at most one.                *)
(***************************************************************************)
sc_gen_atmost1(call, xs) ==
  LET n == Len(xs) - 1
      cid(j) == Pos(<<"id", call, <<j>>>>)
  IN  IF n = 0 THEN <<>>
      ELSE <<{{Neg(xs[1]), cid(1)}}>>
             \o [j \in 1..(n - 1) |->
                   {{Neg(xs[j + 1]), Neg(cid(j))}, {Neg(xs[j + 1]), cid(j + 1)},
                    {Neg(cid(j)), cid(j + 1)}}]
             \o <<{{Neg(xs[n + 1]), Neg(cid(n))}}>>

pw_gen_atmost1(xs) ==
  <<UNION {{{Neg(xs[i]), Neg(xs[j])} : j \in (i + 1)..Len(xs)} : i \in DOMAIN xs}>>

(***************************************************************************)
(* Odd-even merge sorters.  The wires are filled up to a power of two, so  *)
(* that both lists of a merge have the same length, a power of two as well *)
(* (what the code does with lists of different lengths is left out).  at   *)
(* is the call, and the path of recursive calls that led to the place.     *)
(***************************************************************************)
Power[k \in Nat] == IF k = 0 THEN 1 ELSE 2 * Power[k - 1]

Moves  == {"A", "B", "merge", "odd", "even"}
Places == [call : Nat, path : Seq(Moves)]
Wires  == {TRUE} \X (({"x"} \X Nat) \cup ({"zero"} \X Nat \X Nat)
                      \cup ({"min", "max"} \X Nat \X Seq(Moves) \X Nat))

Blocks(k) == [1..Power[k] -> Wires]

Down(at, move) == [at EXCEPT !.path = Append(@, move)]

MinId(at, i) == Pos(<<"min", at.call, at.path, i>>)
MaxId(at, i) == Pos(<<"max", at.call, at.path, i>>)

Comparator(at, i, x1, x2) == gen_comparator(MinId(at, i), MaxId(at, i), x1, x2)

Odds(xs)  == [i \in 1..(Len(xs) \div 2) |-> xs[2 * i - 1]]
Evens(xs) == [i \in 1..(Len(xs) \div 2) |-> xs[2 * i]]

(* The final comparison stage: all but the first of the odd and the last   *)
(* of the even are compared, n - 1 pairs.                                  *)
Compared(at, n, odd, even) ==
  [out   |-> [i \in 1..(2 * n) |->
                CASE i = 1     -> odd.out[1]
                  [] i = 2 * n -> even.out[n]
                  [] i > 1 /\ i < 2 * n /\ i % 2 = 0 -> MinId(at, i \div 2)
                  [] i > 1 /\ i < 2 * n /\ i % 2 = 1 -> MaxId(at, i \div 2)],
   gates |-> odd.gates \o even.gates
               \o [i \in 1..(n - 1) |-> Comparator(at, i, odd.out[i + 1], even.out[i])]]

(* The outputs, the least first, and the gates of a merge of two sorted    *)
(* lists of 2^k wires.                                                     *)
srt_recur_odd_even_merge[k \in Nat] ==
  [m \in [at : Places, A : Blocks(k), B : Blocks(k)] |->
     IF k = 0
     THEN [out   |-> <<MinId(m.at, 1), MaxId(m.at, 1)>>,
           gates |-> <<Comparator(m.at, 1, m.A[1], m.B[1])>>]
     ELSE Compared(m.at, Power[k],
            srt_recur_odd_even_merge[k - 1]
              [[at |-> Down(m.at, "odd"), A |-> Odds(m.A), B |-> Odds(m.B)]],
            srt_recur_odd_even_merge[k - 1]
              [[at |-> Down(m.at, "even"), A |-> Evens(m.A), B |-> Evens(m.B)]])]

Lower(xs) == [i \in 1..(Len(xs) \div 2) |-> xs[i]]
Upper(xs) == [i \in 1..(Len(xs) \div 2) |-> xs[Len(xs) \div 2 + i]]

Merged(k, at, A, B) ==
  LET both == srt_recur_odd_even_merge[k][[at |-> Down(at, "merge"), A |-> A.out, B |-> B.out]]
  IN  [out |-> both.out, gates |-> A.gates \o B.gates \o both.gates]

(* Of 2^k wires.  The code's own branch for two makes the comparator that  *)
(* a merge of two makes.                                                   *)
recur_srt_gen[k \in Nat] ==
  [s \in [at : Places, xs : Blocks(k)] |->
     IF k = 0
     THEN [out |-> s.xs, gates |-> <<>>]
     ELSE Merged(k - 1, s.at,
                 recur_srt_gen[k - 1][[at |-> Down(s.at, "A"), xs |-> Lower(s.xs)]],
                 recur_srt_gen[k - 1][[at |-> Down(s.at, "B"), xs |-> Upper(s.xs)]])]

(* The least k with n < 2^k. *)
Radix(n) == CHOOSE k \in 1..n : Power[k - 1] <= n /\ n < Power[k]

srt_gen_atmostN(call, xs, tval) ==
  LET n     == Len(xs)
      zeros == [i \in 1..(Power[Radix(n)] - n) |-> Pos(<<"zero", call, i>>)]
      net   == recur_srt_gen[Radix(n)][[at |-> [call |-> call, path |-> <<>>], xs |-> xs \o zeros]]
  IN  net.gates
        \o [i \in 1..(Power[Radix(n)] - tval) |-> {{Neg(net.out[i])}}]
        \o [i \in 1..(Power[Radix(n)] - n) |-> {{Neg(zeros[i])}}]

(***************************************************************************)
(* What an encoding makes of a request.  nc: how far nconstr advances.     *)
(***************************************************************************)
(* Mutant: a constraint does not advance nconstr.                          *)
MadeSameNames(gates, nc) == [dies |-> FALSE, gates |-> gates, nc |-> 0]

Made(gates, nc) == [dies |-> FALSE, gates |-> gates, nc |-> nc]
Dies == [dies |-> TRUE, gates |-> <<>>, nc |-> 0]

SmallAtMost(xs, tval) ==
  CASE tval >= Len(xs)    -> Made(<<>>, 0)
    [] tval = Len(xs) - 1 -> Made(gen_leNm1(xs), 0)
    [] OTHER              -> Made(gen_le0(xs), 0)

IsSmall(xs, tval) == tval >= Len(xs) - 1 \/ tval = 0

(* k: the number the constraint gets if it takes one. *)
gen_card_constraint(enc, k, call, xs, tval) ==
  CASE enc = "a" -> Dies
    [] enc = "e" -> IF tval > 1 THEN Dies ELSE Made(pw_gen_atmost1(xs), 0)
    [] enc = "c" /\ tval <= 1 -> Made(sc_gen_atmost1(call, xs), 0)
    [] enc = "c" /\ tval > 1  -> IF IsSmall(xs, tval) THEN SmallAtMost(xs, tval) ELSE Dies
    [] enc \in {"b", "i", "s"} /\ IsSmall(xs, tval) -> SmallAtMost(xs, tval)
    [] enc = "b" /\ ~IsSmall(xs, tval) -> Made(bdd_gen_atmostN(k, xs, tval), 1)
    [] enc = "i" /\ ~IsSmall(xs, tval) -> Made(bdd_atmostN_implic(k, xs, tval), 1)
    [] enc = "s" /\ ~IsSmall(xs, tval) ->
         Made(srt_gen_atmostN(call, xs, tval), Power[Radix(Len(xs))] - tval)

gen_extra_card_constraint(enc, k, xs, tval) ==
  CASE enc = "a" -> Dies
    [] enc \in {"c", "e"} -> IF tval > 1 THEN Dies ELSE Made(gen_ge1(xs), 0)
    [] enc = "s" -> IF tval = 1 THEN Made(gen_ge1(xs), 0) ELSE Dies
    [] enc \in {"b", "i"} ->
         CASE tval <= 0      -> Made(<<>>, 0)
           [] tval = 1       -> Made(gen_ge1(xs), 0)
           [] tval > 1 /\ tval = Len(xs) -> Made(gen_geN(xs), 0)
           [] tval > 1 /\ tval # Len(xs) -> Made(bdd_gen_atleastN(k, xs, tval), 1)

Inputs(n) == [i \in 1..n |-> Pos(<<"x", i>>)]

(* The constraint that the clauses made for a request stand for. *)
Contract(r) ==
  LET xs == {<<"x", i>> : i \in 1..r.n}
  IN  IF r.op = "atmost" THEN EncodedAtMost(r.enc, xs, r.rhs)
                         ELSE EncodedAtLeast(r.enc, xs, r.rhs)

(* A clause on an auxiliary variable. *)
Auxiliary(c) == \E l \in c : l[2][1] # "x"

(* The program dies of it. *)
Refuses(r) == IF r.op = "atmost" THEN NoAtMost(r.enc, r.n, r.rhs) ELSE NoAtLeast(r.enc, r.rhs)
=============================================================================
