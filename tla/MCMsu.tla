------------------------------- MODULE MCMsu -------------------------------
(* Files of up to five clauses over two and three variables: as many as    *)
(* four soft clauses can have to be falsified.                             *)
EXTENDS Msu

Clause(c) == [kind |-> "clause", lits |-> c, weight |-> 0]
Mark(kind)   == [kind |-> kind, lits |-> {}, weight |-> 0]
Weight(w)    == [kind |-> "weight", lits |-> {}, weight |-> w]

InOrder == <<{1}, {-1}, {2}, {-2}, {1, 2}, {-1, -2}, {-1, 2}, {-2, 1}, {-1, 2, 3}>>
InLines(clauses) ==
  LET chosen == SelectSeq(InOrder, LAMBDA c : c \in clauses)
  IN  [i \in DOMAIN chosen |-> Clause(chosen[i])]

Units == {{1}, {-1}, {2}, {-2}}

Cnf(clauses) == [format |-> "cnf", lines |-> InLines(clauses)]
Pmcnf(hard, soft) ==
  [format |-> "pmcnf",
   lines  |-> <<Mark("hard")>> \o InLines(hard) \o <<Mark("soft")>> \o InLines(soft)]

CnfFiles == {Cnf(cs) : cs \in {s \in SUBSET (Units \cup {{-1, 2}}) : s # {}}}

PartialFiles ==
  {Pmcnf(h, s) : h \in {{}, {{1, 2}}, {{1, 2}, {-1, -2}}, {{1}, {2}}, {{1}, {-1, 2}, {-2, 1}}},
                 s \in {{{1}, {-2}}, {{-1}, {-2}}, {{-1, -2}}, {{-1}, {-2}, {-1, 2, 3}}}}

(* Lines twice, markers twice, a unit after its negation, no marker. *)
OddFiles ==
  {[format |-> "cnf", lines |-> <<Clause({1}), Clause({-1}), Clause({1})>>],
   [format |-> "pmcnf", lines |-> <<Mark("soft"), Clause({1}), Clause({-1}), Clause({-1, 2}), Clause({-1, -2})>>],
   [format |-> "pmcnf", lines |-> <<Clause({1}), Mark("soft"), Clause({-1}), Clause({-1, 2})>>],
   [format |-> "pmcnf", lines |-> <<Mark("soft"), Mark("soft"), Clause({1})>>],
   [format |-> "pmcnf", lines |-> <<Mark("hard"), Clause({1}), Clause({1}), Mark("soft"),
                                    Clause({-1, 2}), Mark("hard"), Clause({-2})>>],
   Pmcnf({{1, 2}, {-1}, {-2}}, {{1, -2}}),
   Pmcnf({{1, 2}, {-1, 2}, {-2, 1}}, {{-1}, {-2}, {-1, -2}}),
   [format |-> "wmcnf", lines |-> <<Weight(3), Clause({1}), Weight(1), Clause({-1})>>],
   [format |-> "wmcnf", lines |-> <<Weight(2), Clause({1}), Weight(0), Clause({-1})>>]}

MCFiles == CnfFiles \cup PartialFiles \cup OddFiles

Opt(alg, enc, q, m, T) == [alg |-> alg, enc |-> enc, q |-> q, m |-> m, T |-> T]

MCOptions ==
  {Opt(1, "e", FALSE, 0, TRUE), Opt(1, "b", TRUE, 2, FALSE), Opt(1, "a", FALSE, 0, FALSE),
   Opt(2, "i", FALSE, 0, TRUE), Opt(2, "c", FALSE, 0, FALSE),
   Opt(3, "i", FALSE, 0, TRUE), Opt(3, "s", TRUE, 0, FALSE), Opt(3, "b", TRUE, 0, FALSE),
   Opt(3, "c", FALSE, 0, FALSE),
   Opt(4, "b", FALSE, 0, FALSE)}
=============================================================================
