------------------------------ MODULE Maxsatz ------------------------------
(***************************************************************************)
(* maxsatz, the branch and bound solver behind the estimates: before every *)
(* branch it counts disjoint sets of clauses that cannot all be satisfied, *)
(* replaces clauses by cheaper ones of the same cost, and assigns what one *)
(* value costs no more than the other.  All of it works on one formula in  *)
(* place and is taken back from stacks.                                    *)
(*                                                                         *)
(* The formula f is a record of the code's tables and stacks: the clauses  *)
(* with their state and length, the lists of the clauses each literal is   *)
(* in, the clauses that were satisfied, reduced or became units, the       *)
(* replaced entries of the lists, the number of falsified clauses and the  *)
(* assigned variables, each with its reason (0: none), whether the other   *)
(* value is still to be tried, and how high the stacks were then.  The     *)
(* weights that rank variables and the value tried first are left out: any *)
(* variable may be branched on, with either value first.                   *)
(***************************************************************************)
EXTENDS Cnf, SequencesExt

CONSTANTS
  NB_VAR,   \* the number of variables in the header
  Files     \* records of the clauses of a file and the bound given with it

Variables == 1..NB_VAR
Literals == Variables \cup {-x : x \in Variables}

ASSUME FilesAssumption ==
  /\ NB_VAR \in Nat \ {0}
  /\ \A i \in Files : /\ i.clauses \in Seq(SUBSET Literals \ {{}})
                      /\ i.bound \in Nat

VARIABLES
  file, pc, one_branch_only, UB, f,
  conflict, CLAUSES_TO_REMOVE, base, mark,   \* lookahead
  queue, position, empty_clause,             \* my_unitclause_process
  REASON_STACK, la,                          \* failed_literal
  var, lit_to_fix, cont,                     \* the loops over variables
  caller                                     \* what backtracking returns to

looking == <<conflict, CLAUSES_TO_REMOVE, base, mark>>
units   == <<queue, position, empty_clause>>
failing == <<REASON_STACK, la>>
loops   == <<var, lit_to_fix, cont>>
vars    == <<file, pc, one_branch_only, UB, f, looking, units, failing, loops, caller>>

Clauses == DOMAIN f.var_sign

InOrder(clauses) == SelectSeq([c \in Clauses |-> c], LAMBDA c : c \in clauses)

(***************************************************************************)
(* Reading: no literal twice in a clause, no tautology, by variable.       *)
(***************************************************************************)
Tautology(c) == \E l \in c : -l \in c

lire_clauses(clauses) ==
  LET read == SelectSeq(clauses, LAMBDA c : ~Tautology(c))
  IN  [k \in DOMAIN read |-> SetToSortSeq(read[k], LAMBDA l, m : VarOf(l) < VarOf(m))]

Lists(var_sign) ==
  [l \in Literals |-> SelectSeq([k \in DOMAIN var_sign |-> k],
                                LAMBDA k : l \in Range(var_sign[k]))]

(* init empties the stack of unit clauses the reader filled. *)
build_simple_sat_instance(clauses) ==
  LET var_sign == lire_clauses(clauses)
  IN  [var_sign |-> var_sign, active |-> DOMAIN var_sign,
       length |-> [k \in DOMAIN var_sign |-> Len(var_sign[k])],
       in |-> Lists(var_sign),
       CLAUSE_STACK |-> <<>>, REDUCEDCLAUSE_STACK |-> <<>>, UNITCLAUSE_STACK |-> <<>>,
       SAVED_CLAUSES |-> <<>>, VARIABLE_STACK |-> <<>>, NB_EMPTY |-> 0]

(***************************************************************************)
(* Assigning.  A literal that becomes true satisfies the clauses it is in; *)
(* one that becomes false shortens its clauses, one after the other, until *)
(* too many are empty.                                                     *)
(***************************************************************************)
TrueLits(g) == {g.VARIABLE_STACK[k].lit : k \in DOMAIN g.VARIABLE_STACK}

Assigned(g) == {VarOf(l) : l \in TrueLits(g)}

Entry(l, reason, rest, saved) == [lit |-> l, reason |-> reason, rest |-> rest, saved |-> saved]

Forced(l, reason) == Entry(l, reason, FALSE, <<>>)

Pushed(g, entry) == [g EXCEPT !.VARIABLE_STACK = Append(@, entry)]

Passive(g, clauses) ==
  [g EXCEPT !.active = @ \ Range(clauses), !.CLAUSE_STACK = @ \o clauses]

ActiveIn(g, l) == SelectSeq(g.in[l], LAMBDA c : c \in g.active)

remove_clauses(g, l) == Passive(g, ActiveIn(g, l))

OfLength(g, clauses, n) == SelectSeq(clauses, LAMBDA c : g.length[c] = n)

(* The clauses of l up to the n-th that is empty without l. *)
Upto(g, l, n) ==
  LET all == ActiveIn(g, l)
      ends == {k \in DOMAIN all : Len(OfLength(g, SubSeq(all, 1, k), 1)) = n}
  IN  IF ends = {} THEN all ELSE SubSeq(all, 1, Min(ends))

Times(stack, c) == Cardinality({k \in DOMAIN stack : stack[k] = c})

Reduced(g, clauses) ==
  [g EXCEPT !.length = [c \in DOMAIN @ |-> @[c] - Times(clauses, c)],
            !.REDUCEDCLAUSE_STACK = @ \o clauses]

(* How many more clauses may become empty, one at least, before            *)
(* reduce_clauses returns NONE.                                            *)
room(g) == IF UB - g.NB_EMPTY > 1 THEN UB - g.NB_EMPTY ELSE 1

reduce_clauses(g, l) ==
  LET clauses == Upto(g, -l, room(g))
  IN  [Reduced(g, clauses) EXCEPT !.NB_EMPTY = @ + Len(OfLength(g, clauses, 1)),
                                  !.UNITCLAUSE_STACK = @ \o OfLength(g, clauses, 2)]

Exceeded(g, l) == Len(OfLength(g, ActiveIn(g, -l), 1)) >= room(g)

(* assign_value, and what backtracking does with the second value. *)
assign_value(g, entry) ==
  LET h == reduce_clauses(Pushed(g, entry), entry.lit)
  IN  IF Exceeded(g, entry.lit) THEN h ELSE remove_clauses(h, entry.lit)

(* my_reduce_clauses ends with the first clause that is empty. *)
Emptied(g, l) == OfLength(g, Upto(g, -l, 1), 1)

my_reduce_clauses(g, l) ==
  IF Emptied(g, l) = <<>> THEN remove_clauses(Reduced(g, Upto(g, -l, 1)), l)
  ELSE Reduced(g, Upto(g, -l, 1))

NewUnits(g, l) == OfLength(g, Upto(g, -l, 1), 2)

(***************************************************************************)
(* Taking back.                                                            *)
(***************************************************************************)
Heights(g) ==
  [clauses |-> Len(g.CLAUSE_STACK), reduced |-> Len(g.REDUCEDCLAUSE_STACK),
   units |-> Len(g.UNITCLAUSE_STACK), variables |-> Len(g.VARIABLE_STACK),
   empty |-> g.NB_EMPTY, nb_clause |-> Len(g.var_sign), saved |-> Len(g.SAVED_CLAUSES)]

Above(stack, height) == SubSeq(stack, height + 1, Len(stack))

(* The clauses satisfied since then are active again, the reduced longer.  *)
Reactivated(g, clauses, heights) ==
  [g EXCEPT
    !.active = @ \cup (Range(Above(g.CLAUSE_STACK, clauses)) \cap DOMAIN g.var_sign),
    !.CLAUSE_STACK = SubSeq(@, 1, clauses),
    !.length = [c \in DOMAIN @ |-> @[c] + Times(Above(g.REDUCEDCLAUSE_STACK, heights.reduced), c)],
    !.REDUCEDCLAUSE_STACK = SubSeq(@, 1, heights.reduced),
    !.UNITCLAUSE_STACK = SubSeq(@, 1, heights.units)]

(* What was set aside below the mark stays so. *)
reset_context(g, clauses, heights) ==
  [Reactivated(g, clauses, heights) EXCEPT !.VARIABLE_STACK = SubSeq(@, 1, heights.variables)]

SavedFor(saved, l, place) ==
  {k \in DOMAIN saved : saved[k].lit = l /\ saved[k].place = place}

(* Mutant: what was saved last. *)
PutBackInOrder(in, saved) ==
  [l \in Literals |-> [place \in DOMAIN in[l] |->
     IF SavedFor(saved, l, place) = {} THEN in[l][place]
     ELSE saved[Max(SavedFor(saved, l, place))].clause]]

(* Every place of a list holds again what was saved first for it. *)
PutBack(in, saved) ==
  [l \in Literals |-> [place \in DOMAIN in[l] |->
     IF SavedFor(saved, l, place) = {} THEN in[l][place]
     ELSE saved[Min(SavedFor(saved, l, place))].clause]]

Restored(g, heights) ==
  [Reactivated(g, heights.clauses, heights) EXCEPT
    !.NB_EMPTY = heights.empty,
    !.var_sign = SubSeq(@, 1, heights.nb_clause),
    !.length = SubSeq(@, 1, heights.nb_clause),
    !.active = @ \cap 1..heights.nb_clause,
    !.in = PutBack(@, Above(g.SAVED_CLAUSES, heights.saved)),
    !.SAVED_CLAUSES = SubSeq(@, 1, heights.saved)]

(***************************************************************************)
(* New clauses take the places of old ones in the lists.                   *)
(***************************************************************************)
NewClause(g, lits) ==
  [g EXCEPT !.var_sign = Append(@, lits), !.length = Append(@, Len(lits)),
            !.active = @ \cup {Len(g.var_sign) + 1}]

(* Of the last clause, for the literal l, in the place of the old clause. *)
replace_clause(g, old, l) ==
  LET place == SelectInSeq(g.in[l], LAMBDA c : c = old)
  IN  [g EXCEPT !.in[l][place] = Len(g.var_sign),
                !.SAVED_CLAUSES = Append(@, [lit |-> l, place |-> place, clause |-> old])]

create_binaryclause(g, l1, l2, clause1, clause2) ==
  LET lits == IF VarOf(l1) < VarOf(l2) THEN <<l1, l2>> ELSE <<l2, l1>>
  IN  replace_clause(replace_clause(NewClause(g, lits), clause1, l1), clause2, l2)

create_ternary_clauses(g, l1, l2, l3, clause1, clause2, clause3) ==
  replace_clause(replace_clause(replace_clause(
    NewClause(g, <<l1, l2, l3>>), clause1, l1), clause2, l2), clause3, l3)

create_unitclause(g, l, subsumed) ==
  [replace_clause(NewClause(g, <<l>>), subsumed, l) EXCEPT
     !.UNITCLAUSE_STACK = Append(@, Len(g.var_sign) + 1)]

(***************************************************************************)
(* my_unitclause_process: the next clause of the queue the last ones gave, *)
(* or of the stack of units; what is assigned remembers the clause.        *)
(***************************************************************************)
Propagating == pc \in {"look", "false", "true"}

Quiet == empty_clause = 0 /\ queue = <<>> /\ position = Len(f.UNITCLAUSE_STACK)

IsUnit(c) == c \in f.active /\ f.length[c] > 0

(* The first literal of the clause that is not assigned. *)
OpenLit(g, c) ==
  g.var_sign[c][SelectInSeq(g.var_sign[c], LAMBDA l : VarOf(l) \notin Assigned(g))]

(* Assigned for the sake of the argument. *)
Supposed(g, l, reason) == my_reduce_clauses(Pushed(g, Forced(l, reason)), l)

First(s) == IF s = <<>> THEN 0 ELSE Head(s)

satisfy_unitclause(c, rest) ==
  IF IsUnit(c)
  THEN LET l == OpenLit(f, c)
       IN  /\ f' = Supposed(f, l, c)
           /\ queue' = rest \o NewUnits(f, l)
           /\ empty_clause' = First(Emptied(f, l))
  ELSE queue' = rest /\ UNCHANGED <<f, empty_clause>>

my_unitclause_process ==
  /\ Propagating /\ empty_clause = 0 /\ ~Quiet
  /\ IF queue # <<>>
     THEN satisfy_unitclause(Head(queue), Tail(queue)) /\ UNCHANGED position
     ELSE /\ position' = position + 1
          /\ satisfy_unitclause(f.UNITCLAUSE_STACK[position + 1], <<>>)
  /\ UNCHANGED <<file, pc, one_branch_only, UB, looking, failing, loops, caller>>

ProcessFrom(p) == queue' = <<>> /\ position' = p /\ empty_clause' = 0

(***************************************************************************)
(* Why a clause is empty: the clauses its literals are false by, and those *)
(* whose literals are false by, and so on.                                 *)
(***************************************************************************)
ReasonOf(g, x) ==
  LET k == CHOOSE k \in DOMAIN g.VARIABLE_STACK : VarOf(g.VARIABLE_STACK[k].lit) = x
  IN  IF x \in Assigned(g) THEN g.VARIABLE_STACK[k].reason ELSE 0

Reasoned(g, c) == SelectSeq(g.var_sign[c], LAMBDA l : ReasonOf(g, VarOf(l)) # 0)

RECURSIVE store_reason_clauses(_, _)
store_reason_clauses(g, clauses) ==
  LET before == {ReasonOf(g, VarOf(l)) : l \in UNION {Range(Reasoned(g, c)) : c \in clauses}}
  IN  IF before \subseteq clauses THEN clauses ELSE store_reason_clauses(g, clauses \cup before)

(* The reasons from x back to a unit clause when each has one literal that *)
(* has a reason itself; <<>> when one has more.  It ends with a clause of  *)
(* the set stop when it comes to one.                                      *)
RECURSIVE search_linear_reason(_, _, _)
search_linear_reason(g, x, stop) ==
  LET c    == ReasonOf(g, x)
      more == {VarOf(l) : l \in Range(Reasoned(g, c))} \ {x}
      rest == search_linear_reason(g, CHOOSE y \in more : TRUE, stop)
  IN  CASE c \in stop \/ more = {} -> <<c>>
        [] c \notin stop /\ Cardinality(more) > 1 -> <<>>
        [] c \notin stop /\ Cardinality(more) = 1 -> IF rest = <<>> THEN <<>> ELSE <<c>> \o rest

(* A clause (not l1 or l2) of a chain gives (l1 or not l2): l1 was implied *)
(* by clause1, and clause2 is the one that l2 shortened.                   *)
create_complementary_binclause(h, g, c, clause1, clause2) ==
  LET l1 == CHOOSE l \in Range(Reasoned(g, c)) : ReasonOf(g, VarOf(l)) = clause1
      l2 == CHOOSE l \in Range(Reasoned(g, c)) : l # l1
  IN  create_binaryclause(h, -l1, -l2, clause1, clause2)

(* The clauses of a chain from its place from on, the last left out.       *)
RECURSIVE Complemented(_, _, _, _)
Complemented(h, g, chain, from) ==
  IF from >= Len(chain) THEN h
  ELSE Complemented(create_complementary_binclause(h, g, chain[from], chain[from + 1], chain[from - 1]),
                    g, chain, from + 1)

(* The two chains of an empty clause that has two literals with a reason,  *)
(* or one; the clause comes first in each.                                 *)
Chain1(c) == <<c>> \o search_linear_reason(f, VarOf(Reasoned(f, c)[1]), {})
Chain2(c) ==
  IF Len(Reasoned(f, c)) = 1 THEN <<c>>
  ELSE <<c>> \o search_linear_reason(f, VarOf(Reasoned(f, c)[2]), Range(Tail(Chain1(c))))

HasChains(c) ==
  /\ Len(Reasoned(f, c)) <= 2
  /\ Len(Chain1(c)) > 1
  /\ Len(Reasoned(f, c)) = 2 => Len(Chain2(c)) > 1

Linear(c) == HasChains(c) /\ Range(Tail(Chain1(c))) \cap Range(Tail(Chain2(c))) = {}

SIMPLE_NON_LINEAR_CASE(c) ==
  /\ HasChains(c)
  /\ Len(Chain2(c)) = 3 /\ Len(Chain1(c)) > 2 /\ Chain2(c)[3] = Chain1(c)[3]

linear_conflict(c) ==
  LET lits == Reasoned(f, c)
      one  == Chain1(c)
      two  == Chain2(c)
      both == IF Len(lits) = 2 THEN create_binaryclause(f, -lits[1], -lits[2], one[2], two[2]) ELSE f
  IN  Complemented(Complemented(both, f, two, 2), f, one, 2)

(* The chains meet in one clause, whose literal implies both.              *)
non_linear_conflict(c) ==
  LET lits == Reasoned(f, c)
      one  == Chain1(c)
      two  == Chain2(c)
      l    == CHOOSE l \in Range(f.var_sign[one[3]]) : l \in TrueLits(f)
  IN  create_ternary_clauses(
        create_ternary_clauses(Complemented(f, f, one, 3), l, lits[1], lits[2], one[3], c, c),
        -l, -lits[1], -lits[2], two[2], one[2], two[2])

ClausesOf(c) == IF Linear(c) THEN Chain1(c) \o Tail(Chain2(c)) ELSE Chain1(c) \o <<Chain2(c)[2]>>

(***************************************************************************)
(* lookahead.                                                              *)
(***************************************************************************)
Bounded == conflict + f.NB_EMPTY < UB

lookahead ==
  /\ pc = "lookahead"
  /\ conflict' = 0 /\ CLAUSES_TO_REMOVE' = <<>>
  /\ base' = Heights(f) /\ mark' = Len(f.CLAUSE_STACK)
  /\ ProcessFrom(0)
  /\ pc' = "look"
  /\ UNCHANGED <<file, one_branch_only, UB, f, failing, loops, caller>>

(* Set aside until the lookahead ends. *)
SetAside(g, clauses) ==
  /\ f' = Passive(reset_context(g, mark, base), clauses)
  /\ mark' = Len(f'.CLAUSE_STACK)

GiveUp ==
  /\ pc = "look" /\ empty_clause # 0
  /\ conflict + 1 + f.NB_EMPTY >= UB
  /\ conflict' = conflict + 1
  /\ pc' = "looked"
  /\ UNCHANGED <<file, one_branch_only, UB, f, CLAUSES_TO_REMOVE, base, mark, units, failing, loops,
                 caller>>

(* The clauses are replaced by an empty one and some that cost no more.    *)
Replace(g) ==
  /\ SetAside([g EXCEPT !.NB_EMPTY = @ + 1], ClausesOf(empty_clause))
  /\ CLAUSES_TO_REMOVE' = CLAUSES_TO_REMOVE \o ClausesOf(empty_clause)
  /\ UNCHANGED conflict

Count ==
  /\ SetAside(f, InOrder(store_reason_clauses(f, {empty_clause})))
  /\ conflict' = conflict + 1
  /\ UNCHANGED CLAUSES_TO_REMOVE

Conflict ==
  /\ pc = "look" /\ empty_clause # 0
  /\ conflict + 1 + f.NB_EMPTY < UB
  /\ \/ Linear(empty_clause) /\ Replace(linear_conflict(empty_clause))
     \/ SIMPLE_NON_LINEAR_CASE(empty_clause) /\ Replace(non_linear_conflict(empty_clause))
     \/ ~Linear(empty_clause) /\ ~SIMPLE_NON_LINEAR_CASE(empty_clause) /\ Count
  /\ ProcessFrom(0)
  /\ UNCHANGED <<file, pc, one_branch_only, UB, base, failing, loops, caller>>

LookedThrough ==
  /\ pc = "look" /\ Quiet
  /\ f' = IF Bounded THEN reset_context(f, mark, base) ELSE f
  /\ pc' = IF Bounded THEN "fail" ELSE "looked"
  /\ var' = 1 /\ la' = 0 /\ REASON_STACK' = {}
  /\ UNCHANGED <<file, one_branch_only, UB, looking, units, lit_to_fix, cont, caller>>

(***************************************************************************)
(* failed_literal: a variable neither of whose values can be propagated.   *)
(***************************************************************************)
there_is_unit_clause(x) ==
  \E c \in Range(f.UNITCLAUSE_STACK) :
     IsUnit(c) /\ x \notin Assigned(f) /\ \E l \in Range(f.var_sign[c]) : VarOf(l) = x

OfTwo(l) == Len(OfLength(f, ActiveIn(f, l), 2))

MayFail(x) ==
  /\ x \notin Assigned(f) /\ ~there_is_unit_clause(x)
  /\ OfTwo(x) > 1 /\ OfTwo(-x) > 1

(* Its own new units go on the stack the clauses are taken from.           *)
assign_and_unitclause_process(g, l) ==
  /\ f' = [Supposed(g, l, 0) EXCEPT !.UNITCLAUSE_STACK = @ \o NewUnits(g, l)]
  /\ queue' = <<>> /\ position' = base.units
  /\ empty_clause' = First(Emptied(g, l))

Failing == pc = "fail" /\ var <= NB_VAR /\ la + conflict + f.NB_EMPTY < UB

TryFalse ==
  /\ Failing /\ MayFail(var)
  /\ assign_and_unitclause_process(f, -var)
  /\ pc' = "false"
  /\ UNCHANGED <<file, one_branch_only, UB, looking, failing, loops, caller>>

Skip ==
  /\ Failing /\ ~MayFail(var)
  /\ var' = var + 1
  /\ UNCHANGED <<file, pc, one_branch_only, UB, f, looking, units, failing, lit_to_fix, cont, caller>>

(* FALSE fails: its reasons are kept while TRUE is tried.                  *)
TryTrue ==
  /\ pc = "false" /\ empty_clause # 0
  /\ REASON_STACK' = store_reason_clauses(f, {empty_clause})
  /\ assign_and_unitclause_process(reset_context(f, mark, base), var)
  /\ pc' = "true"
  /\ UNCHANGED <<file, one_branch_only, UB, looking, la, loops, caller>>

BothFail ==
  /\ pc = "true" /\ empty_clause # 0
  /\ la' = la + 1
  /\ SetAside(f, InOrder(REASON_STACK \cup store_reason_clauses(f, {empty_clause})))
  /\ REASON_STACK' = {}
  /\ pc' = "fail" /\ var' = var + 1
  /\ ProcessFrom(0)
  /\ UNCHANGED <<file, one_branch_only, UB, conflict, CLAUSES_TO_REMOVE, base, lit_to_fix, cont, caller>>

NoFailure ==
  /\ pc \in {"false", "true"} /\ Quiet
  /\ f' = reset_context(f, mark, base)
  /\ REASON_STACK' = {}
  /\ pc' = "fail" /\ var' = var + 1
  /\ ProcessFrom(0)
  /\ UNCHANGED <<file, one_branch_only, UB, looking, la, lit_to_fix, cont, caller>>

EndFailed ==
  /\ pc = "fail" /\ ~Failing
  /\ conflict' = conflict + la
  /\ pc' = "looked"
  /\ UNCHANGED <<file, one_branch_only, UB, f, CLAUSES_TO_REMOVE, base, mark, units, failing, loops,
                 caller>>

Backtrack(to) == pc' = "back" /\ caller' = to

(* Everything that was set aside is active again, but what was replaced.   *)
LookedAhead ==
  /\ pc = "looked"
  /\ \/ /\ ~Bounded
        /\ f' = reset_context(f, base.clauses, base)
        /\ Backtrack("loop")
     \/ /\ Bounded
        /\ f' = Passive(reset_context(f, base.clauses, base), CLAUSES_TO_REMOVE)
        /\ pc' = IF UB - f.NB_EMPTY = 1 THEN "choose units" ELSE "inspect"
        /\ UNCHANGED caller
  /\ ProcessFrom(0)
  /\ var' = 1 /\ cont' = 0
  /\ lit_to_fix' = [c \in Clauses |-> 0]
  /\ CLAUSES_TO_REMOVE' = <<>>
  /\ UNCHANGED <<file, one_branch_only, UB, conflict, base, mark, failing>>

(***************************************************************************)
(* unitclause_process: one more empty clause reaches the bound, so units   *)
(* are assigned.                                                           *)
(***************************************************************************)
unitclause_process ==
  /\ pc \in {"dpl units", "choose units"}
  /\ position < Len(f.UNITCLAUSE_STACK)
  /\ position' = position + 1
  /\ LET c == f.UNITCLAUSE_STACK[position + 1]
     IN  \/ ~IsUnit(c) /\ UNCHANGED <<f, pc, caller>>
         \/ /\ IsUnit(c)
            /\ f' = assign_value(f, Forced(OpenLit(f, c), 0))
            /\ IF Exceeded(f, OpenLit(f, c))
               THEN Backtrack(IF pc = "dpl units" THEN "lookahead" ELSE "loop")
               ELSE UNCHANGED <<pc, caller>>
  /\ UNCHANGED <<file, one_branch_only, UB, looking, queue, empty_clause, failing, loops>>

UnitsProcessed ==
  /\ pc \in {"dpl units", "choose units"}
  /\ position = Len(f.UNITCLAUSE_STACK)
  /\ pc' = IF pc = "dpl units" THEN "lookahead" ELSE "inspect"
  /\ UNCHANGED <<file, one_branch_only, UB, f, looking, units, failing, loops, caller>>

(***************************************************************************)
(* The clauses of two literals of a variable, compared with those seen     *)
(* before: (l or m) and (l or not m) become the unit clause l, units of    *)
(* both signs an empty clause.  s holds the formula and what was seen:     *)
(* the first literal a clause was seen for (0: none), the clause another   *)
(* literal waits for with the variable, and the units.                     *)
(***************************************************************************)
Resolved(s, l, clause1, clause2) ==
  [s EXCEPT !.f = create_unitclause(Passive(s.f, <<clause1, clause2>>), l, clause1),
            !.lit_to_fix = Append(@, 0)]

IsOpen(s, c, n) == c \in s.f.active /\ s.f.length[c] = n

Usable(s, c) == c # 0 /\ c \in s.f.active

searching_two_clauses_to_fix_neglit(s, c, l) ==
  LET m == s.lit_to_fix[c]
  IN  CASE m = 0 -> [s EXCEPT !.lit_to_fix[c] = l]
        [] m # 0 /\ Usable(s, s.fixing_clause[-m]) ->
             [Resolved(s, l, s.fixing_clause[-m], c) EXCEPT
                !.fixing_clause[-m] = 0, !.lit_involved_in_clause[-m] = 0]
        [] OTHER -> [s EXCEPT !.fixing_clause[m] = c, !.lit_involved_in_clause[m] = c]

searching_two_clauses_to_fix_poslit(s, c, l) ==
  LET m == s.lit_to_fix[c]
  IN  CASE m = 0 -> [s EXCEPT !.lit_to_fix[c] = l]
        [] m # 0 /\ Usable(s, s.lit_involved_in_clause[m]) ->
             Resolved(s, m, s.lit_involved_in_clause[m], c)
        [] m # 0 /\ ~Usable(s, s.lit_involved_in_clause[m]) /\ Usable(s, s.fixing_clause[-m]) ->
             [Resolved(s, l, s.fixing_clause[-m], c) EXCEPT !.fixing_clause[-m] = 0]
        [] OTHER -> [s EXCEPT !.fixing_clause[m] = c]

RECURSIVE get_neg_clause_nb(_, _, _)
get_neg_clause_nb(s, l, clauses) ==
  IF clauses = <<>> THEN s
  ELSE LET c == Head(clauses)
           t == CASE IsOpen(s, c, 1) -> [s EXCEPT !.units = Append(@, c)]
                  [] IsOpen(s, c, 2) -> searching_two_clauses_to_fix_neglit(s, c, l)
                  [] OTHER -> s
       IN  get_neg_clause_nb(t, l, Tail(clauses))

(* Two contradicting units are one empty clause. *)
Cancelled(s, c) ==
  [s EXCEPT !.f = [Passive(s.f, <<c, Last(s.units)>>) EXCEPT !.NB_EMPTY = @ + 1],
            !.units = Front(@)]

RECURSIVE get_pos_clause_nb(_, _, _)
get_pos_clause_nb(s, l, clauses) ==
  IF clauses = <<>> THEN s
  ELSE LET c == Head(clauses)
           t == CASE IsOpen(s, c, 1) /\ s.units # <<>> -> Cancelled(s, c)
                  [] IsOpen(s, c, 2) -> searching_two_clauses_to_fix_poslit(s, c, l)
                  [] OTHER -> s
       IN  get_pos_clause_nb(t, l, Tail(clauses))

NoClause == [l \in Literals |-> 0]

Seen == [f |-> f, lit_to_fix |-> lit_to_fix, fixing_clause |-> NoClause,
         lit_involved_in_clause |-> NoClause, units |-> <<>>]

(***************************************************************************)
(* choose_and_instantiate_variable.  What the clauses of a literal number, *)
(* those of length one, and which value costs no more than the other.      *)
(***************************************************************************)
Open(g, l) == Len(SelectSeq(ActiveIn(g, l), LAMBDA c : g.length[c] > 0))

Units(g, l) == Len(OfLength(g, ActiveIn(g, l), 1))

Assign(g, l) ==
  /\ f' = assign_value(g, Forced(l, 0))
  /\ IF Exceeded(g, l) THEN Backtrack("loop") ELSE UNCHANGED <<pc, caller>>
  /\ UNCHANGED cont

(* The rules are tried in this order, each for FALSE first.                *)
Rule(g, x) ==
  CASE Units(g, -x) + g.NB_EMPTY >= UB -> -x
    [] Units(g, -x) + g.NB_EMPTY < UB /\ Units(g, x) + g.NB_EMPTY >= UB -> x
    [] Units(g, -x) + g.NB_EMPTY < UB /\ Units(g, x) + g.NB_EMPTY < UB ->
         IF Units(g, -x) >= Open(g, x) THEN -x
         ELSE IF Units(g, x) >= Open(g, -x) THEN x ELSE 0

(* Mutant: what the dearer value costs. *)
Dearest(g, x) == IF Units(g, -x) > Units(g, x) THEN Units(g, -x) ELSE Units(g, x)

Cheapest(g, x) == IF Units(g, -x) > Units(g, x) THEN Units(g, x) ELSE Units(g, -x)

Inspect ==
  /\ pc = "inspect" /\ var <= NB_VAR /\ var \notin Assigned(f)
  /\ \E neg \in {get_neg_clause_nb(Seen, -var, f.in[-var])} :
     \E pos \in {get_pos_clause_nb([neg EXCEPT !.fixing_clause = NoClause], var, neg.f.in[var])} :
         IF Open(neg.f, -var) = 0
         THEN /\ f' = remove_clauses(Pushed(neg.f, Forced(var, 0)), var)
              /\ lit_to_fix' = neg.lit_to_fix
              /\ UNCHANGED <<pc, caller, cont>>
         ELSE /\ lit_to_fix' = pos.lit_to_fix
              /\ \/ /\ Open(pos.f, var) = 0
                    /\ f' = remove_clauses(Pushed(pos.f, Forced(-var, 0)), -var)
                    /\ UNCHANGED <<pc, caller, cont>>
                 \/ /\ Open(pos.f, var) > 0 /\ Rule(pos.f, var) # 0
                    /\ Assign(pos.f, Rule(pos.f, var))
                 \/ /\ Open(pos.f, var) > 0 /\ Rule(pos.f, var) = 0
                    /\ f' = pos.f
                    /\ cont' = cont + Cheapest(pos.f, var)
                    /\ UNCHANGED <<pc, caller>>
  /\ var' = var + 1
  /\ UNCHANGED <<file, one_branch_only, UB, looking, units, failing>>

PassOver ==
  /\ pc = "inspect" /\ var <= NB_VAR /\ var \in Assigned(f)
  /\ var' = var + 1
  /\ UNCHANGED <<file, pc, one_branch_only, UB, f, looking, units, failing, lit_to_fix, cont, caller>>

(* When only one branch is wanted FALSE comes first.                       *)
Branches(x) == IF one_branch_only THEN {-x} ELSE {x, -x}

choose_and_instantiate_variable ==
  /\ pc = "inspect" /\ var > NB_VAR
  /\ \/ /\ cont + f.NB_EMPTY >= UB
        /\ Backtrack("loop")
        /\ UNCHANGED f
     \/ /\ cont + f.NB_EMPTY < UB /\ Assigned(f) = Variables
        /\ pc' = "top"
        /\ UNCHANGED <<f, caller>>
     \/ /\ cont + f.NB_EMPTY < UB
        /\ \E x \in Variables \ Assigned(f) : \E l \in Branches(x) :
             /\ f' = assign_value(f, Entry(l, 0, TRUE, Heights(f)))
             /\ IF Exceeded(f, l) THEN Backtrack("loop") ELSE pc' = "top" /\ UNCHANGED caller
  /\ UNCHANGED <<file, one_branch_only, UB, looking, units, failing, loops>>

(***************************************************************************)
(* dpl and backtracking.                                                   *)
(***************************************************************************)
AllAssigned == Len(f.VARIABLE_STACK) = NB_VAR

Leaf ==
  /\ pc = "top" /\ AllAssigned
  /\ UB' = f.NB_EMPTY
  /\ IF one_branch_only THEN pc' = "done" /\ UNCHANGED caller ELSE Backtrack("leaf")
  /\ UNCHANGED <<file, one_branch_only, f, looking, units, failing, loops>>

dpl ==
  /\ pc = "head" \/ (pc = "top" /\ ~AllAssigned)
  /\ pc' = IF UB - f.NB_EMPTY = 1 THEN "dpl units" ELSE "lookahead"
  /\ ProcessFrom(0)
  /\ UNCHANGED <<file, one_branch_only, UB, f, looking, failing, loops, caller>>

Popped == [f EXCEPT !.VARIABLE_STACK = Front(@)]

(* What follows a call of backtracking that does not have to be repeated.  *)
Return(emptied) ==
  pc' = CASE caller = "leaf" -> IF emptied THEN "done" ELSE "head"
          [] caller = "lookahead" -> "lookahead"
          [] caller = "loop" -> IF emptied THEN "done" ELSE "top"

PopOn == IF Len(f.VARIABLE_STACK) = 1 THEN Return(TRUE) ELSE UNCHANGED pc

backtracking ==
  /\ pc = "back" /\ f.VARIABLE_STACK # <<>>
  /\ LET top == Last(f.VARIABLE_STACK)
         old == Restored(Popped, top.saved)
     IN  \/ ~top.rest /\ f' = Popped /\ PopOn
         \/ top.rest /\ old.NB_EMPTY >= UB /\ f' = old /\ PopOn
         \/ /\ top.rest /\ old.NB_EMPTY < UB
            /\ f' = assign_value(old, Forced(-top.lit, 0))
            /\ IF Exceeded(old, -top.lit) THEN UNCHANGED pc ELSE Return(FALSE)
  /\ UNCHANGED <<file, one_branch_only, UB, looking, units, failing, loops, caller>>

(* Called when nothing is assigned it reads what lies before the stack,    *)
(* and dpl ends, unless that is no variable.                               *)
PopNothing ==
  /\ pc = "back" /\ f.VARIABLE_STACK = <<>>
  /\ pc' \in {"done", "crashed"}
  /\ UNCHANGED <<file, one_branch_only, UB, f, looking, units, failing, loops, caller>>

-----------------------------------------------------------------------------
Init ==
  /\ file \in Files
  /\ one_branch_only \in BOOLEAN
  /\ UB = file.bound
  /\ f = build_simple_sat_instance(file.clauses)
  /\ pc = "top" /\ caller = "leaf"
  /\ conflict = 0 /\ CLAUSES_TO_REMOVE = <<>> /\ base = Heights(f) /\ mark = 0
  /\ queue = <<>> /\ position = 0 /\ empty_clause = 0
  /\ REASON_STACK = {} /\ la = 0
  /\ var = 1 /\ lit_to_fix = <<>> /\ cont = 0

Look == lookahead \/ my_unitclause_process \/ GiveUp \/ Conflict \/ LookedThrough \/ LookedAhead

failed_literal == TryFalse \/ Skip \/ TryTrue \/ BothFail \/ NoFailure \/ EndFailed

Choose ==
  \/ unitclause_process \/ UnitsProcessed \/ Inspect \/ PassOver
  \/ choose_and_instantiate_variable

Ended == pc \in {"done", "crashed"}

Stopped == Ended /\ UNCHANGED vars

Next == Leaf \/ dpl \/ Look \/ failed_literal \/ Choose \/ backtracking \/ PopNothing
        \/ Stopped

(* The program is sequential: until it ends it goes on.  This is           *)
(* WF_vars(Next) with ENABLED spelled out: the runs check for deadlock.    *)
GoesOn == []<>Ended \/ []<><<Next>>_vars

Spec == Init /\ [][Next]_vars /\ GoesOn

-----------------------------------------------------------------------------
Cost(true) == Cardinality({k \in DOMAIN file.clauses : ~Satisfies(true, file.clauses[k])})

TypeOK ==
  /\ file \in Files /\ one_branch_only \in BOOLEAN /\ UB \in Nat
  /\ f.active \subseteq Clauses /\ DOMAIN f.length = Clauses
  /\ \A l \in Literals : Range(f.in[l]) \subseteq Clauses
  /\ \A c \in Clauses : Range(f.var_sign[c]) \subseteq Literals
  /\ Cardinality(TrueLits(f)) = Len(f.VARIABLE_STACK)
  /\ \A l \in TrueLits(f) : l \in Literals /\ -l \notin TrueLits(f)

(* The lengths, the lists and the state of the clauses are those of the    *)
(* formula under the assignment.                                           *)
ClausesExact ==
  \A c \in f.active :
    LET open == {l \in Range(f.var_sign[c]) : VarOf(l) \notin Assigned(f)}
    IN  /\ f.length[c] = Cardinality(open)
        /\ \A l \in Range(f.var_sign[c]) : l \notin TrueLits(f)
        /\ \A l \in open : Len(SelectSeq(f.in[l], LAMBDA d : d = c)) = 1

Outside == pc \in {"top", "head", "dpl units", "lookahead", "choose units", "inspect"}

(* Whatever was replaced, set aside and taken back: every way to complete  *)
(* the assignment falsifies as many clauses of the file as are counted     *)
(* already and falsified in the formula at work.                           *)
CostKept ==
  \A true \in SUBSET Variables :
    (\A l \in TrueLits(f) : Holds(l, true)) =>
      Cost(true) = f.NB_EMPTY + Cardinality({c \in f.active : /\ f.length[c] > 0
                                                               /\ ~Satisfies(true, Range(f.var_sign[c]))})

(* At work on one formula, with replacements taken back from stacks, the   *)
(* program stands between two lookaheads with exact lengths and lists and  *)
(* a formula that costs what the file costs, as long as the bound is not   *)
(* reached.  At a leaf it is what verify_solution compares.                *)
FormulaExact == TypeOK /\ (Outside /\ f.NB_EMPTY < UB => ClausesExact /\ CostKept)

Best == Min({Cost(true) : true \in SUBSET Variables})

(* The search ends.  What it may print at any moment, when the alarm stops *)
(* it, is the bound given with the file or the cost of an assignment; what *)
(* it prints in the end is the least cost, or the bound when that is less, *)
(* if it tries both branches.                                              *)
FindsBest ==
  /\ <>Ended
  /\ [](UB = file.bound \/ \E true \in SUBSET Variables : UB = Cost(true))
  /\ [](pc = "done" /\ ~one_branch_only => UB = Min({Best, file.bound}))
=============================================================================
