------------------------------- MODULE Mscore -------------------------------
(***************************************************************************)
(* mscore, the SAT solver msuncore calls: conflict-driven search over two  *)
(* watched literals that traces what every clause it learns was resolved   *)
(* from, and the walk back over the trace that collects the core.          *)
(*                                                                         *)
(* A clause is a record: its literals, the literals it is watched by (the  *)
(* first two of the array in the code, one in a unit clause) and, when it  *)
(* was learnt, the clauses its trace names, each once.  A clause is known  *)
(* by its place in cls: those of the file come first.  The trail holds the *)
(* true literals with the level and the reason (0: a decision) of each,    *)
(* which the code keeps in arrays that it reads for assigned variables     *)
(* only.  What is left of a list of watches to be walked is todo.          *)
(* The order of the literals behind the first two and the activities of    *)
(* variables are left out: what depends on them is a choice.               *)
(***************************************************************************)
EXTENDS Cnf, Sequences, SequencesExt

CONSTANTS
  Files,         \* the files: sequences of clauses without the empty clause
  RestartAfter   \* the conflicts before the first restart

ASSUME FilesAssumption ==
  \A f \in Files :
    /\ f \in Seq(SUBSET (Int \ {0}))
    /\ \A k \in DOMAIN f : f[k] # {}

VARIABLES
  file, pc, cls, watches, trail, trail_lim, qhead, todo, heap, st_confl,
  resolvent, dep_stack, starts, conflictC, model, core, cl_scheds, depcount

assigned == <<trail, trail_lim, qhead>>
solver   == <<cls, watches, assigned, todo, heap, st_confl>>
analysis == <<resolvent, dep_stack>>
counters == <<starts, conflictC>>
trace    == <<core, cl_scheds, depcount>>
vars     == <<file, pc, solver, analysis, counters, model, trace>>

Variables == {1} \cup UNION {1..VarOf(l) : l \in UNION Range(file)}
Literals  == Variables \cup {-x : x \in Variables}

Id == DOMAIN cls

(* Mutant: the last clause of the file counts as learnt. *)
NotFirst(c) == c >= Len(file)

learnt(c) == c > Len(file)

(***************************************************************************)
(* The assignment.                                                         *)
(***************************************************************************)
TrueLits == {trail[k].lit : k \in DOMAIN trail}
True(l)  == l \in TrueLits
False(l) == -l \in TrueLits
Unassigned(x) == ~True(x) /\ ~False(x)

decisionLevel == Len(trail_lim)

(* The place on the trail of the assignment that makes l false. *)
Place(l) == CHOOSE k \in DOMAIN trail : trail[k].lit = -l
LevelOf(l) == trail[Place(l)].level

Entry(l, reason, level) == [lit |-> l, reason |-> reason, level |-> level]

(* cancelUntil: how much of the trail stays. *)
Kept(level) == IF decisionLevel > level THEN trail_lim[level + 1] ELSE Len(trail)

Upto(level) == SubSeq(trail, 1, Kept(level))

(* Mutant: only the variables that were decided go back to the heap. *)
DecisionsUndone(level) ==
  {VarOf(trail[k].lit) : k \in {j \in (Kept(level) + 1)..Len(trail) : trail[j].reason = 0}}

Undone(level) == {VarOf(trail[k].lit) : k \in (Kept(level) + 1)..Len(trail)}

CancelLevels(level) ==
  /\ trail_lim' = IF decisionLevel > level THEN SubSeq(trail_lim, 1, level) ELSE trail_lim
  /\ qhead' = IF decisionLevel > level THEN Kept(level) ELSE qhead

(***************************************************************************)
(* Reading the file.  A unit clause is assigned at once and never watched; *)
(* nothing is propagated before the whole file is read.                    *)
(***************************************************************************)
index(l) == 2 * VarOf(l) + (IF l < 0 THEN 1 ELSE 0)

(* The order of the array after sortUnique. *)
least(lits) == CHOOSE l \in lits : \A m \in lits : index(l) <= index(m)

IsUnit(lits) == lits = {least(lits)}

Watched(lits) ==
  IF IsUnit(lits) THEN <<least(lits)>>
  ELSE <<least(lits), least(lits \ {least(lits)})>>

Clause(lits, watch, deps) == [lits |-> lits, watch |-> watch, deps |-> deps]

(* Clause c joins the lists of the literals that make a watch false. *)
WatchedBy(c, watch) ==
  [l \in Literals |-> IF Len(watch) = 2 /\ -l \in Range(watch)
                      THEN Append(watches[l], c) ELSE watches[l]]

newVars(lits) == heap \cup UNION {1..VarOf(l) : l \in lits}

add_clause ==
  /\ pc = "parse" /\ Len(cls) < Len(file)
  /\ LET c    == Len(cls) + 1
         lits == file[c]
         unit == least(lits)
     IN  /\ cls' = Append(cls, Clause(lits, Watched(lits), {}))
         /\ watches' = WatchedBy(c, Watched(lits))
         /\ heap' = newVars(lits)
         /\ trail' = IF IsUnit(lits) /\ Unassigned(unit)
                     THEN Append(trail, Entry(unit, c, 0)) ELSE trail
         /\ st_confl' = IF IsUnit(lits) /\ False(unit) THEN c ELSE st_confl
  /\ UNCHANGED <<file, pc, trail_lim, qhead, todo, analysis, counters, model, trace>>

solve ==
  /\ pc = "parse" /\ Len(cls) = Len(file)
  /\ pc' = "search"
  /\ UNCHANGED <<file, solver, analysis, counters, model, trace>>

(***************************************************************************)
(* propagate: the next true literal, then the clauses it wakes up, one     *)
(* after the other.                                                        *)
(***************************************************************************)
p == trail[qhead].lit

Dequeue ==
  /\ pc = "search" /\ todo = <<>> /\ qhead < Len(trail)
  /\ qhead' = qhead + 1
  /\ todo' = watches[trail[qhead + 1].lit]
  /\ UNCHANGED <<file, pc, cls, watches, trail, trail_lim, heap, st_confl, analysis, counters,
                 model, trace>>

(* The other watch of the clause, which comes first from now on. *)
first(c) == IF cls[c].watch[1] = -p THEN cls[c].watch[2] ELSE cls[c].watch[1]

NewWatches(c) == {l \in cls[c].lits \ {first(c), -p} : ~False(l)}

Rewatched(c, l) == [cls EXCEPT ![c].watch = <<first(c), l>>]

(* A conflict: the search looks at its cause at once. *)
Conflict(c, level) ==
  /\ pc' = IF level = 0 THEN "final" ELSE "analyze"
  /\ resolvent' = cls[c].lits
  /\ dep_stack' = {c}

(* Mutant: the loop does not go on to the next watch. *)
WatchAgain(c) ==
  /\ True(first(c))
  /\ cls' = Rewatched(c, -p)
  /\ UNCHANGED <<pc, watches, trail, qhead, todo, analysis>>

WatchTrue(c) ==
  /\ True(first(c))
  /\ cls' = Rewatched(c, -p)
  /\ todo' = Tail(todo)
  /\ UNCHANGED <<pc, watches, trail, qhead, analysis>>

FoundWatch(c) ==
  /\ ~True(first(c))
  /\ \E l \in NewWatches(c) :
       /\ cls' = Rewatched(c, l)
       /\ watches' = [watches EXCEPT ![p]  = RemoveAt(@, Len(@) - Len(todo) + 1),
                                     ![-l] = Append(@, c)]
  /\ todo' = Tail(todo)
  /\ UNCHANGED <<pc, trail, qhead, analysis>>

Unit(c) ==
  /\ NewWatches(c) = {} /\ Unassigned(first(c))
  /\ cls' = Rewatched(c, -p)
  /\ trail' = Append(trail, Entry(first(c), c, decisionLevel))
  /\ todo' = Tail(todo)
  /\ UNCHANGED <<pc, watches, qhead, analysis>>

Contradicted(c) ==
  /\ NewWatches(c) = {} /\ False(first(c))
  /\ cls' = Rewatched(c, -p)
  /\ Conflict(c, decisionLevel)
  /\ qhead' = Len(trail)
  /\ todo' = <<>>
  /\ UNCHANGED <<watches, trail>>

Visit ==
  /\ pc = "search" /\ todo # <<>>
  /\ LET c == Head(todo)
     IN  WatchTrue(c) \/ FoundWatch(c) \/ Unit(c) \/ Contradicted(c)
  /\ UNCHANGED <<file, trail_lim, heap, st_confl, counters, model, trace>>

(***************************************************************************)
(* search, when everything is propagated.                                  *)
(***************************************************************************)
Propagated == pc = "search" /\ todo = <<>> /\ qhead = Len(trail)

cancelUntil(level) ==
  /\ trail' = Upto(level)
  /\ CancelLevels(level)
  /\ heap' = heap \cup Undone(level)

(* A unit clause that contradicted another when it was read. *)
StartConflict ==
  /\ Propagated /\ st_confl # 0
  /\ Conflict(st_confl, 0)
  /\ UNCHANGED <<file, solver, counters, model, trace>>

(* 100 * 1.5 ^ starts, cut to an integer. *)
nof_conflicts == (RestartAfter * 3^starts) \div 2^starts

Restart ==
  /\ Propagated /\ st_confl = 0
  /\ conflictC >= nof_conflicts
  /\ cancelUntil(0)
  /\ starts' = starts + 1
  /\ conflictC' = 0
  /\ UNCHANGED <<file, pc, cls, watches, todo, st_confl, analysis, model, trace>>

Searching == Propagated /\ st_confl = 0 /\ conflictC < nof_conflicts

(* The most active variable is taken off the heap, with the assigned ones  *)
(* that are found before it, and made false.                               *)
Decide ==
  /\ Searching
  /\ \E x \in {y \in heap : Unassigned(y)}, passed \in SUBSET {y \in heap : ~Unassigned(y)} :
       /\ heap' = heap \ (passed \cup {x})
       /\ trail' = Append(trail, Entry(-x, 0, decisionLevel + 1))
  /\ trail_lim' = Append(trail_lim, Len(trail))
  /\ UNCHANGED <<file, pc, cls, watches, qhead, todo, st_confl, analysis, counters,
                 model, trace>>

ModelFound ==
  /\ Searching
  /\ \A x \in heap : ~Unassigned(x)
  /\ pc' = "sat"
  /\ model' = TrueLits
  /\ trail' = Upto(0)
  /\ CancelLevels(0)
  /\ heap' = Undone(0)
  /\ UNCHANGED <<file, cls, watches, todo, st_confl, analysis, counters, trace>>

(***************************************************************************)
(* analyze: backwards over the trail, the conflict is resolved with the    *)
(* reasons of its literals, until one of the level is left.  seen marks    *)
(* the variables of the resolvent.                                         *)
(***************************************************************************)
Marked == {k \in DOMAIN trail : -trail[k].lit \in resolvent}

AtLevel == {l \in resolvent : LevelOf(l) = decisionLevel}

(* Mutant: literals false without a decision are left out, as in MiniSat. *)
DecidedRest(c) == {l \in cls[c].lits \ {cls[c].watch[1]} : LevelOf(l) > 0}

Rest(c) == cls[c].lits \ {cls[c].watch[1]}

ResolveLatest ==
  \E k \in Marked :
    /\ \A j \in Marked : j <= k
    /\ resolvent' = (resolvent \ {-trail[k].lit}) \cup Rest(trail[k].reason)
    /\ dep_stack' = dep_stack \cup {trail[k].reason}

Resolve ==
  /\ pc = "analyze" /\ \A l \in AtLevel : AtLevel # {l}
  /\ ResolveLatest
  /\ UNCHANGED <<file, pc, solver, counters, model, trace>>

(* Mutant: any literal but the asserted one. *)
AnyOf(lits) == lits

LatestOf(lits) == {l \in lits : \A m \in lits : LevelOf(m) <= LevelOf(l)}

IsLevelOf(lits, level) ==
  /\ \A l \in lits : LevelOf(l) <= level
  /\ level = 0 \/ \E l \in lits : LevelOf(l) = level

(* The first watch is the literal left, the second one of the latest. *)
LearntWatches(l, others) ==
  IF others = {} THEN {<<l>>} ELSE {<<l, m>> : m \in LatestOf(others)}

(* int_add_clause: the literal left is asserted at the level of the others.*)
Learn ==
  /\ pc = "analyze"
  /\ \E l \in AtLevel, level \in 0..decisionLevel :
       /\ AtLevel = {l}
       /\ IsLevelOf(resolvent \ {l}, level)
       /\ \E watch \in LearntWatches(l, resolvent \ {l}) :
            /\ cls' = Append(cls, Clause(resolvent, watch, dep_stack))
            /\ watches' = WatchedBy(Len(cls) + 1, watch)
       /\ trail' = Append(Upto(level), Entry(l, Len(cls) + 1, level))
       /\ CancelLevels(level)
       /\ heap' = heap \cup Undone(level)
  /\ pc' = "search"
  /\ conflictC' = conflictC + 1
  /\ resolvent' = {} /\ dep_stack' = {}
  /\ UNCHANGED <<file, todo, st_confl, starts, model, trace>>

(***************************************************************************)
(* analyzeFinal: a conflict without decisions is resolved to the empty     *)
(* clause, which is traced as the last one.                                *)
(***************************************************************************)
ResolveFinal ==
  /\ pc = "final" /\ resolvent # {}
  /\ ResolveLatest
  /\ UNCHANGED <<file, pc, solver, counters, model, trace>>

EndTrace ==
  /\ pc = "final" /\ resolvent = {}
  /\ LET empty == Len(cls) + 1
     IN  /\ cls' = Append(cls, Clause({}, <<>>, dep_stack))
         /\ cl_scheds' = {empty}
         /\ depcount' = [d \in 1..empty |-> IF d = empty THEN 1 ELSE 0]
  /\ pc' = "count"
  /\ dep_stack' = {}
  /\ UNCHANGED <<file, watches, assigned, todo, heap, st_confl, resolvent, counters,
                 model, core>>

(***************************************************************************)
(* The walk over the trace, twice from the empty clause: first how many    *)
(* visited clauses name a learnt one, then each when the last that names   *)
(* it was visited.  The clauses of the file it comes to are the core.  The *)
(* code keeps what is scheduled in a queue as well; the order is left out. *)
(***************************************************************************)
Names(c, d) == d \in cls[c].deps

compute_dep_counts ==
  /\ pc = "count"
  /\ \E c \in cl_scheds :
       /\ cl_scheds' = (cl_scheds \ {c})
                         \cup {d \in cls[c].deps : learnt(d) /\ depcount[d] = 0}
       /\ depcount' = [d \in Id |-> IF learnt(d) /\ Names(c, d)
                                     THEN depcount[d] + 1 ELSE depcount[d]]
  /\ UNCHANGED <<file, pc, solver, analysis, counters, model, core>>

begin_traversal ==
  /\ pc = "count" /\ cl_scheds = {}
  /\ pc' = "traverse"
  /\ cl_scheds' = {Len(cls)}
  /\ depcount' = [depcount EXCEPT ![Len(cls)] = @ - 1]
  /\ UNCHANGED <<file, solver, analysis, counters, model, core>>

next_cl2traverse ==
  /\ pc = "traverse"
  /\ \E c \in cl_scheds :
       /\ cl_scheds' = (cl_scheds \ {c})
                         \cup {d \in cls[c].deps : learnt(d) /\ depcount[d] = 1}
       /\ depcount' = [d \in Id |-> IF learnt(d) /\ Names(c, d)
                                     THEN depcount[d] - 1 ELSE depcount[d]]
       /\ core' = core \cup {d \in cls[c].deps : ~learnt(d)}
  /\ UNCHANGED <<file, pc, solver, analysis, counters, model>>

end_traversal ==
  /\ pc = "traverse" /\ cl_scheds = {}
  /\ pc' = "unsat"
  /\ UNCHANGED <<file, solver, analysis, counters, model, trace>>

-----------------------------------------------------------------------------
Init ==
  /\ file \in Files
  /\ pc = "parse"
  /\ cls = <<>> /\ watches = [l \in Literals |-> <<>>]
  /\ trail = <<>> /\ trail_lim = <<>> /\ qhead = 0 /\ todo = <<>> /\ heap = {1} /\ st_confl = 0
  /\ resolvent = {} /\ dep_stack = {}
  /\ starts = 0 /\ conflictC = 0
  /\ model = {}
  /\ core = {} /\ cl_scheds = {} /\ depcount = <<>>

Parsing == add_clause \/ solve
Search == Dequeue \/ Visit \/ StartConflict \/ Restart \/ Decide \/ ModelFound
Analysis == Resolve \/ Learn \/ ResolveFinal \/ EndTrace
Core == compute_dep_counts \/ begin_traversal \/ next_cl2traverse \/ end_traversal

Next == Parsing \/ Search \/ Analysis \/ Core

(* The program is sequential: what it can do it does. *)
Spec == Init /\ [][Next]_vars /\ WF_vars(Next)

-----------------------------------------------------------------------------
TypeOK ==
  /\ file \in Files
  /\ pc \in {"parse", "search", "analyze", "final", "count", "traverse", "sat", "unsat"}
  /\ \A c \in Id : /\ cls[c].lits \subseteq Literals
                   /\ Range(cls[c].watch) \subseteq cls[c].lits
                   /\ cls[c].deps \subseteq Id
  /\ DOMAIN watches = Literals
  /\ \A k \in DOMAIN trail : /\ trail[k].lit \in Literals
                             /\ trail[k].reason \in Id \cup {0}
                             /\ trail[k].level \in Nat
  /\ Range(trail_lim) \subseteq 0..Len(trail) /\ qhead \in 0..Len(trail) /\ Range(todo) \subseteq Id
  /\ heap \subseteq Variables /\ st_confl \in Id \cup {0}
  /\ resolvent \subseteq Literals /\ dep_stack \subseteq Id
  /\ starts \in Nat /\ conflictC \in Nat
  /\ model \subseteq Literals
  /\ core \subseteq Id /\ cl_scheds \subseteq Id

(* The lists and the watches in the clauses agree, although both are       *)
(* changed while the list is walked.                                       *)
WatchesAgree ==
  \A l \in Literals :
    /\ Range(watches[l]) = {c \in Id : Len(cls[c].watch) = 2 /\ -l \in Range(cls[c].watch)}
    /\ IsInjective(watches[l])

(* A reason implies its literal from literals false before it. *)
ReasonsImply ==
  \A k \in DOMAIN trail : trail[k].reason # 0 =>
    LET c == cls[trail[k].reason]
    IN  /\ c.watch[1] = trail[k].lit
        /\ \A l \in c.lits \ {trail[k].lit} :
             \E j \in 1..(k - 1) : trail[j].lit = -l /\ trail[j].level <= trail[k].level

(* What is unassigned can still be decided. *)
HeapComplete == pc \in {"search", "analyze"} => \A x \in Variables : Unassigned(x) => x \in heap

(* add_clause, propagate, cancelUntil and VarOrder together keep the state *)
(* of the solver consistent across conflicts and restarts.                 *)
SolverConsistent == TypeOK /\ WatchesAgree /\ ReasonsImply /\ HeapComplete

(* When propagate is through without a conflict it has missed nothing:     *)
(* every clause is satisfied or has two unassigned literals.               *)
PropagationComplete ==
  Propagated /\ st_confl = 0 =>
    \A c \in Id : \/ \E l \in cls[c].lits : True(l)
                  \/ \E l, m \in cls[c].lits : l # m /\ ~False(l) /\ ~False(m)

(* What the trace names of a learnt clause comes before it and implies it, *)
(* and so does what was collected so far for the resolvent.                *)
LitsOf(ids) == {cls[c].lits : c \in ids}
TraceSound ==
  /\ \A c \in Id : learnt(c) => /\ cls[c].deps \subseteq 1..(c - 1)
                                /\ Implies(LitsOf(cls[c].deps), cls[c].lits)
  /\ pc \in {"analyze", "final"} =>
       /\ Implies(LitsOf(dep_stack), resolvent)
       /\ \A l \in resolvent : False(l)

(* The answers are those msuncore counts on: a model of the clauses of the *)
(* file, or some of them that have none.                                   *)
NoAnswer == [status |-> "none"]
Answered ==
  CASE pc = "sat" -> [status |-> "SAT", true |-> Variables \cap model]
    [] pc = "unsat" -> [status |-> "UNSAT", core |-> LitsOf(core)]
    [] OTHER -> NoAnswer

Oracle == INSTANCE SatOracle WITH
  formula <- Range(file), Unanswered <- NoAnswer, answer <- Answered

ImplementsOracle == Oracle!Spec

(* The search comes to an answer: every clause learnt is new, although no  *)
(* learnt clause is used across a restart but by propagation.              *)
Ends == <>(pc \in {"sat", "unsat"})
=============================================================================
