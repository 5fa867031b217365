-------------------------------- MODULE Msu --------------------------------
(***************************************************************************)
(* msuncore: MaxSAT by unsatisfiable cores.  A SAT solver is called on the *)
(* clauses over and over.  While they are unsatisfiable, the soft clauses  *)
(* of the core it returns get a blocking variable each, which can satisfy  *)
(* them, and cardinality constraints say how many may be used.  The three  *)
(* algorithms differ in where the blocked clauses go and in what they      *)
(* constrain:                                                              *)
(*   msu1  at most one blocking variable of each core, blocked clauses     *)
(*         may be blocked again;                                           *)
(*   msu2  at least one of each core; after a model, fewer in all than     *)
(*         that model used;                                                *)
(*   msu3  disjoint cores first; then a bound on all blocking variables    *)
(*         that goes up by one with every core.                            *)
(*                                                                         *)
(* A clause at work is a record: the literals it has in the file, the      *)
(* blocking variables it was given, its type (0 soft, 1 hard, -1 read      *)
(* before a marker, a weight).  The solver is what SatOracle says it is:   *)
(* it finds a model, or names clauses that have none together.             *)
(***************************************************************************)
EXTENDS Cnf, Cardinality, Sequences, FiniteSetsExt

CONSTANTS
  Files,      \* the files the program is called with
  Options,    \* and the command lines: alg, enc, q, m (0: not given), T
  MaxCores,   \* bound on the cores counted when the hard clauses have no model
  Infinity, None

ASSUME FilesAssumption ==
  \A f \in Files :
    f.lines \in Seq([kind : {"clause", "hard", "soft", "weight"}, lits : SUBSET Int, weight : Int])

ASSUME OptionsAssumption ==
  Options \subseteq [alg : 1..4, enc : Encodings, q : BOOLEAN, m : Nat, T : BOOLEAN]

(* Infinity is above whatever is counted, and None is no number. *)
ASSUME CountsAssumption ==
  /\ MaxCores \in Nat \ {0}
  /\ Infinity \in Nat /\ MaxCores < Infinity /\ \A f \in Files : Len(f.lines) < Infinity
  /\ None \notin Int

VARIABLES
  file, opts, pc, clset, blkclset, coreset, cardset, nscls,
  iternum, nunsat, nbvlb, minbs, lbv, result

vars == <<file, opts, pc, clset, blkclset, coreset, cardset, nscls,
          iternum, nunsat, nbvlb, minbs, lbv, result>>
input == <<file, opts>>

(***************************************************************************)
(* The file.  A line is a marker or a clause; lits has no literal twice.   *)
(***************************************************************************)
Lines   == DOMAIN file.lines
Markers == {i \in Lines : file.lines[i].kind # "clause"}
Clauses == Lines \ Markers
Before(i) == {j \in Markers : j < i}

LitsAt(i) == file.lines[i].lits

(* The type a clause gets from the last marker before it. *)
TypeAt(i) ==
  IF file.format = "cnf" THEN 0
  ELSE IF Before(i) = {} THEN -1
  ELSE LET m == file.lines[Max(Before(i))]
       IN  CASE m.kind = "hard" -> 1 [] m.kind = "soft" -> 0 [] OTHER -> m.weight

(* In a partial file a clause is skipped when it is stored already, and a  *)
(* unit clause when its negation is.                                       *)
Clash(i, j) ==
  \/ LitsAt(i) = LitsAt(j)
  \/ \E l \in LitsAt(i) : LitsAt(i) = {l} /\ LitsAt(j) = {-l}

Kept ==
  LET keepcl[i \in Lines] ==
        i \in Clauses /\ (file.format = "pmcnf" =>
                            \A j \in 1..(i - 1) : keepcl[j] => ~Clash(i, j))
  IN  {i \in Clauses : keepcl[i]}

(* A clause is known by its literals: the last line that has them types it. *)
parse ==
  LET kept == Kept
      last == {i \in kept : \A j \in kept : j > i => LitsAt(j) # LitsAt(i)}
  IN  [clauses |-> {[lits |-> LitsAt(i), bvs |-> {}, type |-> TypeAt(i)] : i \in last},
       nsoft   |-> Cardinality({i \in kept : file.format = "pmcnf" => TypeAt(i) = 0}),
       failed  |-> file.format = "pmcnf" /\
                     (\/ Cardinality(Markers) > 2
                      \/ \E i \in Markers : Before(i) # {} /\
                           file.lines[Max(Before(i))].kind = file.lines[i].kind)]

(***************************************************************************)
(* The solver call.                                                        *)
(***************************************************************************)
(* Mutant: whatever was read behind a marker counts as soft.               *)
IsTyped(c) == c.type # -1

(* chk_cl_soft *)
IsSoft(c) == c.type = 0

INITs == {c \in clset : IsSoft(c)}

blockvs == UNION {c.bvs : c \in clset \cup blkclset}

(* With -m, at most one of a clause's blocking variables, once it has m. *)
clbvcset ==
  IF opts.alg = 1 /\ opts.m > 0
    THEN {EncodedAtMost(opts.enc, c.bvs, 1) :
            c \in {d \in INITs : d.bvs # {} /\ Cardinality(d.bvs) >= opts.m}}
    ELSE {}

FileVars == {VarOf(l) : l \in UNION {c.lits : c \in clset \cup blkclset
                                                    \cup UNION coreset}}

At(p, c) == Satisfies(p.true, c.lits) \/ c.bvs \cap p.bvs # {}

(* What satisfies everything but the initial soft clauses. *)
HardPoints ==
  LET required    == (clset \ INITs) \cup blkclset
      constraints == cardset \cup clbvcset
      points      == [true : SUBSET FileVars,
                      bvs  : {t \in SUBSET blockvs : \A k \in constraints : Meets(t, k)}]
  IN  {p \in points : \A c \in required : At(p, c)}

AllPoints == {p \in HardPoints : \A c \in INITs : At(p, c)}

(* The initial soft clauses a core may hold: with the rest of the clauses  *)
(* they have no model, so whatever satisfies the rest falsifies one.       *)
Cores ==
  LET falsified == {{c \in INITs : ~At(p, c)} : p \in HardPoints}
  IN  {C \in SUBSET INITs : \A f \in falsified : f \cap C # {}}

(***************************************************************************)
(* Blocking.                                                               *)
(***************************************************************************)
NewVar(c) == <<c.lits, Cardinality(c.bvs)>>

Blocked(c) == [c EXCEPT !.bvs = @ \cup {NewVar(c)}]

NewVars(C) == {NewVar(c) : c \in C}

(***************************************************************************)
(* The ends of the program: exit code 10, 20, 30.                          *)
(***************************************************************************)
Report(kind, lb, ub) ==
  /\ pc' = "end"
  /\ result' = [kind |-> kind, lb |-> lb, ub |-> ub]

Computed(value) == Report("answer", value, value)
exit_quit(lb, ub) == Report("bounds", lb, ub)
exit_err == Report("error", 0, 0)

Continue == pc' = pc /\ result' = result

work == <<clset, blkclset, coreset, cardset, nscls>>
counts == <<nunsat, nbvlb, minbs, lbv>>

Init ==
  /\ file \in Files
  /\ opts \in Options
  /\ pc = "start"
  /\ clset = {} /\ blkclset = {} /\ coreset = {} /\ cardset = {}
  /\ nscls = 0
  /\ iternum = 0 /\ nunsat = 0 /\ nbvlb = 0 /\ minbs = 0 /\ lbv = 0
  /\ result = [kind |-> "none", lb |-> 0, ub |-> 0]

(* run_msu: which encodings an algorithm takes; the last arm is msu4's. *)
Allowed(alg) == CASE alg = 1 -> {"c", "e", "b", "i", "s"}
                  [] alg = 2 -> {"b", "i", "c", "s"}
                  [] alg = 3 -> {"b", "i", "c", "s"}
                  [] OTHER   -> {"b", "c", "e"}

Start ==
  /\ pc = "start"
  /\ IF opts.enc \notin Allowed(opts.alg) \/ opts.alg = 4 \/ parse.failed
       THEN exit_err /\ UNCHANGED <<clset, nscls, iternum, minbs>>
       ELSE /\ pc' = IF opts.alg = 3 THEN "cores" ELSE "search"
            /\ clset' = parse.clauses
            /\ nscls' = parse.nsoft
            /\ minbs' = nscls'      \* no clause can be satisfied
            /\ iternum' = 1
            /\ UNCHANGED result
  /\ UNCHANGED <<input, blkclset, coreset, cardset, nunsat, nbvlb, lbv>>

(***************************************************************************)
(* msu1.                                                                   *)
(***************************************************************************)
Msu1Unsat ==
  /\ pc = "search" /\ opts.alg = 1 /\ nunsat < MaxCores
  /\ \E C \in Cores :
       LET new == NewVars(C)
           extra == IF opts.q THEN {EncodedAtLeast(opts.enc, new, 1)} ELSE {}
       IN  IF C = {}
             THEN exit_err /\ UNCHANGED <<clset, cardset, iternum>>
             ELSE /\ clset' = (clset \ C) \cup {Blocked(c) : c \in C}
                  /\ cardset' = cardset \cup {EncodedAtMost(opts.enc, new, 1)} \cup extra
                  /\ iternum' = iternum + 1
                  /\ Continue
  /\ nunsat' = nunsat + 1
  /\ UNCHANGED <<input, blkclset, coreset, nscls, nbvlb, minbs, lbv>>

Msu1Sat ==
  /\ pc = "search" /\ opts.alg = 1
  /\ \E p \in AllPoints :
       LET used == Cardinality(p.bvs)
       IN  \/ iternum = 1 /\ Computed(nscls) /\ minbs' = minbs
           \/ iternum > 1 /\ used >= minbs /\ exit_err /\ minbs' = minbs
           \/ iternum > 1 /\ used < minbs /\ Computed(nscls - used) /\ minbs' = used
  /\ UNCHANGED <<input, work, iternum, nunsat, nbvlb, lbv>>

(***************************************************************************)
(* msu2.  The bounds are compared whenever one of them moves.              *)
(***************************************************************************)
Msu2Unsat ==
  /\ pc = "search" /\ opts.alg = 2
  /\ nunsat' = nunsat + 1
  /\ \E C \in Cores :
       IF C = {}
         THEN /\ Computed(nscls - minbs)
              /\ UNCHANGED <<clset, blkclset, cardset, iternum>>
         ELSE /\ clset' = clset \ C
              /\ blkclset' = blkclset \cup {Blocked(c) : c \in C}
              /\ cardset' = cardset \cup {EncodedAtLeast(opts.enc, NewVars(C), 1)}
              /\ iternum' = iternum + 1
              /\ IF lbv = nscls - nunsat' THEN Computed(lbv) ELSE Continue
  /\ UNCHANGED <<input, coreset, nscls, nbvlb, minbs, lbv>>

Msu2Sat ==
  /\ pc = "search" /\ opts.alg = 2
  /\ \E p \in AllPoints :
       IF iternum = 1
         THEN Computed(nscls) /\ UNCHANGED <<cardset, iternum, minbs, lbv>>
         ELSE LET mins == Min({Cardinality(p.bvs), minbs})
              IN  IF NoAtMost(opts.enc, Cardinality(blockvs), mins - 1)
                    THEN /\ exit_err
                         /\ minbs' = mins
                         /\ cardset' = {}
                         /\ UNCHANGED <<iternum, lbv>>
                    ELSE /\ minbs' = mins
                         /\ cardset' = {EncodedAtMost(opts.enc, blockvs, mins - 1)}
                         /\ lbv' = nscls - mins
                         /\ iternum' = iternum + 1
                         /\ IF lbv' = nscls - nunsat THEN Computed(lbv') ELSE Continue
  /\ UNCHANGED <<input, clset, blkclset, coreset, nscls, nunsat, nbvlb>>

(***************************************************************************)
(* msu3, first loop: cores are taken out of the clauses until the rest is  *)
(* satisfiable; then every clause of a core is blocked.                    *)
(***************************************************************************)
(* Mutant: the clauses of the cores are counted.                           *)
RemoveCoreClauses ==
  /\ pc = "cores"
  /\ nunsat < MaxCores
  /\ \E C \in Cores :
       /\ clset' = clset \ C
       /\ coreset' = coreset \cup {C}
       /\ nunsat' = nunsat + Cardinality(C)
  /\ UNCHANGED <<input, pc, blkclset, cardset, nscls, iternum, nbvlb, minbs, lbv, result>>

RemoveCore ==
  /\ pc = "cores"
  /\ \E C \in Cores : clset' = clset \ C /\ coreset' = coreset \cup {C}
  /\ nunsat' = IF nunsat < MaxCores THEN nunsat + 1 ELSE nunsat
  /\ UNCHANGED <<input, pc, blkclset, cardset, nscls, iternum, nbvlb, minbs, lbv, result>>

(* Mutant: one blocking variable more than the cores need.                 *)
BoundedLoosely(vs, rhs) == {EncodedAtMost(opts.enc, vs, rhs + 1)}

(* The constraint at the head of the second loop, with -q also its dual. *)
Bounded(vs, rhs) ==
  {EncodedAtMost(opts.enc, vs, rhs)}
    \cup (IF opts.q THEN {EncodedAtLeast(opts.enc, vs, rhs)} ELSE {})

NotBounded(vs, rhs) ==
  \/ NoAtMost(opts.enc, Cardinality(vs), rhs)
  \/ opts.q /\ NoAtLeast(opts.enc, rhs)

EnterLoop(vs, rhs) ==
  IF NotBounded(vs, rhs)
    THEN exit_err /\ cardset' = {}
    ELSE /\ cardset' = Bounded(vs, rhs)
         /\ pc' = "search"
         /\ UNCHANGED result

(* Mutant: the first loop is not left.                                     *)
CoresRemovedAgain ==
  /\ pc = "cores"
  /\ AllPoints # {}
  /\ UNCHANGED vars

CoresRemoved ==
  /\ pc = "cores"
  /\ AllPoints # {}
  /\ LET blocked == {Blocked(c) : c \in UNION coreset}
     IN  IF nunsat = 0
           THEN Computed(nscls) /\ UNCHANGED <<blkclset, cardset, nbvlb>>
           ELSE /\ blkclset' = blocked
                /\ nbvlb' = nunsat
                /\ EnterLoop(UNION {c.bvs : c \in blocked}, nunsat)
  /\ UNCHANGED <<input, clset, coreset, nscls, iternum, nunsat, minbs, lbv>>

Msu3Unsat ==
  /\ pc = "search" /\ opts.alg = 3
  /\ nbvlb' = nbvlb + 1
  /\ \E C \in Cores :
       /\ clset' = clset \ C
       /\ blkclset' = blkclset \cup {Blocked(c) : c \in C}
       /\ EnterLoop(blockvs \cup NewVars(C), nbvlb')
  /\ UNCHANGED <<input, coreset, nscls, iternum, nunsat, minbs, lbv>>

Msu3Sat ==
  /\ pc = "search" /\ opts.alg = 3
  /\ AllPoints # {}
  /\ Computed(nscls - nbvlb)
  /\ UNCHANGED <<input, work, iternum, counts>>

(***************************************************************************)
(* With -T a solver call can run out of time: the bounds so far are        *)
(* reported.  The first loop of msu3 has none.                             *)
(***************************************************************************)
Timeout ==
  /\ opts.T
  /\ \/ pc = "cores" /\ Report("quit", 0, 0)
     \/ pc = "search" /\ opts.alg = 1 /\ exit_quit(nscls - iternum, nscls)
     \/ pc = "search" /\ opts.alg = 2
        /\ exit_quit(nscls - minbs, nscls - nunsat)
     \/ pc = "search" /\ opts.alg = 3 /\ exit_quit(0, nscls - nbvlb)
  /\ UNCHANGED <<input, work, iternum, counts>>

Solve == \/ Msu1Unsat \/ Msu1Sat
         \/ Msu2Unsat \/ Msu2Sat
         \/ RemoveCore \/ CoresRemoved \/ Msu3Unsat \/ Msu3Sat

(* The end, or where the count stops. *)
Done == (pc = "end" \/ nunsat = MaxCores) /\ UNCHANGED vars

Next == Start \/ Solve \/ Timeout \/ Done

(* The program is sequential and mscore terminates. *)
Spec == Init /\ [][Next]_vars /\ WF_vars(Start \/ Solve)

-----------------------------------------------------------------------------
(***************************************************************************)
(* What the answers are about: cost of an assignment, optimum of the       *)
(* clauses read, and of the lines of the file.                             *)
(***************************************************************************)
Least(costs) == IF costs = {} THEN Infinity ELSE Min(costs)

Optimum ==
  LET clauses == parse.clauses
      soft    == {c.lits : c \in {d \in clauses : IsSoft(d)}}
      hard    == {c.lits : c \in {d \in clauses : ~IsSoft(d)}}
  IN  Least({Cardinality(Falsified(soft, true)) : true \in Models(hard, Vars(soft \cup hard))})

(* The lines of the file by the markers they stand behind. *)
SoftLines == {i \in Clauses : TypeAt(i) = 0}
HardLines == {i \in Clauses : TypeAt(i) = 1}
LitsOf(lines) == {LitsAt(i) : i \in lines}

FileOptimum ==
  Least({Cardinality({i \in SoftLines : ~Satisfies(true, LitsAt(i))}) :
           true \in Models(LitsOf(HardLines), Vars(LitsOf(Clauses)))})

(* What the parsers were written for: no line twice, in a partial file no  *)
(* unit next to its negation, and every line after a marker.               *)
Tidy ==
  /\ file.format \in {"cnf", "pmcnf"}
  /\ Clauses = SoftLines \cup HardLines
  /\ \A i, j \in Clauses : i # j => LitsAt(i) # LitsAt(j)
  /\ file.format = "pmcnf" => \A i, j \in Clauses : i # j => ~Clash(i, j)

Feasible == Optimum # Infinity

-----------------------------------------------------------------------------
TypeOK ==
  /\ file \in Files /\ opts \in Options
  /\ pc \in {"start", "cores", "search", "end"}
  /\ \A c \in clset \cup blkclset : c.lits \subseteq Int /\ c.type \in Int
  /\ coreset \subseteq SUBSET parse.clauses
  /\ \A k \in cardset : k.vs \subseteq blockvs /\ k.rhs \in Nat
  /\ {nscls, iternum, nunsat, nbvlb, minbs, lbv} \subseteq Nat
  /\ result.kind \in {"none", "answer", "bounds", "quit", "error"}
  /\ (pc = "end") <=> (result.kind # "none")

(* What is computed is the largest number of soft clauses of the file that *)
(* an assignment of the hard clauses satisfies: whatever cores the solver  *)
(* returned, and however the blocked clauses were constrained.             *)
ComputedIsBest ==
  result.kind = "answer" /\ Tidy /\ FileOptimum # Infinity =>
    result.lb = Cardinality(SoftLines) - FileOptimum

(* No clause is lost or changed on its way through the sets: each is in    *)
(* exactly one of them, and only soft ones were given blocking variables   *)
(* (extract_fromclset, add_blocking_vars, add_blockvs_coreset).            *)
ClausesKept ==
  /\ TypeOK
  /\ pc \in {"cores", "search"} =>
       LET held == clset \cup blkclset \cup (IF blkclset = {} THEN UNION coreset ELSE {})
       IN  /\ {[c EXCEPT !.bvs = {}] : c \in held} = parse.clauses
           /\ Cardinality(held) = Cardinality(parse.clauses)
           /\ \A c \in held : ~(c.type = 0) => c.bvs = {}

(* Cores cost: as many cores as were found, and blocking variables as are  *)
(* known to be needed, no assignment does with fewer falsified clauses;    *)
(* and as few as the best model used, some assignment does.                *)
BoundsHold ==
  Feasible /\ pc # "start" /\ result.kind # "error" =>
    /\ nunsat <= Optimum
    /\ nbvlb <= Optimum
    /\ Optimum <= minbs

(* A run out of time reports an interval that holds the best value. *)
BoundsEnclose ==
  result.kind = "bounds" /\ Tidy /\ Feasible =>
    result.lb <= nscls - Optimum /\ nscls - Optimum <= result.ub

(* ... which msu2 and msu3 do.  msu1 counts iterations for its lower bound *)
(* ("LB: num cls - num iters"), which the models found so far do not       *)
(* support.                                                                *)
CoreBoundsEnclose == opts.alg # 1 => BoundsEnclose

(* The program gives up only for a reason a reader of its help knows: an   *)
(* encoding it does not have, a malformed file, hard clauses that cannot   *)
(* be met; and msu1 when every soft clause is falsified.                   *)
ErrorsExplained ==
  result.kind = "error" =>
    \/ opts.enc \notin Allowed(opts.alg) \/ opts.alg = 4 \/ parse.failed
    \/ opts.enc = "c" /\ opts.alg \in {2, 3}
    \/ opts.q /\ opts.alg = 3 /\ opts.enc \in {"c", "s"}
    \/ ~Feasible
    \/ opts.alg = 1 /\ Optimum = nscls

(* What is reported, at the end or when time runs out, is true of the file, *)
(* and a failure has one of the reasons above.                              *)
ReportsTrue == ComputedIsBest /\ CoreBoundsEnclose /\ ErrorsExplained

(* It ends when the hard clauses can be met: every core takes a soft       *)
(* clause out of the initial ones, or a model improves on the best one.    *)
Ends == (pc = "start" /\ Feasible) ~> pc = "end"

(* Both bounds close in on the optimum, and the answer is the optimum. *)
Bounds == INSTANCE BoundSearch WITH
  optimum <- Optimum,
  lo      <- IF nunsat > nbvlb THEN nunsat ELSE nbvlb,
  hi      <- IF iternum = 0 \/ ~Feasible THEN Infinity ELSE minbs,
  answer  <- IF result.kind = "answer" THEN nscls - result.lb ELSE None

ImplementsBounds == Bounds!Spec
=============================================================================
