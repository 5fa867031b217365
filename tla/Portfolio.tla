------------------------------ MODULE Portfolio ------------------------------
(***************************************************************************)
(* The furius executable (src/src/main.cc, main): it computes the features *)
(* of an instance, predicts a runtime for each solver of the model, ranks  *)
(* the solvers by prediction and then forks them one at a time, from the   *)
(* smallest prediction on, until one of them terminates by itself.         *)
(*                                                                         *)
(* Actors: the parent (main) and, for each solver, the child forked for    *)
(* it.  The child runs main's own code until execv, with a copy of the     *)
(* parent's stdio buffer, and the solver's code afterwards.                *)
(***************************************************************************)
EXTENDS Integers, FiniteSets

CONSTANTS
    NumSolvers,  \* the number of solvers the model file names
    Runtimes,    \* the values a prediction can take
    NaN          \* the prediction that is not a number (a zero deviation)

ASSUME NumSolversAssumption == NumSolvers \in Nat
\* Only the order of predictions matters, so a prediction is its rank.
ASSUME RuntimesAssumption   == Runtimes \subseteq Nat
ASSUME NaNAssumption        == NaN \notin Int

(* A solver is the rank of its name: std::map<string, _> iterates by name. *)
Solvers == 1..NumSolvers

Predictions == Runtimes \cup {NaN}

ChildStates ==
    {"none",      \* never forked
     "forked",    \* between fork and execv
     "running",   \* the solver itself
     "exited",    \* the solver terminated, not waited for yet
     "noexec",    \* terminated as execv had failed, not waited for yet
     "signaled",  \* terminated by a signal, not waited for yet
     "reaped"}    \* wait has returned for it

VARIABLES
    pc,         \* where main is
    exitCode,   \* 0 or 1 once pc = "exited"
    pretend,    \* args.pretend
    paths,      \* the solvers readSolversCfg found a command line for
    predRt,     \* the prediction of each solver
    next,       \* the solver the ranking loop is at
    invPredRt,  \* the map from runtime to solver that orders the forks
    todo,       \* the keys of invPredRt the iterator has not passed
    child,      \* the state of each solver's child
    lost,       \* the solvers passed over because fork failed
    reason,     \* how the last reaped child of each solver had ended
    tty,        \* stdout is a terminal: line buffered, else fully buffered
    pending,    \* processes whose stdio buffer holds the runtimes report
    reports     \* copies of the report that reached stdout

vars == <<pc, exitCode, pretend, paths, predRt, next, invPredRt, todo, child,
          lost, reason, tty, pending, reports>>

Main == 0   \* the parent, as an element of pending

Alive(s)    == child[s] \in {"forked", "running"}
Zombie(s)   == child[s] \in {"exited", "noexec", "signaled"}
Unwaited(s) == Alive(s) \/ Zombie(s)

(* Mutant: the iteration starts from the other end. *)
BeginGreatest(keys) ==
    IF NaN \in keys THEN NaN
                    ELSE CHOOSE r \in keys : \A q \in keys : q <= r

(* std::map<double, string>: begin() is the smallest key. A map that holds *)
(* NaN holds nothing else, as every key is equivalent to it.               *)
Begin(keys) ==
    IF NaN \in keys THEN NaN
                    ELSE CHOOSE r \in keys : \A q \in keys : r <= q

(* Mutant: every key is taken for the first one. *)
SlotFirst(keys, r) == IF keys # {} THEN Begin(keys) ELSE r

(* The node operator[] returns for r: NaN compares false with every key,   *)
(* so the search for NaN ends at begin() and the search for a number ends  *)
(* at a NaN that is already there.                                         *)
Slot(keys, r) ==
    IF keys # {} /\ (r = NaN \/ NaN \in keys) THEN Begin(keys) ELSE r

Init ==
    /\ pc = "features"
    /\ exitCode = 0
    /\ pretend \in BOOLEAN
    /\ paths \in SUBSET Solvers
    /\ predRt = [s \in Solvers |-> NaN]   \* stands for no entry yet
    /\ next = 1
    /\ invPredRt = [r \in {} |-> 0]
    /\ todo = {}
    /\ child = [s \in Solvers |-> "none"]
    /\ lost = {}
    /\ reason = [s \in Solvers |-> "none"]
    /\ tty \in BOOLEAN
    /\ pending = {}
    /\ reports = 0

(* Mutants: a failure is reported as exit(-1); _exit skips the flush.      *)
ExitNegative(code) ==
    /\ pc' = "exited"
    /\ exitCode' = 0 - code
    /\ pending' = pending \ {Main}
    /\ reports' = reports + (IF Main \in pending THEN 1 ELSE 0)

ExitNoFlush(code) ==
    /\ pc' = "exited"
    /\ exitCode' = code
    /\ pending' = pending \ {Main}
    /\ UNCHANGED reports

(* exit() and return from main flush the process's buffer.                 *)
Exit(code) ==
    /\ pc' = "exited"
    /\ exitCode' = code
    /\ pending' = pending \ {Main}
    /\ reports' = reports + (IF Main \in pending THEN 1 ELSE 0)

(* No estimator returned a feature: main gives up.                         *)
NoFeatures ==
    /\ pc = "features"
    /\ Exit(1)
    /\ UNCHANGED <<pretend, paths, predRt, next, invPredRt, todo, child, lost,
                   reason, tty>>

(* The prediction loop, over solvers that do not depend on one another.    *)
Predict ==
    /\ pc = "features"
    /\ predRt' \in [Solvers -> Predictions]
    /\ pc' = "rank"
    /\ UNCHANGED <<exitCode, pretend, paths, next, invPredRt, todo, child,
                   lost, reason, tty, pending, reports>>

(* computeModelOutput exits when the model uses a feature nobody computed. *)
MissingFeature ==
    /\ pc = "features"
    /\ Solvers # {}
    /\ Exit(1)
    /\ UNCHANGED <<pretend, paths, predRt, next, invPredRt, todo, child, lost,
                   reason, tty>>

(* One turn of the loop that displays a prediction and enters it into      *)
(* invPredRt, where it replaces the solver that had the same key.          *)
Display ==
    /\ pc = "rank"
    /\ next \in Solvers
    /\ LET keys == DOMAIN invPredRt
           key  == Slot(keys, predRt[next])
       IN  invPredRt' = [r \in keys \cup {key} |->
                           IF r = key THEN next ELSE invPredRt[r]]
    /\ next' = next + 1
    /\ UNCHANGED <<pc, exitCode, pretend, paths, predRt, todo, child, lost,
                   reason, tty, pending, reports>>

(* The loop ends; the report is in the buffer, or on the terminal.         *)
Ranked ==
    /\ pc = "rank"
    /\ next \notin Solvers
    /\ pc' = "loop"
    /\ todo' = DOMAIN invPredRt
    /\ pending' = IF tty THEN pending ELSE pending \cup {Main}
    /\ reports' = IF tty THEN reports + 1 ELSE reports
    /\ UNCHANGED <<exitCode, pretend, paths, predRt, next, invPredRt, child,
                   lost, reason, tty>>

(* The iterator has reached the end, or main only pretends.                *)
Return ==
    /\ pc = "loop"
    /\ todo = {} \/ pretend
    /\ Exit(0)
    /\ UNCHANGED <<pretend, paths, predRt, next, invPredRt, todo, child, lost,
                   reason, tty>>

Current == invPredRt[Begin(todo)]

(* Mutant: the iterator stays where it is. *)
AdvanceNot == UNCHANGED todo

Advance == todo' = todo \ {Begin(todo)}

(* The solver to run has no line in the solvers configuration.             *)
NoPath ==
    /\ pc = "loop" /\ todo # {} /\ ~pretend
    /\ Current \notin paths
    /\ Exit(1)
    /\ UNCHANGED <<pretend, paths, predRt, next, invPredRt, todo, child, lost,
                   reason, tty>>

Fork ==
    /\ pc = "loop" /\ todo # {} /\ ~pretend
    /\ Current \in paths
    /\ child' = [child EXCEPT ![Current] = "forked"]
    /\ pending' = IF Main \in pending THEN pending \cup {Current} ELSE pending
    /\ pc' = "wait"
    /\ UNCHANGED <<exitCode, pretend, paths, predRt, next, invPredRt, todo,
                   lost, reason, tty, reports>>

(* fork returns -1, which is not 0: the parent waits, wait fails as there  *)
(* is no child, and WIFEXITED looks at an uninitialized status.            *)
ForkFails ==
    /\ pc = "loop" /\ todo # {} /\ ~pretend
    /\ Current \in paths
    /\ lost' = lost \cup {Current}
    /\ \/ Exit(0) /\ UNCHANGED todo
       \/ /\ Advance
          /\ UNCHANGED <<pc, exitCode, pending, reports>>
    /\ UNCHANGED <<pretend, paths, predRt, next, invPredRt, child, reason, tty>>

(* Mutant: wait does not block, and main goes on beside a living child.    *)
ReapNoHang(s) ==
    /\ pc = "wait"
    /\ child[s] \notin {"none", "reaped"}
    /\ pc' = "loop"
    /\ Advance
    /\ UNCHANGED <<exitCode, pretend, paths, predRt, next, invPredRt, child,
                   lost, reason, tty, pending, reports>>

(* wait returns: main stops when the child exited and goes on otherwise.   *)
Reap(s) ==
    /\ pc = "wait"
    /\ Zombie(s)
    /\ child' = [child EXCEPT ![s] = "reaped"]
    /\ reason' = [reason EXCEPT ![s] = child[s]]
    /\ IF child[s] # "signaled"
       THEN Exit(0) /\ UNCHANGED todo
       ELSE /\ pc' = "loop"
            /\ Advance
            /\ UNCHANGED <<exitCode, pending, reports>>
    /\ UNCHANGED <<pretend, paths, predRt, next, invPredRt, lost, tty>>

(* execv replaces the image, and with it the copied buffer.                *)
Exec(s) ==
    /\ child[s] = "forked"
    /\ child' = [child EXCEPT ![s] = "running"]
    /\ pending' = pending \ {s}
    /\ UNCHANGED <<pc, exitCode, pretend, paths, predRt, next, invPredRt, todo,
                   lost, reason, tty, reports>>

(* execv fails: exit(EXIT_SUCCESS) in the child, which flushes its copy.   *)
ExecFails(s) ==
    /\ child[s] = "forked"
    /\ child' = [child EXCEPT ![s] = "noexec"]
    /\ pending' = pending \ {s}
    /\ reports' = reports + (IF s \in pending THEN 1 ELSE 0)
    /\ UNCHANGED <<pc, exitCode, pretend, paths, predRt, next, invPredRt, todo,
                   lost, reason, tty>>

(* The solver terminates, whatever its exit code.                          *)
SolverExits(s) ==
    /\ child[s] = "running"
    /\ child' = [child EXCEPT ![s] = "exited"]
    /\ UNCHANGED <<pc, exitCode, pretend, paths, predRt, next, invPredRt, todo,
                   lost, reason, tty, pending, reports>>

(* A signal ends the child: a crash, the out-of-memory killer, an abort.   *)
Signal(s) ==
    /\ Alive(s)
    /\ child' = [child EXCEPT ![s] = "signaled"]
    /\ pending' = pending \ {s}
    /\ UNCHANGED <<pc, exitCode, pretend, paths, predRt, next, invPredRt, todo,
                   lost, reason, tty, reports>>

Parent ==
    \/ NoFeatures \/ Predict \/ MissingFeature \/ Display \/ Ranked
    \/ Return \/ NoPath \/ Fork \/ ForkFails
    \/ \E s \in Solvers : Reap(s)

Child(s) == Exec(s) \/ ExecFails(s) \/ SolverExits(s) \/ Signal(s)

(* Every process has ended. *)
Terminated == pc = "exited" /\ (\A s \in Solvers : ~Unwaited(s)) /\ UNCHANGED vars

Next == Parent \/ (\E s \in Solvers : Child(s)) \/ Terminated

Spec == Init /\ [][Next]_vars

(* The parent and a child that is in main's code keep running. Nothing     *)
(* bounds the time a solver takes: main sets no limit on its child.        *)
FairSpec ==
    /\ Spec
    /\ WF_vars(Parent)
    /\ \A s \in Solvers : WF_vars(Exec(s) \/ ExecFails(s))
-----------------------------------------------------------------------------
TypeOK ==
    /\ pc \in {"features", "rank", "loop", "wait", "exited"}
    /\ exitCode \in {0, 1}
    /\ pretend \in BOOLEAN
    /\ paths \subseteq Solvers
    /\ predRt \in [Solvers -> Predictions]
    /\ next \in 1..(NumSolvers + 1)
    /\ DOMAIN invPredRt \subseteq Predictions
    /\ \A r \in DOMAIN invPredRt : invPredRt[r] \in Solvers
    /\ todo \subseteq DOMAIN invPredRt
    /\ child \in [Solvers -> ChildStates]
    /\ lost \subseteq Solvers
    /\ reason \in [Solvers -> {"none", "exited", "noexec", "signaled"}]
    /\ tty \in BOOLEAN
    /\ pending \subseteq Solvers \cup {Main}
    /\ reports \in Nat

Numeric == \A s \in Solvers : predRt[s] # NaN

Ranks == {"loop", "wait", "exited"}

(* Once ranked, a solver is a candidate unless a later name with the same  *)
(* prediction replaced it, and no candidate has a wrong key: main.cc 179 to *)
(* 185 loses solvers only to ties.                                         *)
LostOnlyToTies ==
    Numeric /\ pc \in {"loop", "wait"} =>
        /\ \A s \in Solvers :
              \E t \in Solvers :
                 /\ t >= s /\ predRt[t] = predRt[s]
                 /\ predRt[s] \in DOMAIN invPredRt
                 /\ invPredRt[predRt[s]] = t
        /\ \A r \in DOMAIN invPredRt : predRt[invPredRt[r]] = r

(* A solver's child is never alive, or waiting to be reaped, together with *)
(* another's, and none is left when main is gone (main.cc 208 to 221).     *)
OneChildAtATime ==
    /\ \A s, t \in Solvers : Unwaited(s) /\ Unwaited(t) => s = t
    /\ pc # "wait" => \A s \in Solvers : ~Unwaited(s)

(* A solver is only started when, for each smaller prediction, the solver  *)
(* kept for it was killed by a signal or could not be forked.              *)
BestFirst ==
    Numeric =>
      \A s, t \in Solvers :
         child[s] # "none" /\ predRt[t] < predRt[s] =>
            \E u \in Solvers :
               /\ predRt[u] = predRt[t]
               /\ u \in lost \/ reason[u] = "signaled"

(* main returns success only when it pretended, when a child terminated    *)
(* by itself, when a fork failed, or when every candidate was killed: a    *)
(* killed solver alone never ends the portfolio while candidates are left. *)
ExitJustified ==
    pc = "exited" /\ exitCode = 0 =>
        \/ pretend
        \/ \E s \in Solvers : reason[s] \in {"exited", "noexec"}
        \/ lost # {}
        \/ \A r \in DOMAIN invPredRt : reason[invPredRt[r]] = "signaled"

(* The runtimes report reaches stdout exactly once from main, and once more *)
(* for each child that inherited it unflushed and fell through execv into  *)
(* exit(EXIT_SUCCESS) (main.cc 217, 218).                                  *)
ReportCopies ==
    pc = "exited" /\ next > NumSolvers /\ NumSolvers > 0 =>
        reports = 1 + Cardinality({s \in Solvers : ~tty /\ reason[s] = "noexec"})

(* What the caller sees of the portfolio: its exit code and its output.    *)
ExitTells == ExitJustified /\ ReportCopies

(* main terminates, unless a solver it waits for never does: there is no   *)
(* timeout in main.cc, so a solver that hangs holds the portfolio for good. *)
EndsUnlessSolverHangs ==
    <>(pc = "exited") \/ <>[](\E s \in Solvers : child[s] = "running")

(* The phase of the abstract portfolio a state of main stands for.         *)
Phase ==
    CASE pc \in {"features", "rank"} -> "ranking"
      [] pc = "loop"   -> "choosing"
      [] pc = "wait"   -> "trying"
      [] pc = "exited" -> "stopped"

Order == INSTANCE Failover WITH
            Alternatives <- Predictions, remaining <- todo, phase <- Phase

(* main implements the failover: the processes, the ties, the failing calls *)
(* and the output never make it try a solver out of order, try one twice,  *)
(* or go on after one that terminated by itself.                           *)
ImplementsFailover == Order!Spec

=============================================================================
