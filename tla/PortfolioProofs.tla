--------------------------- MODULE PortfolioProofs ---------------------------
(* Theorems about the portfolio, for every number of solvers and every set *)
(* of runtimes.                                                            *)
EXTENDS Portfolio, Loops, FiniteSetTheorems, TLAPS

(* begin() of a non-empty map is one of its keys, and the smallest one when *)
(* every key is a number.                                                  *)
LEMMA BeginIsLeast ==
    ASSUME NEW keys, keys \subseteq Predictions, keys # {}
    PROVE  /\ Begin(keys) \in keys
           /\ NaN \notin keys => \A q \in keys : Begin(keys) <= q
<1>1. CASE NaN \in keys
  BY <1>1 DEF Begin
<1>2. CASE NaN \notin keys
  <2>1. keys \subseteq Nat
    BY <1>2, RuntimesAssumption DEF Predictions
  <2>2. \E r \in keys : \A q \in keys : r <= q
    BY <2>1, LeastNatural
  <2> QED BY <1>2, <2>2 DEF Begin
<1> QED BY <1>1, <1>2
-----------------------------------------------------------------------------
(* The inductive invariant, in parts. *)

(* Before the ranking nothing is in the map, and nobody has been forked. *)
NothingYet ==
    /\ pc = "features" => DOMAIN invPredRt = {} /\ next = 1
    /\ pc \in {"features", "rank"} =>
          todo = {} /\ \A s \in Solvers : child[s] = "none"
    /\ pc \in {"loop", "wait"} => next = NumSolvers + 1
    /\ pc = "wait" => todo # {}

(* A child not waited for is the one of the solver main waits for. *)
Waiting == \A s \in Solvers : Unwaited(s) => pc = "wait" /\ s = Current

(* The map of the solvers displayed so far. *)
Ranking ==
    Numeric /\ pc # "features" =>
        /\ NaN \notin DOMAIN invPredRt
        /\ \A s \in Solvers : s < next =>
              /\ predRt[s] \in DOMAIN invPredRt
              /\ s <= invPredRt[predRt[s]]
        /\ \A r \in DOMAIN invPredRt :
              predRt[invPredRt[r]] = r /\ invPredRt[r] < next

NaNAlone == NaN \in DOMAIN invPredRt => DOMAIN invPredRt = {NaN}

(* The iterator passes the keys in increasing order, and only those whose  *)
(* solver was killed or could not be forked.                               *)
Passed ==
    Numeric /\ pc \in {"loop", "wait", "exited"} =>
        /\ \A r \in DOMAIN invPredRt \ todo :
              /\ next > NumSolvers =>
                    invPredRt[r] \in lost \/ reason[invPredRt[r]] = "signaled"
              /\ \A q \in todo : r < q
        /\ \A s \in Solvers : child[s] # "none" =>
              /\ next > NumSolvers
              /\ predRt[s] \in DOMAIN invPredRt
              /\ predRt[s] \in todo => predRt[s] = Begin(todo)

IInv == TypeOK /\ NothingYet /\ Waiting /\ Ranking /\ NaNAlone /\ Passed
-----------------------------------------------------------------------------
(* The actions by which main looks at the smallest key not passed. *)
LEMMA CurrentIsSolver ==
    ASSUME TypeOK, todo # {}
    PROVE  /\ Begin(todo) \in todo
           /\ Current \in Solvers
           /\ NaN \notin todo => \A q \in todo : Begin(todo) <= q
BY BeginIsLeast DEF TypeOK, Current

LEMMA SlotIsPrediction ==
    ASSUME NEW keys, keys \subseteq Predictions, NEW r \in Predictions
    PROVE  Slot(keys, r) \in Predictions
BY BeginIsLeast DEF Slot

(* Type correctness. *)
LEMMA TypeStep == TypeOK /\ [Next]_vars => TypeOK'
<1> SUFFICES ASSUME TypeOK, [Next]_vars PROVE TypeOK'
  OBVIOUS
<1> USE NumSolversAssumption
<1>1. CASE NoFeatures
  BY <1>1 DEF TypeOK, NoFeatures, Exit
<1>2. CASE Predict
  BY <1>2 DEF TypeOK, Predict
<1>3. CASE MissingFeature
  BY <1>3 DEF TypeOK, MissingFeature, Exit
<1>4. CASE Display
  <2> DEFINE key == Slot(DOMAIN invPredRt, predRt[next])
  <2>1. predRt[next] \in Predictions /\ next \in Solvers /\ next \in Int
    BY <1>4 DEF TypeOK, Display, Solvers
  <2>2. key \in Predictions
    BY <2>1, SlotIsPrediction DEF TypeOK
  <2>3. next + 1 \in 1..(NumSolvers + 1)
    BY <2>1 DEF Solvers
  <2> HIDE DEF key
  <2>4. /\ invPredRt' = [r \in (DOMAIN invPredRt) \cup {key} |->
                           IF r = key THEN next ELSE invPredRt[r]]
        /\ next' = next + 1
        /\ UNCHANGED <<pc, exitCode, pretend, paths, predRt, todo, child, lost,
                       reason, tty, pending, reports>>
    BY <1>4 DEF Display, key
  <2> QED BY <2>1, <2>2, <2>3, <2>4 DEF TypeOK
<1>5. CASE Ranked
  BY <1>5 DEF TypeOK, Ranked
<1>6. CASE Return
  BY <1>6 DEF TypeOK, Return, Exit
<1>7. CASE NoPath
  BY <1>7 DEF TypeOK, NoPath, Exit
<1>8. CASE Fork
  BY <1>8, CurrentIsSolver DEF TypeOK, Fork, ChildStates
<1>9. CASE ForkFails
  <2>1. Current \in Solvers
    BY <1>9, CurrentIsSolver DEF ForkFails
  <2> QED BY <1>9, <2>1 DEF TypeOK, ForkFails, Exit, Advance
<1>10. ASSUME NEW s \in Solvers, Reap(s) PROVE TypeOK'
  BY <1>10 DEF TypeOK, Reap, Exit, Advance, Zombie, ChildStates
<1>11. ASSUME NEW s \in Solvers, Child(s) PROVE TypeOK'
  BY <1>11 DEF TypeOK, Child, Exec, ExecFails, SolverExits, Signal, ChildStates
<1>12. CASE UNCHANGED vars
  BY <1>12 DEF TypeOK, vars
<1> QED
  BY <1>1, <1>2, <1>3, <1>4, <1>5, <1>6, <1>7, <1>8, <1>9, <1>10, <1>11, <1>12
     DEF Next, Parent, Terminated

LEMMA TypeInit == Init => TypeOK
BY NumSolversAssumption, NaNAssumption
   DEF Init, TypeOK, Solvers, Predictions, ChildStates, Main

(* Every variable keeps its type, whatever the solvers and the predictions. *)
THEOREM TypeCorrect == Spec => []TypeOK
BY TypeInit, TypeStep, PTL DEF Spec
-----------------------------------------------------------------------------
LEMMA InvInit == Init => IInv
<1> SUFFICES ASSUME Init PROVE IInv
  OBVIOUS
<1>1. TypeOK
  BY TypeInit
<1>2. NothingYet /\ Waiting /\ Ranking /\ NaNAlone /\ Passed
  BY DEF Init, NothingYet, Waiting, Ranking, NaNAlone, Passed, Unwaited,
         Alive, Zombie
<1> QED BY <1>1, <1>2 DEF IInv

(* Displaying a solver keeps the ranking right. *)
LEMMA DisplayStep ==
    ASSUME IInv, Display
    PROVE  NothingYet' /\ Waiting' /\ Ranking' /\ NaNAlone' /\ Passed'
<1> DEFINE keys == DOMAIN invPredRt
           key  == Slot(keys, predRt[next])
<1>1. /\ predRt[next] \in Predictions /\ next \in Solvers /\ next \in Nat
      /\ pc = "rank" /\ keys \subseteq Predictions
  BY DEF IInv, TypeOK, Display, Solvers
<1>2. /\ invPredRt' = [r \in keys \cup {key} |->
                         IF r = key THEN next ELSE invPredRt[r]]
      /\ next' = next + 1
      /\ UNCHANGED <<pc, exitCode, pretend, paths, predRt, todo, child, lost,
                     reason, tty, pending, reports>>
  BY DEF Display
<1>3. NothingYet' /\ Waiting' /\ Passed'
  <2>1. NothingYet' /\ Waiting'
    BY <1>1, <1>2 DEF IInv, NothingYet, Waiting, Unwaited, Alive, Zombie
  <2>2. Passed'
    BY <1>1, <1>2 DEF Passed
  <2> QED BY <2>1, <2>2
<1>4. ASSUME Numeric' PROVE Ranking'
  <2>1. /\ Numeric /\ NaN \notin keys /\ predRt[next] # NaN
    BY <1>1, <1>2, <1>4 DEF Numeric, IInv, Ranking
  <2>2. key = predRt[next]
    BY <2>1 DEF Slot
  <2>3. DOMAIN invPredRt' = keys \cup {predRt[next]}
    BY <1>2, <2>2
  <2>4. ASSUME NEW s \in Solvers, s < next'
        PROVE  predRt[s] \in DOMAIN invPredRt' /\ s <= invPredRt'[predRt[s]]
    <3> USE DEF Solvers
    <3>1. CASE s = next
      BY <3>1, <1>1, <1>2, <2>2, <2>3
    <3>2. CASE s # next
      <4>1. s < next
        BY <3>2, <2>4, <1>1, <1>2
      <4>2. predRt[s] \in keys /\ s <= invPredRt[predRt[s]]
        BY <4>1, <1>1, <2>1 DEF IInv, Ranking
      <4>3. invPredRt'[predRt[s]] = next \/ invPredRt'[predRt[s]] = invPredRt[predRt[s]]
        BY <4>2, <1>2, <2>2
      <4> QED BY <4>1, <4>2, <4>3, <1>1, <2>3
    <3> QED BY <3>1, <3>2
  <2>5. ASSUME NEW r \in DOMAIN invPredRt'
        PROVE  predRt[invPredRt'[r]] = r /\ invPredRt'[r] < next'
    <3>1. CASE r = predRt[next]
      BY <3>1, <1>1, <1>2, <2>2, <2>3
    <3>2. CASE r # predRt[next]
      <4>1. r \in keys /\ invPredRt'[r] = invPredRt[r]
        BY <3>2, <1>2, <2>2, <2>3
      <4>2. predRt[invPredRt[r]] = r /\ invPredRt[r] < next
        BY <4>1, <1>1, <2>1 DEF IInv, Ranking
      <4>3. invPredRt[r] \in Int
        BY <4>1 DEF IInv, TypeOK, Solvers
      <4> QED BY <4>1, <4>2, <4>3, <1>1, <1>2
    <3> QED BY <3>1, <3>2
  <2> QED BY <1>1, <1>2, <2>1, <2>3, <2>4, <2>5 DEF Ranking
<1>5. NaNAlone'
  <2>1. DOMAIN invPredRt' = keys \cup {key}
    BY <1>2
  <2>2. CASE keys = {}
    BY <2>1, <2>2 DEF NaNAlone, Slot
  <2>3. CASE keys # {} /\ NaN \in keys
    <3>1. keys = {NaN} /\ key = NaN
      BY <2>3 DEF IInv, NaNAlone, Slot, Begin
    <3> QED BY <2>1, <3>1 DEF NaNAlone
  <2>4. CASE keys # {} /\ NaN \notin keys
    <3>1. key # NaN
      BY <1>1, <2>4, BeginIsLeast DEF Slot
    <3> QED BY <2>1, <2>4, <3>1 DEF NaNAlone
  <2> QED BY <2>2, <2>3, <2>4
<1> QED BY <1>3, <1>4, <1>5 DEF Ranking

(* Passing the smallest key, once its solver is lost. *)
LEMMA DropStep ==
    ASSUME IInv, pc \in {"loop", "wait"}, todo # {}, TypeOK',
           todo' = todo \ {Begin(todo)},
           predRt' = predRt, next' = next, invPredRt' = invPredRt,
           pc' = "loop",
           \A s \in Solvers : child'[s] # "none" => child[s] # "none",
           lost \subseteq lost',
           \A s \in Solvers : reason[s] = "signaled" => reason'[s] = "signaled",
           Current \in lost' \/ reason'[Current] = "signaled"
    PROVE  Passed'
<1> SUFFICES ASSUME Numeric' PROVE Passed'
  BY DEF Passed
<1>1. /\ Numeric /\ TypeOK /\ NaN \notin DOMAIN invPredRt
      /\ todo \subseteq DOMAIN invPredRt
  BY DEF IInv, Numeric, Ranking, TypeOK
<1>2. /\ Begin(todo) \in todo /\ \A q \in todo : Begin(todo) <= q
      /\ todo \subseteq Nat
  BY <1>1, CurrentIsSolver, RuntimesAssumption DEF TypeOK, Predictions
<1>3. ASSUME NEW r \in DOMAIN invPredRt' \ todo'
      PROVE  /\ next' > NumSolvers =>
                    invPredRt'[r] \in lost' \/ reason'[invPredRt'[r]] = "signaled"
             /\ \A q \in todo' : r < q
  <2>1. CASE r = Begin(todo)
    <3>1. invPredRt'[r] = Current
      BY <2>1 DEF Current
    <3>2. ASSUME NEW q \in todo' PROVE r < q
      <4>1. q \in todo /\ q # r
        BY <2>1
      <4>2. q \in Nat /\ r \in Nat /\ r <= q
        BY <1>2, <2>1, <4>1
      <4> QED BY <4>1, <4>2
    <3> QED BY <3>1, <3>2
  <2>2. CASE r # Begin(todo)
    <3>1. r \in DOMAIN invPredRt \ todo /\ invPredRt[r] \in Solvers
      BY <1>1, <2>2 DEF TypeOK
    <3> QED BY <1>1, <3>1 DEF IInv, Passed
  <2> QED BY <2>1, <2>2
<1>4. ASSUME NEW s \in Solvers, child'[s] # "none"
      PROVE  /\ next' > NumSolvers
             /\ predRt'[s] \in DOMAIN invPredRt'
             /\ predRt'[s] \in todo' => predRt'[s] = Begin(todo')
  <2>1. /\ next > NumSolvers
        /\ predRt[s] \in DOMAIN invPredRt
        /\ predRt[s] \in todo => predRt[s] = Begin(todo)
    BY <1>1, <1>4 DEF IInv, Passed
  <2> QED BY <2>1
<1> QED BY <1>3, <1>4 DEF Passed

(* A step that only moves main to its end. *)
LEMMA StopStep ==
    ASSUME IInv, pc \in {"features", "loop"}, pc' = "exited",
           predRt' = predRt, next' = next, invPredRt' = invPredRt,
           todo' = todo, child' = child, reason' = reason,
           lost \subseteq lost'
    PROVE  NothingYet' /\ Waiting' /\ Ranking' /\ NaNAlone' /\ Passed'
<1>1. NothingYet'
  BY DEF IInv, NothingYet
<1>2. Waiting'
  BY DEF IInv, Waiting, Unwaited, Alive, Zombie
<1>3. NaNAlone'
  BY DEF IInv, NaNAlone
<1>4. Ranking'
  BY DEF IInv, NothingYet, Ranking, Numeric, TypeOK, Solvers
<1>5. Passed'
  BY DEF IInv, NothingYet, Passed, Numeric
<1> QED BY <1>1, <1>2, <1>3, <1>4, <1>5

LEMMA InvStep == IInv /\ [Next]_vars => IInv'
<1> SUFFICES ASSUME IInv, [Next]_vars PROVE IInv'
  OBVIOUS
<1>0. TypeOK /\ TypeOK'
  BY TypeStep DEF IInv
<1> DEFINE Rest == NothingYet /\ Waiting /\ Ranking /\ NaNAlone /\ Passed
<1> SUFFICES Rest'
  BY <1>0 DEF IInv
<1>1. CASE NoFeatures \/ MissingFeature
  <2>1. /\ pc = "features" /\ pc' = "exited"
        /\ UNCHANGED <<predRt, next, invPredRt, todo, child, reason, lost>>
    BY <1>1 DEF NoFeatures, MissingFeature, Exit
  <2> QED BY <2>1, StopStep
<1>2. CASE Predict
  <2>1. NothingYet' /\ Waiting' /\ NaNAlone' /\ Passed'
    BY <1>2 DEF IInv, Predict, NothingYet, Waiting, NaNAlone, Passed, Unwaited,
                Alive, Zombie
  <2>2. Ranking'
    BY <1>0, <1>2 DEF IInv, Predict, NothingYet, Ranking, Solvers
  <2> QED BY <2>1, <2>2
<1>3. CASE Display
  BY <1>3, DisplayStep
<1>4. CASE Ranked
  <2>1. next = NumSolvers + 1
    BY <1>0, <1>4, NumSolversAssumption DEF Ranked, TypeOK, Solvers
  <2> QED BY <1>4, <2>1 DEF IInv, Ranked, NothingYet, Waiting, Ranking, NaNAlone,
              Passed, Unwaited, Alive, Zombie, Numeric
<1>5. CASE Return \/ NoPath
  <2>1. /\ pc = "loop" /\ pc' = "exited"
        /\ UNCHANGED <<predRt, next, invPredRt, todo, child, reason, lost>>
    BY <1>5 DEF Return, NoPath, Exit
  <2> QED BY <2>1, StopStep
<1>6. CASE Fork
  <2>1. /\ Current \in Solvers /\ Begin(todo) \in DOMAIN invPredRt
    BY <1>0, <1>6, CurrentIsSolver DEF Fork, TypeOK
  <2>2. Waiting'
    BY <1>0, <1>6, <2>1 DEF IInv, Fork, Waiting, Unwaited, Alive, Zombie,
                            Current, TypeOK
  <2>3. Passed'
    BY <1>0, <1>6, <2>1, NumSolversAssumption
       DEF IInv, Fork, Passed, Ranking, NothingYet, Numeric, Current, TypeOK
  <2> QED BY <1>6, <2>2, <2>3
          DEF IInv, Fork, NothingYet, Ranking, NaNAlone, Numeric
<1>7. CASE ForkFails
  <2>1. NothingYet' /\ Waiting' /\ Ranking' /\ NaNAlone'
    BY <1>7 DEF IInv, ForkFails, Exit, Advance, NothingYet, Waiting, Ranking, NaNAlone,
                Numeric, Unwaited, Alive, Zombie
  <2>2. CASE pc' = "loop"
    <3>1. todo' = todo \ {Begin(todo)}
      BY <1>7, <2>2 DEF ForkFails, Exit, Advance
    <3> QED BY <1>0, <1>7, <2>1, <2>2, <3>1, DropStep DEF ForkFails
  <2>3. CASE pc' = "exited" /\ todo' = todo
    BY <1>7, <2>1, <2>3 DEF IInv, ForkFails, Passed, Numeric
  <2> QED BY <1>7, <2>1, <2>2, <2>3 DEF ForkFails, Exit, Advance
<1>8. ASSUME NEW s \in Solvers, Reap(s) PROVE Rest'
  <2>1. /\ pc = "wait" /\ s = Current /\ todo # {} /\ Zombie(s)
    BY <1>8 DEF IInv, Reap, Waiting, Unwaited, NothingYet
  <2>2. /\ child' = [child EXCEPT ![s] = "reaped"]
        /\ reason' = [reason EXCEPT ![s] = child[s]]
        /\ UNCHANGED <<predRt, next, invPredRt, lost>>
    BY <1>8 DEF Reap
  <2>3. NothingYet' /\ Waiting' /\ Ranking' /\ NaNAlone'
    BY <1>0, <1>8, <2>1, <2>2
       DEF IInv, TypeOK, Reap, Exit, Advance, NothingYet, Waiting, Ranking, NaNAlone,
           Numeric, Unwaited, Alive, Zombie
  <2>4. CASE child[s] = "signaled"
    <3>1. pc' = "loop" /\ todo' = todo \ {Begin(todo)}
      BY <1>8, <2>4 DEF Reap, Advance
    <3>2. \A t \in Solvers : child'[t] # "none" => child[t] # "none"
      BY <1>0, <2>1, <2>2 DEF TypeOK, Zombie
    <3>3. /\ \A t \in Solvers : reason[t] = "signaled" => reason'[t] = "signaled"
          /\ reason'[Current] = "signaled"
      BY <1>0, <2>1, <2>2, <2>4 DEF TypeOK
    <3> QED BY <1>0, <2>1, <2>2, <2>3, <3>1, <3>2, <3>3, DropStep
  <2>5. CASE child[s] # "signaled"
    <3>1. pc' = "exited" /\ todo' = todo
      BY <1>8, <2>5 DEF Reap, Exit
    <3>2. s = invPredRt[Begin(todo)] /\ Begin(todo) \in todo
      BY <1>0, <2>1, CurrentIsSolver DEF Current
    <3>3. ASSUME Numeric' PROVE Passed'
      <4>1. Numeric
        BY <2>2, <3>3 DEF Numeric
      <4>2. ASSUME NEW r \in DOMAIN invPredRt \ todo
            PROVE  invPredRt[r] # s
        <5>1. r \in DOMAIN invPredRt /\ Begin(todo) \in DOMAIN invPredRt
          BY <3>2, <4>2, <1>0 DEF TypeOK
        <5>2. predRt[invPredRt[r]] = r /\ predRt[s] = Begin(todo)
          BY <3>2, <4>1, <5>1, <2>1 DEF IInv, Ranking
        <5> QED BY <3>2, <5>2, <4>2
      <4> QED BY <1>0, <2>1, <2>2, <3>1, <4>1, <4>2
              DEF IInv, Passed, TypeOK, Zombie
    <3> QED BY <2>3, <3>3 DEF Passed
  <2> QED BY <2>4, <2>5
<1>9. ASSUME NEW s \in Solvers, Child(s) PROVE Rest'
  <2>1. /\ Alive(s) /\ s = Current /\ pc = "wait"
        /\ UNCHANGED <<pc, predRt, next, invPredRt, todo, lost, reason>>
        /\ \E c \in ChildStates \ {"none"} : child' = [child EXCEPT ![s] = c]
    BY <1>9 DEF IInv, Child, Exec, ExecFails, SolverExits, Signal, Alive,
                Waiting, Unwaited, ChildStates
  <2>2. \A t \in Solvers : t # s => child'[t] = child[t]
    BY <1>0, <2>1 DEF TypeOK
  <2>3. NothingYet' /\ Waiting' /\ Ranking' /\ NaNAlone'
    BY <2>1, <2>2 DEF IInv, NothingYet, Waiting, Ranking, NaNAlone, Numeric,
                      Unwaited, Alive, Zombie, Current
  <2>4. Passed'
    BY <2>1, <2>2 DEF IInv, Passed, Numeric, Alive
  <2> QED BY <2>3, <2>4
<1>10. CASE UNCHANGED vars
  BY <1>10 DEF IInv, vars, NothingYet, Waiting, Ranking, NaNAlone, Passed,
               Numeric, Unwaited, Alive, Zombie, Current
<1> QED
  BY <1>0, <1>1, <1>2, <1>3, <1>4, <1>5, <1>6, <1>7, <1>8, <1>9, <1>10
     DEF Next, Parent, Terminated, IInv

LEMMA Invariant == Spec => []IInv
BY InvInit, InvStep, PTL DEF Spec

(* The ranking loses a solver only to a later name with its prediction. *)
THEOREM TiesOnly == Spec => []LostOnlyToTies
<1>1. IInv => LostOnlyToTies
  <2> SUFFICES ASSUME IInv, Numeric, pc \in {"loop", "wait"}
               PROVE  /\ \A s \in Solvers :
                            \E t \in Solvers :
                               /\ t >= s /\ predRt[t] = predRt[s]
                               /\ predRt[s] \in DOMAIN invPredRt
                               /\ invPredRt[predRt[s]] = t
                      /\ \A r \in DOMAIN invPredRt : predRt[invPredRt[r]] = r
    BY DEF LostOnlyToTies
  <2>1. ASSUME NEW s \in Solvers
        PROVE  \E t \in Solvers :
                  /\ t >= s /\ predRt[t] = predRt[s]
                  /\ predRt[s] \in DOMAIN invPredRt
                  /\ invPredRt[predRt[s]] = t
    <3> DEFINE t == invPredRt[predRt[s]]
    <3>1. s < next
      BY NumSolversAssumption DEF IInv, NothingYet, Solvers
    <3>2. predRt[s] \in DOMAIN invPredRt /\ s <= t /\ predRt[t] = predRt[s]
      BY <3>1 DEF IInv, Ranking
    <3>3. t \in Solvers /\ t \in Int /\ s \in Int
      BY <3>2 DEF IInv, TypeOK, Solvers
    <3>4. t >= s
      BY <3>2, <3>3
    <3> QED BY <3>2, <3>3, <3>4
  <2>2. \A r \in DOMAIN invPredRt : predRt[invPredRt[r]] = r
    BY DEF IInv, Ranking
  <2> QED BY <2>1, <2>2
<1> QED BY <1>1, Invariant, PTL

(* One child at a time, and none left behind. *)
THEOREM SingleChild == Spec => []OneChildAtATime
<1>1. IInv => OneChildAtATime
  BY DEF IInv, Waiting, OneChildAtATime
<1> QED BY <1>1, Invariant, PTL

(* No solver starts while one with a smaller prediction has not been lost. *)
THEOREM PredictedOrder == Spec => []BestFirst
<1>1. IInv => BestFirst
  <2> SUFFICES ASSUME IInv, Numeric, NEW s \in Solvers, NEW t \in Solvers,
                      child[s] # "none", predRt[t] < predRt[s]
               PROVE  \E u \in Solvers :
                         /\ predRt[u] = predRt[t]
                         /\ u \in lost \/ reason[u] = "signaled"
    BY DEF BestFirst
  <2>1. pc \in {"loop", "wait", "exited"}
    BY DEF IInv, TypeOK, NothingYet
  <2>2. /\ next > NumSolvers /\ predRt[s] \in DOMAIN invPredRt
        /\ predRt[s] \in todo => predRt[s] = Begin(todo)
    BY <2>1 DEF IInv, Passed
  <2>3. t < next
    BY <2>2, NumSolversAssumption DEF Solvers, IInv, TypeOK
  <2>4. /\ predRt[t] \in DOMAIN invPredRt /\ NaN \notin DOMAIN invPredRt
        /\ predRt[invPredRt[predRt[t]]] = predRt[t]
    BY <2>1, <2>3 DEF IInv, Ranking
  <2>5. DOMAIN invPredRt \subseteq Nat /\ todo \subseteq DOMAIN invPredRt
    BY <2>4, RuntimesAssumption DEF IInv, TypeOK, Predictions
  <2>6. predRt[t] \notin todo
    <3> SUFFICES ASSUME predRt[t] \in todo PROVE FALSE
      OBVIOUS
    <3>1. predRt[s] \in Nat /\ predRt[t] \in Nat
      BY <2>2, <2>4, <2>5
    <3>2. CASE predRt[s] \in todo
      <4>1. Begin(todo) <= predRt[t]
        BY <2>4, <2>5, CurrentIsSolver DEF IInv
      <4> QED BY <2>2, <3>1, <3>2, <4>1
    <3>3. CASE predRt[s] \notin todo
      <4>1. predRt[s] < predRt[t]
        BY <2>1, <2>2, <3>3 DEF IInv, Passed
      <4> QED BY <3>1, <4>1
    <3> QED BY <3>2, <3>3
  <2>7. invPredRt[predRt[t]] \in Solvers
    BY <2>4 DEF IInv, TypeOK
  <2>8. invPredRt[predRt[t]] \in lost \/ reason[invPredRt[predRt[t]]] = "signaled"
    BY <2>1, <2>2, <2>4, <2>6 DEF IInv, Passed
  <2> QED BY <2>4, <2>7, <2>8
<1> QED BY <1>1, Invariant, PTL
-----------------------------------------------------------------------------
(* What main has to show for what it passed, and where the report is. This *)
(* holds for predictions of any kind, NaN included.                        *)
Accounted ==
    pc \in {"loop", "wait"} =>
        \A r \in DOMAIN invPredRt \ todo :
            invPredRt[r] \in lost \/ reason[invPredRt[r]] = "signaled"

(* No answer has been seen while main goes on, and nothing is printed      *)
(* before the ranking; on a terminal the report is printed at its end, and *)
(* elsewhere it waits in main's buffer, and in the copy of a child until   *)
(* that child execs, dies or falls through to exit.                        *)
Buffered ==
    /\ pc # "exited" => \A s \in Solvers : reason[s] \in {"none", "signaled"}
    /\ pc \in {"features", "rank"} => reports = 0 /\ pending = {}
    /\ tty => pending = {} /\ (pc \in {"loop", "wait"} => reports = 1)
    /\ ~tty /\ pc \in {"loop", "wait"} => Main \in pending
    /\ ~tty /\ pc = "loop" => reports = 0
    /\ ~tty /\ pc = "wait" =>
          /\ Current \in pending <=> child[Current] = "forked"
          /\ reports = IF child[Current] = "noexec" THEN 1 ELSE 0

Told == Accounted /\ Buffered /\ ExitJustified /\ ReportCopies

LEMMA MainIsNoSolver == Main \notin Solvers
BY DEF Main, Solvers

(* At most one child can have fallen through, so that their number is      *)
(* nought or one.                                                          *)
LEMMA NoCopies ==
    ASSUME NEW how, NEW onTerminal,
           \A s \in Solvers : onTerminal \/ how[s] # "noexec"
    PROVE  Cardinality({s \in Solvers : ~onTerminal /\ how[s] = "noexec"}) = 0
<1>1. {s \in Solvers : ~onTerminal /\ how[s] = "noexec"} = {}
  OBVIOUS
<1> QED BY <1>1, FS_EmptySet

LEMMA OneCopy ==
    ASSUME NEW how, NEW onTerminal, ~onTerminal,
           NEW t \in Solvers, how[t] = "noexec",
           \A s \in Solvers : s # t => how[s] # "noexec"
    PROVE  Cardinality({s \in Solvers : ~onTerminal /\ how[s] = "noexec"}) = 1
<1>1. {s \in Solvers : ~onTerminal /\ how[s] = "noexec"} = {t}
  OBVIOUS
<1> QED BY <1>1, FS_Singleton

LEMMA ToldInit == Init => Told
BY DEF Init, Told, Accounted, Buffered, ExitJustified, ReportCopies

(* main stops of itself, between two children or before the first. *)
LEMMA StopTells ==
    ASSUME IInv, Told, TypeOK', pc = "loop", NEW code \in {0, 1}, Exit(code),
           invPredRt' = invPredRt, next' = next, reason' = reason, tty' = tty,
           pretend' = pretend, lost \subseteq lost',
           code = 1 \/ pretend \/ todo = {} \/ lost' # {}
    PROVE  Told'
<1>1. Accounted' /\ Buffered'
  BY DEF Exit, Accounted, Buffered, Told, IInv, TypeOK, MainIsNoSolver
<1>2. ExitJustified'
  BY DEF Exit, Told, Accounted, ExitJustified, IInv, TypeOK
<1>3. reports' = 1
  BY DEF Exit, Told, Buffered, IInv, TypeOK
<1>4. ReportCopies'
  <2>1. \A s \in Solvers : tty' \/ reason'[s] # "noexec"
    BY DEF Told, Buffered
  <2> QED BY <1>3, <2>1, NoCopies DEF ReportCopies
<1> QED BY <1>1, <1>2, <1>4 DEF Told

(* main has waited for the child of the current solver. *)
LEMMA ReapTells ==
    ASSUME IInv, Told, TypeOK', NEW s \in Solvers, Reap(s)
    PROVE  Told'
<1>1. /\ pc = "wait" /\ s = Current /\ todo # {} /\ Zombie(s)
      /\ reason' = [reason EXCEPT ![s] = child[s]]
      /\ UNCHANGED <<invPredRt, next, pretend, lost, tty>>
  BY DEF IInv, Reap, Waiting, Unwaited, NothingYet
<1>2. /\ reason'[s] = child[s]
      /\ \A t \in Solvers : t # s => reason'[t] = reason[t]
      /\ \A t \in Solvers : reason[t] \in {"none", "signaled"}
      /\ Begin(todo) \in todo
  BY <1>1, CurrentIsSolver DEF IInv, TypeOK, Told, Buffered
<1>3. CASE child[s] = "signaled"
  <2>1. /\ pc' = "loop" /\ todo' = todo \ {Begin(todo)}
        /\ UNCHANGED <<pending, reports>>
    BY <1>3 DEF Reap, Advance
  <2>2. ASSUME NEW r \in DOMAIN invPredRt' \ todo'
        PROVE  invPredRt'[r] \in lost' \/ reason'[invPredRt'[r]] = "signaled"
    <3>1. CASE r = Begin(todo)
      BY <1>1, <1>2, <1>3, <3>1 DEF Current
    <3>2. CASE r # Begin(todo)
      <4>1. r \in DOMAIN invPredRt \ todo /\ invPredRt[r] \in Solvers
        BY <1>1, <2>1, <2>2, <3>2 DEF IInv, TypeOK
      <4>2. invPredRt[r] \in lost \/ reason[invPredRt[r]] = "signaled"
        BY <1>1, <4>1 DEF Told, Accounted
      <4> QED BY <1>1, <1>2, <1>3, <4>1, <4>2
    <3> QED BY <3>1, <3>2
  <2>3. Buffered'
    BY <1>1, <1>2, <1>3, <2>1 DEF Told, Buffered
  <2>4. ExitJustified' /\ ReportCopies'
    BY <2>1 DEF ExitJustified, ReportCopies
  <2> QED BY <2>2, <2>3, <2>4 DEF Told, Accounted
<1>4. CASE child[s] # "signaled"
  <2>1. Exit(0) /\ child[s] \in {"exited", "noexec"}
    BY <1>1, <1>4 DEF Reap, Zombie
  <2>2. Accounted' /\ Buffered' /\ ExitJustified'
    BY <1>1, <1>2, <2>1, MainIsNoSolver
       DEF Exit, Accounted, Buffered, ExitJustified, Told
  <2>3. ReportCopies'
    <3>1. CASE tty \/ child[s] # "noexec"
      <4>1. reports' = 1
        BY <1>1, <2>1, <3>1 DEF Exit, Told, Buffered, IInv, TypeOK
      <4>2. \A t \in Solvers : tty' \/ reason'[t] # "noexec"
        BY <1>1, <1>2, <3>1
      <4> QED BY <4>1, <4>2, NoCopies DEF ReportCopies
    <3>2. CASE ~tty /\ child[s] = "noexec"
      <4>1. reports' = 2
        BY <1>1, <2>1, <3>2 DEF Exit, Told, Buffered
      <4>2. ~tty' /\ reason'[s] = "noexec"
        BY <1>1, <1>2, <3>2
      <4>3. \A t \in Solvers : t # s => reason'[t] # "noexec"
        BY <1>2
      <4> QED BY <4>1, <4>2, <4>3, OneCopy DEF ReportCopies
    <3> QED BY <3>1, <3>2
  <2> QED BY <2>2, <2>3 DEF Told
<1> QED BY <1>3, <1>4

LEMMA ToldStep == IInv /\ Told /\ TypeOK' /\ [Next]_vars => Told'
<1> SUFFICES ASSUME IInv, Told, TypeOK', [Next]_vars PROVE Told'
  OBVIOUS
<1>1. CASE NoFeatures \/ MissingFeature
  <2>1. /\ pc = "features" /\ next = 1 /\ Exit(1)
        /\ UNCHANGED <<next, reason, tty>>
    BY <1>1 DEF NoFeatures, MissingFeature, IInv, NothingYet
  <2>2. Accounted' /\ Buffered' /\ ExitJustified'
    BY <2>1 DEF Exit, Accounted, Buffered, ExitJustified, Told
  <2>3. ReportCopies'
    BY <2>1, NumSolversAssumption DEF ReportCopies
  <2> QED BY <2>2, <2>3 DEF Told
<1>2. CASE Predict \/ Display
  BY <1>2 DEF Predict, Display, Told, Accounted, Buffered, ExitJustified, ReportCopies
<1>3. CASE Ranked
  BY <1>3 DEF Ranked, Told, Accounted, Buffered, ExitJustified, ReportCopies
<1>4. CASE Return
  BY <1>4, StopTells DEF Return
<1>5. CASE NoPath
  BY <1>5, StopTells DEF NoPath
<1>6. CASE Fork
  <2>1. Current \in Solvers /\ Current' = Current /\ child'[Current] = "forked"
    BY <1>6, CurrentIsSolver DEF IInv, Fork, TypeOK, Current
  <2>2. Buffered'
    BY <1>6, <2>1, MainIsNoSolver DEF Fork, Told, Buffered
  <2>3. Accounted' /\ ExitJustified' /\ ReportCopies'
    BY <1>6 DEF Fork, Told, Accounted, ExitJustified, ReportCopies
  <2> QED BY <2>2, <2>3 DEF Told
<1>7. CASE ForkFails
  <2>1. CASE Exit(0) /\ UNCHANGED todo
    <3>1. lost' # {} /\ lost \subseteq lost'
      BY <1>7 DEF ForkFails
    <3> QED BY <1>7, <2>1, <3>1, StopTells DEF ForkFails
  <2>2. CASE Advance /\ UNCHANGED <<pc, exitCode, pending, reports>>
    <3>1. Accounted'
      BY <1>7, <2>2 DEF ForkFails, Advance, Told, Accounted, Current
    <3>2. Buffered' /\ ExitJustified' /\ ReportCopies'
      BY <1>7, <2>2 DEF ForkFails, Told, Buffered, ExitJustified, ReportCopies
    <3> QED BY <3>1, <3>2 DEF Told
  <2> QED BY <1>7, <2>1, <2>2 DEF ForkFails
<1>8. ASSUME NEW s \in Solvers, Reap(s) PROVE Told'
  BY <1>8, ReapTells
<1>9. ASSUME NEW s \in Solvers, Child(s) PROVE Told'
  <2>1. /\ Alive(s) /\ s = Current /\ pc = "wait" /\ child \in [Solvers -> ChildStates]
        /\ UNCHANGED <<pc, invPredRt, todo, tty, reason, Current>>
    BY <1>9 DEF IInv, TypeOK, Child, Exec, ExecFails, SolverExits, Signal, Alive,
                Waiting, Unwaited, Current
  <2>2. Accounted' /\ ExitJustified' /\ ReportCopies'
    BY <1>9, <2>1 DEF Child, Exec, ExecFails, SolverExits, Signal, Told, Accounted,
                      ExitJustified, ReportCopies
  <2>3. Buffered'
    BY <1>9, <2>1, MainIsNoSolver
       DEF Child, Exec, ExecFails, SolverExits, Signal, Told, Buffered, Alive
  <2> QED BY <2>2, <2>3 DEF Told
<1>10. CASE UNCHANGED vars
  BY <1>10 DEF vars, Told, Accounted, Buffered, ExitJustified, ReportCopies, Current
<1> QED
  BY <1>1, <1>2, <1>3, <1>4, <1>5, <1>6, <1>7, <1>8, <1>9, <1>10
     DEF Next, Parent, Terminated

(* What the caller sees of the portfolio is right: it reports success for  *)
(* a reason, and its report comes once, and once more for each child that  *)
(* inherited it in its buffer and whose execv failed.                      *)
THEOREM CallerIsTold == Spec => []ExitTells
<1>1. IInv /\ Told => ExitTells
  BY DEF Told, ExitTells
<1>2. IInv' => TypeOK'
  BY DEF IInv
<1> QED BY <1>1, <1>2, Invariant, ToldInit, ToldStep, PTL DEF Spec
-----------------------------------------------------------------------------
(* The key main passes is the first of the abstract alternatives. *)
LEMMA DropRefines ==
    ASSUME IInv, todo # {}, pc \in {"loop", "wait"}, pc' = "loop",
           todo' = todo \ {Begin(todo)}
    PROVE  Order!Drop
<1>1. Begin(todo) \in todo
  BY CurrentIsSolver DEF IInv
<1>2. Order!IsFirst(Begin(todo))
  <2>1. CASE NaN \in todo
    <3>1. todo = {NaN}
      BY <2>1 DEF IInv, NaNAlone, TypeOK
    <3> QED BY <1>1, <3>1 DEF Order!IsFirst
  <2>2. CASE NaN \notin todo
    BY <1>1, <2>2, CurrentIsSolver DEF IInv, Order!IsFirst
  <2> QED BY <2>1, <2>2
<1>3. Phase \in {"choosing", "trying"} /\ Phase' = "choosing"
  BY DEF Phase
<1> QED BY <1>1, <1>2, <1>3 DEF Order!Drop

(* main with its children implements the failover specification. *)
THEOREM Implementation == Spec => ImplementsFailover
<1>1. Init => Order!Init
  BY DEF Init, Order!Init, Phase
<1>2. IInv /\ [Next]_vars => [Order!Next]_<<todo, Phase>>
  <2> SUFFICES ASSUME IInv, [Next]_vars
               PROVE  Order!Next \/ UNCHANGED <<todo, Phase>>
    OBVIOUS
  <2>1. CASE NoFeatures \/ MissingFeature \/ Return \/ NoPath
    <3>1. /\ Phase \in {"ranking", "choosing"} /\ Phase' = "stopped"
          /\ todo' = todo
      BY <2>1 DEF NoFeatures, MissingFeature, Return, NoPath, Exit, Phase
    <3> QED BY <3>1 DEF Order!Next, Order!GiveUp
  <2>2. CASE Predict \/ Display
    BY <2>2 DEF Predict, Display, Phase
  <2>3. CASE Ranked
    <3>1. todo' \in SUBSET Predictions
      BY <2>3 DEF Ranked, IInv, TypeOK
    <3>2. Phase = "ranking" /\ Phase' = "choosing"
      BY <2>3 DEF Ranked, Phase
    <3> QED BY <3>1, <3>2 DEF Order!Next, Order!Rank
  <2>4. CASE Fork
    BY <2>4 DEF Fork, Phase, Order!Next, Order!Try
  <2>5. CASE ForkFails
    <3>1. CASE pc' = "exited" /\ todo' = todo
      BY <2>5, <3>1 DEF ForkFails, Phase, Order!Next, Order!GiveUp
    <3>2. CASE pc' = "loop" /\ todo' = todo \ {Begin(todo)}
      BY <2>5, <3>2, DropRefines DEF ForkFails, Order!Next
    <3> QED BY <2>5, <3>1, <3>2 DEF ForkFails, Exit, Advance
  <2>6. ASSUME NEW s \in Solvers, Reap(s)
        PROVE  Order!Next
    <3>1. CASE pc' = "exited" /\ todo' = todo
      BY <2>6, <3>1 DEF Reap, Phase, Order!Next, Order!Answer
    <3>2. CASE pc' = "loop" /\ todo' = todo \ {Begin(todo)}
      BY <2>6, <3>2, DropRefines DEF Reap, IInv, NothingYet, Order!Next
    <3> QED BY <2>6, <3>1, <3>2 DEF Reap, Exit, Advance
  <2>7. ASSUME NEW s \in Solvers, Child(s)
        PROVE  UNCHANGED <<todo, Phase>>
    BY <2>7 DEF Child, Exec, ExecFails, SolverExits, Signal, Phase
  <2>8. CASE UNCHANGED vars
    BY <2>8 DEF vars, Phase
  <2> QED
    BY <2>1, <2>2, <2>3, <2>4, <2>5, <2>6, <2>7, <2>8 DEF Next, Parent, Terminated
<1> QED
  BY <1>1, <1>2, Invariant, PTL DEF Spec, ImplementsFailover, Order!Spec
=============================================================================
