-------------------------------- MODULE Card --------------------------------
(***************************************************************************)
(* msuncore's cardinality constraints in one process, which generates      *)
(* them for one solver call after the other and for two of them in the     *)
(* same call (-q): the auxiliary variables of one constraint must not be   *)
(* those of another.  nconstr numbers the constraints in the names of the  *)
(* BDD nodes, gen_id never repeats.                                        *)
(***************************************************************************)
EXTENDS Encoders, Solving

CONSTANTS
  MaxInputs,    \* bound on the inputs of a constraint
  MaxRequests   \* bound on the constraints of a process

VARIABLES
  nconstr,      \* constraints generated through BDDs, and outputs of sorters
  requests      \* what was asked for, with the clauses it became

cardVars == <<nconstr, requests>>

-----------------------------------------------------------------------------
CardInit == nconstr = 0 /\ requests = <<>>

Alive == \A i \in DOMAIN requests : ~requests[i].made.dies

Serve(enc, op, n, rhs, made) ==
  /\ nconstr' = nconstr + made.nc
  /\ requests' = Append(requests, [enc |-> enc, op |-> op, n |-> n, rhs |-> rhs, made |-> made])

(* The encoding is an option of the program: one for the whole process.    *)
MayAsk(enc, n) ==
  /\ Alive
  /\ Len(requests) < MaxRequests
  /\ requests # <<>> => enc = requests[1].enc /\ n = requests[1].n

AskAtMost ==
  \E enc \in Encodings, n \in 1..MaxInputs : \E rhs \in 0..n :
    /\ MayAsk(enc, n)
    /\ Serve(enc, "atmost", n, rhs,
             gen_card_constraint(enc, nconstr + 1, Len(requests) + 1, Inputs(n), rhs))

AskAtLeast ==
  \E enc \in Encodings, n \in 1..MaxInputs : \E rhs \in 0..n :
    /\ MayAsk(enc, n)
    /\ Serve(enc, "atleast", n, rhs, gen_extra_card_constraint(enc, nconstr + 1, Inputs(n), rhs))

CardNext == AskAtMost \/ AskAtLeast

CardSpec == CardInit /\ [][CardNext]_cardVars

-----------------------------------------------------------------------------
Gates == FlattenSeq([i \in DOMAIN requests |-> requests[i].made.gates])
AllClauses == UNION {Gates[i] : i \in DOMAIN Gates}

(* The clauses of all constraints together allow an assignment of the      *)
(* inputs exactly when each constraint does: whatever the auxiliary        *)
(* variables are for, they neither lose nor add an assignment, and those   *)
(* of one constraint do not meddle with another's.                         *)
EncodingExact ==
  requests # <<>> =>
    LET xs == {<<"x", i>> : i \in 1..requests[1].n}
    IN  \A t \in SUBSET xs :
          Solvable(AllClauses \cup {{Pos(x)} : x \in t} \cup {{Neg(Pos(x))} : x \in xs \ t})
            <=> \A i \in DOMAIN requests :
                  requests[i].made.dies \/ Meets(t, Contract(requests[i]))

(* add_cl ends the program when a clause is there already: no clause on an *)
(* auxiliary variable belongs to two gates, of one request or of two.      *)
GatesDistinct ==
  \A i, j \in DOMAIN Gates :
    i # j => ~ \E c \in Gates[i] \cap Gates[j] : Auxiliary(c)

(* The program dies on exactly the requests its callers count as refused. *)
RefusalsKnown ==
  \A i \in DOMAIN requests : requests[i].made.dies <=> Refuses(requests[i])

(* What the callers of the encodings count on (Cardinality).               *)
RequestsServed == EncodingExact /\ GatesDistinct /\ RefusalsKnown
=============================================================================
