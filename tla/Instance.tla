------------------------------- MODULE Instance -------------------------------
(***************************************************************************)
(* The reading of an instance by the features program (src/src/features.cc *)
(* and MaxSatInstance.cc).  The constructor counts what the file holds;    *)
(* computeLocalSearchProperties then has ubcsat::main read the same file   *)
(* twice, or for a partial instance what scripts/pmcnf2wcnf makes of it,   *)
(* with a reader of its own (ReadCNF, src/ubcsat/ubcsat-cnf.cc) that       *)
(* stores the literals in chunks of ubcsat's heap.                         *)
(*                                                                         *)
(* A file is the sequence of its lines behind the header.  The readers see *)
(* it as tokens, a number being one token as long as nobody takes its      *)
(* first character away.                                                   *)
(***************************************************************************)
EXTENDS Heap, SequencesExt

CONSTANTS
    NumVars,     \* variables of every file
    Files,       \* the files: format and lines
    ChunkLits    \* LITSPERCHUNK: literals of a chunk

ASSUME NumVarsAssumption   == NumVars \in 1..9
ASSUME ChunkLitsAssumption == ChunkLits \in Nat \ {0}

Formats == {"cnf", "wcnf", "pmcnf", "wpmcnf"}

(* A clause line has its literals, and a weight in a wcnf file; blank says *)
(* that a space comes first.  Other lines are a comment and, in a pmcnf    *)
(* file, "p hard" and "p soft", which say what the clauses below them are. *)
Lines == [kind : {"clause", "comment", "hard", "soft"}, weight : Nat, blank : BOOLEAN,
          lits : Seq(((-NumVars)..NumVars) \ {0})]

ASSUME FilesAssumption ==
    \A f \in Files :
        /\ f.format \in Formats
        /\ f.lines \in Seq(Lines)
        /\ \A i \in DOMAIN f.lines :
              f.lines[i].kind \in {"hard", "soft"} => f.format = "pmcnf"

VARIABLES
    file,    \* the file
    pc,      \* where the program is
    call,    \* calls of ubcsat::main begun
    rest,    \* what the reader has not taken from its stream
    bad,     \* infile has failed once and for all
    read,    \* clauses the reader is done with: clauseNum, or j
    msi,     \* the fields of MaxSatInstance
    cnf,     \* the variables of ubcsat-cnf.cc
    heap     \* the allocator

vars == <<file, pc, call, rest, bad, read, msi, cnf, heap>>

-----------------------------------------------------------------------------
(***************************************************************************)
(* Text.                                                                   *)
(***************************************************************************)

Word(w) == [kind |-> w, num |-> 0]
Num(k)  == [kind |-> "number", num |-> k]
NL == Word("newline")
SP == Word("space")

Blank(t) == t = NL \/ t = SP

LitsText(lits) == FlattenSeq([i \in DOMAIN lits |-> <<Num(lits[i]), SP>>])

LineText(format, x) ==
    CASE x.kind = "clause" ->
            (IF x.blank THEN <<SP>> ELSE <<>>)
            \o (IF format = "wcnf" THEN <<Num(x.weight), SP>> ELSE <<>>)
            \o LitsText(x.lits)
            \o <<Num(0), NL>>
      [] x.kind = "comment"          -> <<Word("c"), SP, Word("text"), NL>>
      [] x.kind \in {"hard", "soft"} -> <<Word("p"), SP, Word(x.kind), NL>>

Text(f) == FlattenSeq([i \in DOMAIN f.lines |-> LineText(f.format, f.lines[i])])

IsClause(x) == x.kind = "clause"
Clauses(f)  ==
    FoldLeft(LAMBDA q, x : IF IsClause(x) THEN Append(q, x) ELSE q, <<>>, f.lines)

(* scripts/pmcnf2wcnf: a clause is soft when "p soft" was the last such    *)
(* line above it.  Soft clauses come first and weigh 1; a hard clause      *)
(* weighs more than all of them.                                           *)
IsSection(x) == x.kind \in {"hard", "soft"}

IsSoft(f, i) ==
    LET k == SelectLastInSubSeq(f.lines, 1, i, IsSection)
    IN  k > 0 /\ f.lines[k].kind = "soft"

ClausesWhere(f, soft) ==
    FoldLeftDomain(LAMBDA q, i : IF IsClause(f.lines[i]) /\ IsSoft(f, i) = soft
                                 THEN Append(q, f.lines[i].lits) ELSE q, <<>>, f.lines)

(* Mutant: no more than all of them.                                       *)
HardWeightSum(f) == Len(ClausesWhere(f, TRUE))

HardWeight(f) == Len(ClausesWhere(f, TRUE)) + 1

Converted(f) ==
    LET line(w, lits) == [kind |-> "clause", weight |-> w, blank |-> FALSE, lits |-> lits]
        soft == ClausesWhere(f, TRUE)
        hard == ClausesWhere(f, FALSE)
    IN  [format |-> "wcnf",
         lines  |-> [k \in DOMAIN soft |-> line(1, soft[k])]
                    \o [k \in DOMAIN hard |-> line(HardWeight(f), hard[k])]]

(* What ubcsat::main is given to read, and whether with -w.                *)
Given(f)    == IF f.format = "pmcnf" THEN Converted(f) ELSE f
Weighted(f) == f.format = "pmcnf"

(* One character is taken from the stream: a number loses its sign or, as  *)
(* it has no other, its digit.                                             *)
Bite(s) ==
    CASE s = <<>> -> s
      [] s # <<>> /\ Head(s).num < 0 -> <<Num(0 - Head(s).num)>> \o Tail(s)
      [] OTHER -> Tail(s)

From(s, i)     == IF i = 0 THEN <<>> ELSE SubSeq(s, i, Len(s))
SkipBlanks(s)  == From(s, SelectInSeq(s, LAMBDA t : ~Blank(t)))
AfterLine(s)   == Tail(From(s, SelectInSeq(s, LAMBDA t : t = NL)))
StartsWith(s, w) == s # <<>> /\ Head(s).kind = w

Numbers(s) ==
    FoldLeft(LAMBDA q, t : IF t.kind = "number" THEN Append(q, t.num) ELSE q, <<>>, s)

(* Numbers up to a 0, or up to what is no number, which stays where it is. *)
Stops(t) == t = Num(0) \/ (~Blank(t) /\ t.kind # "number")

Literals(s) ==
    LET stop == SelectInSeq(s, Stops)
        upTo == IF stop = 0 THEN s ELSE SubSeq(s, 1, stop - 1)
        ok   == stop # 0 /\ s[stop] = Num(0)
    IN  [lits |-> Numbers(upTo),
         ok   |-> ok,
         rest |-> From(s, IF ok THEN stop + 1 ELSE stop)]
-----------------------------------------------------------------------------
(***************************************************************************)
(* MaxSatInstance::MaxSatInstance.                                         *)
(***************************************************************************)

Sizes   == 1..3
NoneYet == [v \in 1..NumVars |-> 0]
NoSizes == [n \in Sizes |-> 0]

Init ==
    /\ file \in Files
    /\ pc = "count"
    /\ call = 0
    /\ rest = <<NL>> \o Text(file)
    /\ bad = FALSE
    /\ read = 0
    /\ msi = [numClauses |-> Len(Clauses(file)), hardClauses |-> file.format = "pmcnf",
              neg |-> NoneYet, pos |-> NoneYet, s |-> NoSizes, h |-> NoSizes,
              hNum |-> 0, sNum |-> 0]
    /\ cnf = [numClause |-> 0, at |-> <<>>, len |-> <<>>, weight |-> <<>>,
              numLit |-> 0, chunks |-> <<>>, dummy |-> 0]
    /\ heap = NoHeap

Abs(l) == IF l < 0 THEN 0 - l ELSE l

(* Mutant: the literal that takes the place of a redundant one is passed   *)
(* over.                                                                   *)
SortStepPasses(t) ==
    LET n == Len(t.lits)
        a == t.lits[t.i]
        b == t.lits[t.j]
    IN  CASE t.tautology \/ t.i >= n        -> t
          [] ~t.tautology /\ t.i < n /\ t.j > n -> [t EXCEPT !.i = @ + 1, !.j = t.i + 2]
          [] OTHER ->
                CASE Abs(a) > Abs(b) -> [t EXCEPT !.lits[t.i] = b, !.lits[t.j] = a, !.j = @ + 1]
                  [] a = b           -> [t EXCEPT !.lits = Front([@ EXCEPT ![t.j] = t.lits[n]]),
                                                  !.j = @ + 1]
                  [] a = 0 - b       -> [t EXCEPT !.tautology = TRUE]
                  [] Abs(a) < Abs(b) -> [t EXCEPT !.j = @ + 1]

(* A turn of the loops of isTautologicalClause.                            *)
SortStep(t) ==
    LET n == Len(t.lits)
        a == t.lits[t.i]
        b == t.lits[t.j]
    IN  CASE t.tautology \/ t.i >= n        -> t
          [] ~t.tautology /\ t.i < n /\ t.j > n -> [t EXCEPT !.i = @ + 1, !.j = t.i + 2]
          [] OTHER ->
                CASE Abs(a) > Abs(b) -> [t EXCEPT !.lits[t.i] = b, !.lits[t.j] = a, !.j = @ + 1]
                  [] a = b           -> [t EXCEPT !.lits = Front([@ EXCEPT ![t.j] = t.lits[n]])]
                  [] a = 0 - b       -> [t EXCEPT !.tautology = TRUE]
                  [] Abs(a) < Abs(b) -> [t EXCEPT !.j = @ + 1]

(* Whether the clause is tautological, and the literals without redundant  *)
(* ones if it is not.  The loops take at most n * (n + 1) turns.           *)
Sorted(lits) ==
    LET turns == Len(lits) * (Len(lits) + 1)
    IN  FoldLeft(LAMBDA t, k : SortStep(t),
                 [lits |-> lits, i |-> 1, j |-> 2, tautology |-> FALSE],
                 [k \in 1..turns |-> k])

Bump(f, x) == IF x \in DOMAIN f THEN [f EXCEPT ![x] = @ + 1] ELSE f

(* A number behind the last variable, as weights read for literals may be, *)
(* is counted behind the end of the arrays.                                *)
CountLits(m, lits) ==
    FoldLeft(LAMBDA t, l : IF l < 0 THEN [t EXCEPT !.neg = Bump(@, 0 - l)]
                                    ELSE [t EXCEPT !.pos = Bump(@, l)], m, lits)

Count(m, lits) ==
    LET n == Len(lits)
        t == IF m.hardClauses THEN [m EXCEPT !.hNum = @ + 1, !.h = Bump(@, n)]
                              ELSE [m EXCEPT !.s = Bump(@, n)]
    IN  CountLits(t, lits)

(* A turn of the loop over the clauses.  Once a number was expected where  *)
(* there is none, every clause is empty.  A line that begins with p is     *)
(* recognized by its first word, which is "p".                             *)
ReadClause ==
    /\ pc = "count"
    /\ read < msi.numClauses
    /\ LET next    == IF bad THEN rest ELSE Bite(rest)
           section == file.format = "pmcnf" /\ ~bad /\ StartsWith(next, "p")
           strbuf  == Head(next).kind
           m       == [msi EXCEPT !.hardClauses = @ /\ ~(section /\ strbuf = "soft")]
           r       == Literals(IF section THEN AfterLine(next) ELSE next)
           lits    == IF bad THEN <<>> ELSE r.lits
           t       == Sorted(lits)
           wild    == ~t.tautology /\ \E i \in DOMAIN t.lits : Abs(t.lits[i]) > NumVars
       IN  /\ rest' = IF bad THEN rest ELSE r.rest
           /\ bad' = (bad \/ ~r.ok)
           /\ IF t.tautology
              THEN msi' = [m EXCEPT !.numClauses = @ - 1] /\ UNCHANGED read
              ELSE msi' = Count(m, t.lits) /\ read' = read + 1
           /\ pc' \in IF wild THEN {"count", "crashed"} ELSE {"count"}
    /\ UNCHANGED <<file, call, cnf, heap>>

Counted ==
    /\ pc = "count"
    /\ read >= msi.numClauses
    /\ msi' = [msi EXCEPT !.sNum = msi.numClauses - msi.hNum]
    /\ pc' = "call"
    /\ UNCHANGED <<file, call, rest, bad, read, cnf, heap>>
-----------------------------------------------------------------------------
(***************************************************************************)
(* ubcsat::main, as far as ReadCNF and the allocator are concerned.        *)
(***************************************************************************)

(* The names of algorithms and parameters, before ReadCNF.                 *)
NamesSize == 5

(* A request that takes the last of the heaps is the end of the program.   *)
Goto(stage, h) == pc' = IF OutOfHeaps(h) THEN "exited" ELSE stage

(* ReadCNF knows "p cnf" and "p wcnf"; for any other header, and for a     *)
(* file of no clause, it goes on looking behind the end of the file.       *)
HeaderFound == file.format # "wpmcnf" /\ Clauses(file) # <<>>

StartCall ==
    /\ pc = "call"
    /\ HeaderFound
    /\ call' = call + 1
    /\ rest' = Text(Given(file))
    /\ read' = 0
    /\ cnf' = [cnf EXCEPT !.numClause = Len(Clauses(file)), !.at = <<>>, !.len = <<>>,
                          !.weight = <<>>, !.numLit = 0, !.chunks = <<>>, !.dummy = 0]
    /\ LET n     == Len(Clauses(file))
           first == AllocateRAM(AllocateRAM(AllocateRAM(NoHeap, NamesSize), 4 * n), 8 * n)
       IN  heap' = IF Weighted(file) THEN AllocateRAM(first, 8 * n) ELSE first
    /\ Goto("readcnf", heap')
    /\ UNCHANGED <<file, bad, msi>>

HeaderNotFound ==
    /\ pc = "call"
    /\ ~HeaderFound
    /\ call' = call + 1
    /\ pc' = "hung"
    /\ UNCHANGED <<file, rest, bad, read, msi, cnf, heap>>

SoFar(t) == IF t.len = 0 THEN <<>> ELSE SubSeq(t.chunks[t.at[1]], t.at[2] + 1, t.at[2] + t.len)

(* Mutant: the literals of the clause so far stay in the old chunk.        *)
StoreNotCopying(t, l) ==
    LET full == t.chunks = <<>> \/ Len(Last(t.chunks)) = ChunkLits
        u == IF full THEN [t EXCEPT !.chunks = Append(@, <<>>),
                                    !.at     = <<Len(t.chunks) + 1, 0>>,
                                    !.heap   = AllocateRAM(@, 4 * ChunkLits)]
             ELSE t
    IN  [u EXCEPT !.chunks[Len(u.chunks)] = Append(@, l), !.len = @ + 1]

(* *pNextLit++ = l: a full chunk is followed by a new one, into which the  *)
(* clause so far is copied.                                                *)
Store(t, l) ==
    LET full == t.chunks = <<>> \/ Len(Last(t.chunks)) = ChunkLits
        u == IF full THEN [t EXCEPT !.chunks = Append(@, SoFar(t)),
                                    !.at     = <<Len(t.chunks) + 1, 0>>,
                                    !.heap   = AllocateRAM(@, 4 * ChunkLits)]
             ELSE t
    IN  [u EXCEPT !.chunks[Len(u.chunks)] = Append(@, l), !.len = @ + 1]

(* A clause longer than a chunk is written past the end of its second one. *)
(* What the program does then, if it survives, is not followed.            *)
OverEnd(chunks) == chunks # <<>> /\ Len(Last(chunks)) > ChunkLits

NextLit == <<Len(cnf.chunks), IF cnf.chunks = <<>> THEN 0 ELSE Len(Last(cnf.chunks))>>

(* A turn of the loop over the clauses: a weight, if the file has them;    *)
(* one character, which may begin a comment; literals.  A weight that is   *)
(* not there leaves the last one in place, a missing literal ends the      *)
(* clause.                                                                 *)
ReadSearchClause ==
    /\ pc = "readcnf"
    /\ read < cnf.numClause
    /\ LET isWCNF == Given(file).format = "wcnf"
           next   == IF isWCNF THEN SkipBlanks(rest) ELSE rest
           given  == isWCNF /\ StartsWith(next, "number")
           dummy  == IF given THEN Head(next).num ELSE cnf.dummy
           behind == IF given THEN Tail(next) ELSE next
           r      == Literals(Bite(behind))
           t      == FoldLeft(Store, [chunks |-> cnf.chunks, at |-> NextLit, len |-> 0,
                                      heap |-> heap], r.lits)
       IN  /\ IF OverEnd(t.chunks) THEN pc' \in {"crashed", "undefined"}
              ELSE Goto("readcnf", t.heap)
           /\ IF StartsWith(behind, "c")
              THEN /\ rest' = AfterLine(behind)
                   /\ cnf' = [cnf EXCEPT !.dummy = dummy]
                   /\ UNCHANGED <<read, heap>>
              ELSE /\ rest' = r.rest
                   /\ cnf' = [cnf EXCEPT !.dummy = dummy, !.chunks = t.chunks,
                                 !.at = Append(@, t.at), !.len = Append(@, t.len),
                                 !.weight = IF Weighted(file) THEN Append(@, dummy) ELSE @,
                                 !.numLit = @ + t.len]
                   /\ heap' = t.heap
                   /\ read' = read + 1
    /\ UNCHANGED <<file, call, bad, msi>>

(* The unused end of the last chunk is given back, whether there is a      *)
(* chunk or not.                                                           *)
EndRead ==
    /\ pc = "readcnf"
    /\ read = cnf.numClause
    /\ LET size == 4 * NextLit[2]
       IN  heap' = IF cnf.chunks = <<>> THEN AdjustLastRAM(heap, size)
                   ELSE Trimmed(AdjustLastRAM(heap, size), size)
    /\ pc' = "create"
    /\ UNCHANGED <<file, call, rest, bad, read, msi, cnf>>

(* CreateStructure and CreateStateInfo: arrays over clauses and variables. *)
Create ==
    /\ pc = "create"
    /\ heap' = AllocateRAM(AllocateRAM(heap, 4 * cnf.numClause), 4 * (NumVars + 1))
    /\ Goto("search", heap')
    /\ UNCHANGED <<file, call, rest, bad, read, msi, cnf>>

(* Mutant: the second call is followed by another.                         *)
SearchAgain ==
    /\ pc = "search"
    /\ heap' = NoHeap
    /\ pc' = "call"
    /\ call' = 0
    /\ UNCHANGED <<file, rest, bad, read, msi, cnf>>

(* The runs, which module Ubcsat has, and CleanExit.                       *)
Search ==
    /\ pc = "search"
    /\ heap' = NoHeap
    /\ pc' = IF call < 2 THEN "call" ELSE "done"
    /\ UNCHANGED <<file, call, rest, bad, read, msi, cnf>>

Terminal == {"done", "exited", "crashed", "hung", "undefined"}

Ended == pc \in Terminal /\ UNCHANGED vars

Next ==
    \/ ReadClause \/ Counted
    \/ StartCall \/ HeaderNotFound \/ ReadSearchClause \/ EndRead \/ Create \/ Search
    \/ Ended

(* The program is not stopped from outside: WF_vars(Next), with its        *)
(* ENABLED, which is true before the end, written out.                     *)
Fairness == []<>(pc \in Terminal) \/ []<><<Next>>_vars

Spec == Init /\ [][Next]_vars /\ Fairness
-----------------------------------------------------------------------------
TypeOK ==
    /\ pc \in {"count", "call", "readcnf", "create", "search"} \cup Terminal
    /\ call \in 0..2
    /\ read \in 0..Len(Clauses(file))
    /\ msi.numClauses \in 0..Len(Clauses(file)) /\ msi.hNum \in 0..msi.numClauses
    /\ {msi.pos, msi.neg} \subseteq [1..NumVars -> Nat]
    /\ {msi.s, msi.h} \subseteq [Sizes -> Nat]
    /\ DOMAIN cnf.at = DOMAIN cnf.len
    /\ {cnf.numLit, cnf.dummy} \subseteq Nat
    /\ \A j \in DOMAIN heap.heaps :
          LET x == heap.heaps[j]
          IN  {x.free, x.bytesFree} \subseteq Nat /\ x.free + x.bytesFree = x.bytes

HasComment(f) == \E i \in DOMAIN f.lines : f.lines[i].kind = "comment"

(* What the constructor counts is what the file holds: of the clauses that *)
(* have no literal together with its negation, their number, the number of *)
(* each size, counting a literal once, and for each variable the clauses   *)
(* it is in.  No clause of a cnf file is hard; in a pmcnf file without a   *)
(* soft section none is soft, and HardCounted is about those with one.     *)
(* (A weighted instance has its weights counted as literals.)              *)
Tautological(lits) == \E l \in ToSet(lits) : 0 - l \in ToSet(lits)

Kept(f) == {i \in DOMAIN Clauses(f) : ~Tautological(Clauses(f)[i].lits)}

TwoSections(f) == \E i \in 1..(Len(f.lines) - 1) : IsSection(f.lines[i]) /\ IsSection(f.lines[i + 1])

HasSoft(f) == \E i \in DOMAIN f.lines : f.lines[i].kind = "soft"

CountsTrue ==
    pc \notin {"count", "crashed"} /\ file.format \in {"cnf", "pmcnf"}
    /\ ~HasComment(file) /\ ~TwoSections(file) =>
        LET members(i) == ToSet(Clauses(file)[i].lits)
            sized(n)   == Cardinality({i \in Kept(file) : Cardinality(members(i)) = n})
        IN  /\ msi.numClauses = Cardinality(Kept(file))
            /\ \A v \in 1..NumVars :
                  /\ msi.pos[v] = Cardinality({i \in Kept(file) : v \in members(i)})
                  /\ msi.neg[v] = Cardinality({i \in Kept(file) : 0 - v \in members(i)})
            /\ \A n \in Sizes : msi.h[n] + msi.s[n] = sized(n)
            /\ file.format = "cnf" => msi.h = NoSizes /\ msi.hNum = 0
            /\ file.format = "pmcnf" /\ ~HasSoft(file) => msi.s = NoSizes /\ msi.sNum = 0

(* MaxSatInstance.cc 83-86 end the hard clauses at the section "soft", and *)
(* 226 prints the "Number of Hard Clauses: ": of a partial instance with   *)
(* its hard section first it is the number of the clauses kept of that     *)
(* section.  (Line 81 reads the "p" of the section line, which 82-83 then  *)
(* compare with "hard" and "soft".)                                        *)
HardCounted ==
    pc \notin {"count", "crashed"} /\ file.format = "pmcnf"
    /\ ~HasComment(file) /\ ~TwoSections(file) =>
        LET hard == ClausesWhere(file, FALSE)
        IN  msi.hNum = Cardinality({i \in DOMAIN hard : ~Tautological(hard[i])})

(* What ReadCNF has of a clause, through chunks and copies, is what it was *)
(* given.  The first clause of a cnf file is an exception unless it begins *)
(* with a space, and every cnf file is that has a comment in it, or has an *)
(* empty clause in its first column.                                       *)
Expected(j) == Clauses(Given(file))[j].lits
Got(j) == [k \in 1..cnf.len[j] |->
               LET chunk == cnf.chunks[cnf.at[j][1]]
                   place == cnf.at[j][2] + k
               IN  IF place \in DOMAIN chunk THEN chunk[place] ELSE 0]

SearchReads ==
    pc \in {"create", "search"} /\ (file.format = "cnf" => ~HasComment(file)) =>
        LET first == Clauses(file)[1]
        IN  \A j \in 1..cnf.numClause :
                \/ file.format # "cnf" \/ first.blank
                \/ j > 1 /\ first.lits # <<>>
                => Got(j) = Expected(j)

(* In the formula that is searched for a partial instance a hard clause    *)
(* costs more than all soft clauses, and these cost the same.              *)
HardOutweighs ==
    pc = "create" /\ file.format = "pmcnf" =>
        LET soft == Len(ClausesWhere(file, TRUE))
        IN  \A j \in 1..cnf.numClause :
                IF j <= soft THEN cnf.weight[j] = cnf.weight[1]
                ELSE cnf.weight[j] > FoldLeft(LAMBDA a, k : a + cnf.weight[k], 0,
                                              [k \in 1..soft |-> k])

(* As long as a literal was read, whatever ubcsat keeps in its heaps is    *)
(* kept apart, through the chunks and the end of the last one, which is    *)
(* given back; and no clause that fits a chunk runs over its end.          *)
HeapSound ==
    /\ TypeOK
    /\ cnf.numLit > 0 => BlocksKept(heap)
    /\ \/ \A c \in DOMAIN cnf.chunks : Len(cnf.chunks[c]) <= ChunkLits
       \/ \E i \in DOMAIN file.lines : Len(file.lines[i].lits) > ChunkLits

(* The program ends, unless ReadCNF looks for its header for ever.         *)
Ends == <>(pc \in Terminal \ {"hung"}) \/ (~HeaderFound /\ <>(pc = "hung"))

(* ubcsat-cnf.cc 42, "Currently supports .cnf and .wcnf files": ReadCNF    *)
(* has the clauses of a cnf file, the first included.                      *)
SearchReadsFile ==
    pc = "create" /\ file.format = "cnf" /\ ~HasComment(file) =>
        \A j \in 1..cnf.numClause : Got(j) = Expected(j)

=============================================================================
