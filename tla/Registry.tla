------------------------------ MODULE Registry ------------------------------
(***************************************************************************)
(* The function registry of ubcsat (src/ubcsat/ubcsat-alg.cc) and the      *)
(* dispatch of main (src/ubcsat/ubcsat.cc).  Functions are registered      *)
(* under names, each with the phase it runs in and the names of those it   *)
(* needs; an algorithm, a parameter, a report, a column and a statistic    *)
(* each name functions to activate.  Activating one appends it to the list *)
(* of its phase, behind those it names; main runs the lists phase after    *)
(* phase, and columns and statistics are activated while it does.          *)
(*                                                                         *)
(* Nothing in the code says what a function reads and writes: here the     *)
(* table says it, so that the order that follows from the names can be     *)
(* checked.  What is written is named after the function that allocates it *)
(* ("CreateFalseInfo"), or for what it holds ("falses").  What depends on  *)
(* the assignment is lost when that changes; what is repaired after every  *)
(* step falls behind at a flip.  A session is a sequence of calls of main  *)
(* in one process.  Functions nobody names are left out.                   *)
(***************************************************************************)
EXTENDS SearchState, TLC

CONSTANT Sessions  \* sequences of calls: what is asked for in each

VARIABLES
    calls,    \* the calls of main to come, the current one first
    pc,       \* the phase that runs, or "parameters", "exit", "aborted"
    at,       \* iFunctionLoop
    active,   \* aFxns, the functions of each phase in their order, and the
              \* active columns and statistics
    fresh,    \* what is valid now
    behind,   \* what was valid before the last flip
    done,     \* the functions that have run in this call
    iRun, iStep

vars == <<algorithm, calls, pc, at, active, fresh, behind, done, iRun, iStep>>

call == Head(calls)

(***************************************************************************)
(* The phases (FXNTYPE).                                                   *)
(***************************************************************************)
Setup    == <<"PostParameters", "HeaderInfo", "ReadInFile", "CreateStructure",
              "CreateStateInfo", "Start">>
RunStart == <<"PreRun", "InitData", "InitStateInfo", "PostInit">>
StepLoop == <<"StartStep", "ChooseCandidate", "PreFlip", "FlipCandidate", "PostFlip",
              "CheckTerminate">>
Finish   == <<"RunCalculations", "PostRun", "FinalCalculations", "FinalReports">>
Phases   == Setup \o RunStart \o StepLoop \o Finish

(***************************************************************************)
(* The table of functions: what AddFunction is told, what the function     *)
(* reads (needs), what it brings from the last step to this one (follows), *)
(* and what is valid after it (gives).                                     *)
(***************************************************************************)
Fxn(type, deps, needs, gives) ==
    [type |-> type, deps |-> deps, needs |-> needs, follows |-> {}, gives |-> gives]

Creates(name, deps) == name :> Fxn("CreateStateInfo", deps, {"ReadCNF"}, {name})

Inits(name, deps, needs, gives) ==
    name :> Fxn("InitStateInfo", deps, needs \cup {Head(deps)}, {gives})

Picks(name, deps, needs) == name :> Fxn("ChooseCandidate", deps, needs, {"choice"})

(* A flip repairs the counts of true literals and some state of its own.   *)
Flips(name, deps, own) ==
    name :> Fxn("FlipCandidate", deps,
                {"choice", "LitOccurence", "values", "numTrue"} \cup own,
                {"values", "numTrue"} \cup own)

Follows(name, type, deps, needs, what) ==
    name :> [Fxn(type, deps, needs, {what}) EXCEPT !.follows = {what}]

(* ubcsat-defaults.cc                                                      *)
Defaults ==
    "ReadCNF" :> Fxn("ReadInFile", <<>>, {}, {"ReadCNF"})
 @@ "LitOccurence" :> Fxn("CreateStructure", <<>>, {"ReadCNF"}, {"LitOccurence"})
 @@ Creates("CreateMinimalStateInfo", <<>>)
 @@ "MinimalStateInfo" :> Fxn("InitStateInfo", <<"CreateMinimalStateInfo">>,
        {"CreateMinimalStateInfo", "LitOccurence", "values"}, {"numTrue"})
 @@ Creates("CandidateInfo", <<>>)
 @@ "InitVarFile" :> Fxn("CreateStateInfo", <<"MinimalStateInfo">>,
        {"CreateMinimalStateInfo"}, {"varInit"})
 @@ "InitVars" :> Fxn("InitData", <<"MinimalStateInfo">>,
        {"CreateMinimalStateInfo", "varInit", "CandidateInfo"}, {"values"})
 @@ "CheckTermination" :> Fxn("CheckTerminate", <<>>, {"numTrue"}, {"found"})
 @@ "CheckTerminationW" :> [Fxn("CheckTerminate", <<>>, {"numTrue", "LitOccurence", "choice"},
        {"falseWeight", "found"}) EXCEPT !.follows = {"falseWeight"}]
 @@ "MinimalStateInfoW" :> Fxn("InitStateInfo", <<"MinimalStateInfo">>, {"numTrue"},
                               {"falseWeight"})
 @@ Flips("FlipFalseInfo", <<"FalseInfo">>, {"falses"})
 @@ Creates("CreateFalseInfo", <<>>)
 @@ Inits("FalseInfo", <<"CreateFalseInfo">>, {"numTrue"}, "falses")
 @@ Creates("CreateMakeBreak", <<>>)
 @@ Inits("MakeBreak", <<"CreateMakeBreak">>, {"numTrue", "values"}, "counts")
 @@ Creates("CreateVarScore", <<>>)
 @@ Inits("VarScore", <<"CreateVarScore">>, {"numTrue", "values"}, "score")
 @@ Flips("FlipVarScore", <<"VarScore", "FalseInfo">>, {"falses", "score"})
 @@ Creates("CreateVarInFalseClause", <<>>)
 @@ Inits("VarInFalseClause", <<"CreateVarInFalseClause">>, {"counts"}, "vars")
 @@ Flips("FlipMakeBreakVarInFalse", <<"VarInFalseClause", "FalseInfo">>,
          {"falses", "counts", "vars"})
 @@ Creates("CreateVarLastChange", <<>>)
 @@ Inits("InitVarLastChange", <<"CreateVarLastChange">>, {}, "ages")
 @@ Follows("VarLastChange", "PostFlip", <<"InitVarLastChange">>, {"choice"}, "ages")
 @@ "InitNullFlips" :> Fxn("PreRun", <<>>, {}, {"nullFlips"})
 @@ Follows("NullFlips", "PostFlip", <<"InitNullFlips">>, {"choice"}, "nullFlips")

(* The algorithms.                                                         *)
Algorithmic ==
    Picks("PickGSAT", <<"VarScore", "CandidateInfo">>, {"score", "CandidateInfo"})
 @@ Picks("PickGWSAT", <<"MakeBreak", "CandidateInfo", "VarInFalseClause">>,
          {"counts", "CandidateInfo", "vars"})
 @@ Picks("PickGSATTABU", <<"VarScore", "CandidateInfo", "VarLastChange">>,
          {"score", "CandidateInfo", "ages"})
 @@ Picks("PickHSAT", <<"VarScore", "VarLastChange">>, {"score", "CandidateInfo", "ages"})
 @@ Picks("PickHWSAT", <<"VarScore", "VarLastChange">>,
          {"score", "CandidateInfo", "ages", "falses"})
 @@ Picks("PickWALKSATSKG", <<"FalseInfo">>,
          {"falses", "CandidateInfo", "numTrue", "LitOccurence"})
 @@ Picks("PickWALKSATTABU", <<"FalseInfo", "VarLastChange">>,
          {"falses", "CandidateInfo", "numTrue", "LitOccurence", "ages"})
 @@ [pick \in {"PickNOVELTY", "PickNOVELTYPLUS", "PickRNOVELTY", "PickRNOVELTYPLUS"} |->
        Fxn("ChooseCandidate", <<"FalseInfo", "VarLastChange">>,
            {"falses", "numTrue", "LitOccurence", "ages"}, {"choice"})]
 @@ Creates("CreateClausePenalty", <<"CreateMakeBreak">>)
 @@ Inits("ClausePenalty", <<"CreateClausePenalty", "MakeBreak">>, {"counts"}, "penalties")
 @@ Picks("PickSAPS", <<"ClausePenalty", "FalseInfo", "MakeBreak", "VarInFalseClause",
                        "CandidateInfo">>, {"penalties", "vars", "CandidateInfo"})
 @@ Flips("FlipSAPS", <<"ClausePenalty", "FalseInfo", "MakeBreak", "VarInFalseClause">>,
          {"falses", "counts", "vars", "penalties"})
 @@ "PostFlipSAPS" :> Fxn("PostFlip", <<>>,
        {"choice", "penalties", "counts", "numTrue", "falses"}, {"penalties"})
 @@ Picks("PickGWSATW", <<"MakeBreak", "MakeBreakW", "CandidateInfo", "VarInFalseClause">>,
          {"countsW", "CandidateInfo", "vars"})
 @@ Creates("CreateMakeBreakW", <<>>)
 @@ Inits("MakeBreakW", <<"CreateMakeBreakW">>, {"numTrue", "values"}, "countsW")
 @@ Flips("FlipMakeBreakVarInFalseW", <<"VarInFalseClause", "FalseInfo">>,
          {"falses", "counts", "countsW", "vars"})
 @@ Flips("FlipMakeBreakW", <<"MakeBreakW", "FalseInfo">>, {"falses", "countsW"})
 @@ Picks("PickGSATW", <<"MakeBreakW", "CandidateInfo">>, {"countsW", "CandidateInfo"})
 @@ [pick \in {"PickNOVELTYWCSWE", "PickNOVELTYPLUSWCSWE"} |->
        Fxn("ChooseCandidate", <<"FalseInfo", "VarLastChange">>,
            {"falses", "countsW", "ages"}, {"choice"})]

(* reports.cc.  What a report prints of the formula or of settings is left *)
(* out.                                                                    *)
Reporting ==
    "SetupOutput" :> Fxn("CreateStructure", <<>>, {}, {})
 @@ "SetupStats"  :> Fxn("CreateStructure", <<"UpdateColumnsRow">>, {}, {})
 @@ "SetupRTD"    :> Fxn("CreateStructure", <<"UpdateColumnsRow">>, {}, {})
 @@ "PrintSplash" :> Fxn("HeaderInfo", <<>>, {}, {})
 @@ [print \in {"PrintAlgSettings", "PrintHeadersOut"} |-> Fxn("Start", <<>>, {}, {})]
 @@ "PrintStats" :> Fxn("FinalReports", <<"SetupStats", "SortByStepPerformance">>, {"sorted"}, {})
 @@ "SatzillaPrintStats" :> Fxn("FinalReports", <<"SetupStats", "SortByStepPerformance">>,
                                {"sorted"}, {})
 @@ "PrintHeadersRTD" :> Fxn("FinalReports", <<>>, {}, {})
 @@ "PrintRTD" :> Fxn("FinalReports", <<"SetupRTD", "PrintHeadersRTD">>, {"sorted"}, {})
 @@ "UpdateColumnsRow" :> Fxn("PostRun", <<>>, {}, {"row"})
 @@ "PrintCurRow" :> Fxn("PostRun", <<"UpdateColumnsRow">>, {"row"}, {})
 @@ "InitBestFalse" :> Fxn("PreRun", <<>>, {"ReadCNF"}, {"best"})
 @@ Follows("BestFalse", "PostFlip", <<"InitBestFalse">>, {"numTrue"}, "best")
 @@ "SortByStepPerformance" :> Fxn("FinalCalculations", <<>>, {}, {"sorted"})
 @@ "UpdatePercents" :> Fxn("FinalCalculations", <<"SortByStepPerformance">>, {"sorted"},
                            {"percents"})
 @@ "UpdateTimes" :> Fxn("FinalCalculations", <<"SortByStepPerformance">>, {}, {"times"})
 @@ "CalcPercentSolve" :> Fxn("FinalCalculations", <<>>, {}, {"percentSolve"})
 @@ "CalcFPS" :> Fxn("FinalCalculations", <<>>, {}, {"fps"})
 @@ "TraceSolution" :> Fxn("PostRun", <<>>, {"found", "values"}, {})
 @@ Creates("CreateFlipCounts", <<>>)
 @@ Inits("InitFlipCounts", <<"CreateFlipCounts">>, {}, "flipCounts")
 @@ Follows("FlipCounts", "PostFlip", <<"InitFlipCounts", "CreateFlipCounts">>, {"choice"},
            "flipCounts")
 @@ "TraceFlipCounts" :> Fxn("PostRun", <<"FlipCounts">>, {"flipCounts"}, {})
 @@ Creates("CreateClauseLast", <<>>)
 @@ Inits("InitClauseLast", <<"CreateClauseLast">>, {}, "clauseLast")
 @@ Follows("ClauseLast", "PostFlip", <<"InitClauseLast", "CreateClauseLast">>, {"numTrue"},
            "clauseLast")
 @@ "TraceClauseLast" :> Fxn("PostRun", <<"ClauseLast">>, {"clauseLast"}, {})
 @@ "TraceVarLast" :> Fxn("PostRun", <<"VarLastChange">>, {"ages"}, {})
 @@ "TraceState" :> Fxn("PostFlip", <<>>, {"numTrue", "choice", "LitOccurence", "values"}, {})
 @@ "SolveMode" :> Fxn("Start", <<"PrintSATCompetition">>, {}, {})
 @@ [print \in {"PrintSolutionModel", "PrintSATCompetition"} |->
        Fxn("FinalReports", <<>>, {"found", "values"}, {})]
 @@ "NoImprove" :> Fxn("CheckTerminate", <<"BestFalse">>, {"best"}, {})
 @@ "TraceOptClauses" :> Fxn("PostRun", <<>>, {"found", "numTrue"}, {})
 @@ "StartSeed" :> Fxn("PreRun", <<>>, {}, {"seed"})
 @@ "PercentNullFlips" :> Fxn("RunCalculations", <<"NullFlips">>, {"nullFlips"}, {"percentNull"})
 @@ "SetupCountRandom" :> Fxn("Start", <<>>, {}, {"counter"})
 @@ "InitCountRandom" :> Fxn("PreRun", <<>>, {"counter"}, {"randomCalls"})
 @@ "StartFalse" :> Fxn("PostInit", <<>>, {"numTrue"}, {"startFalse"})
 @@ "CalcImproveMean" :> Fxn("RunCalculations", <<"StartFalse", "BestFalse">>,
                             {"startFalse", "best"}, {"improve"})
 @@ Creates("CreateBestTrack", <<>>)
 @@ Inits("InitBestTrack", <<"CreateBestTrack">>, {}, "track")
 @@ Follows("UpdateBestTrack", "PostFlip", <<"BestFalse", "CreateBestTrack", "InitBestTrack">>,
            {"best", "numTrue"}, "track")
 @@ "FinalBestTrack" :> Fxn("RunCalculations",
        <<"UpdateBestTrack", "BestFalse", "CreateBestTrack", "InitBestTrack">>,
        {"track", "best", "startFalse"}, {"trackStats"})

Functions == Defaults @@ Algorithmic @@ Reporting

(* CreateCompoundFunction                                                  *)
Compounds ==
    "Defaults" :> <<"ReadCNF", "InitVarFile", "LitOccurence", "MinimalStateInfo",
                    "CandidateInfo", "InitVars", "CheckTermination">>
 @@ "DefaultsW" :> <<"ReadCNF", "InitVarFile", "LitOccurence", "MinimalStateInfoW",
                     "CandidateInfo", "InitVars", "CheckTerminationW">>
 @@ "CountRandom" :> <<"SetupCountRandom", "InitCountRandom">>
 @@ "BestTrack" :> <<"FinalBestTrack", "UpdateBestTrack", "BestFalse", "CreateBestTrack",
                     "InitBestTrack">>

(* What an algorithm names (AddAlg).                                       *)
AlgFunctions(a) ==
    CASE a = "gsat"         -> <<"Defaults", "PickGSAT", "FlipVarScore">>
      [] a = "gsat-tabu"    -> <<"Defaults", "PickGSATTABU", "FlipVarScore">>
      [] a = "hsat"         -> <<"Defaults", "PickHSAT", "FlipVarScore">>
      [] a = "hwsat"        -> <<"Defaults", "PickHWSAT", "FlipVarScore">>
      [] a = "gwsat"        -> <<"Defaults", "PickGWSAT", "FlipMakeBreakVarInFalse">>
      [] a = "walksat"      -> <<"Defaults", "PickWALKSATSKG", "FlipFalseInfo">>
      [] a = "walksat-tabu" -> <<"Defaults", "PickWALKSATTABU", "FlipFalseInfo">>
      [] a = "novelty"      -> <<"Defaults", "PickNOVELTY", "FlipFalseInfo">>
      [] a = "novelty+"     -> <<"Defaults", "PickNOVELTYPLUS", "FlipFalseInfo">>
      [] a = "rnovelty"     -> <<"Defaults", "PickRNOVELTY", "FlipFalseInfo">>
      [] a = "rnovelty+"    -> <<"Defaults", "PickRNOVELTYPLUS", "FlipFalseInfo">>
      [] a = "saps"         -> <<"Defaults", "PickSAPS", "FlipSAPS", "PostFlipSAPS">>
      [] a = "gsat-w"       -> <<"DefaultsW", "PickGSATW", "FlipMakeBreakW">>
      [] a = "gwsat-w"      -> <<"DefaultsW", "PickGWSATW", "FlipMakeBreakVarInFalseW">>
      [] a = "novelty-w"    -> <<"DefaultsW", "PickNOVELTYW", "FlipMakeBreakW">>
      [] a = "novelty+-w"   -> <<"Defaults", "PickNOVELTYPLUSWCSWE", "FlipMakeBreakW">>

(* What a parameter names (AddParameters).                                 *)
ParmFunctions ==
    "-noimprove" :> <<"NoImprove">> @@ "-timeout" :> <<"CheckTermination">>
 @@ "-solve" :> <<"SolveMode">> @@ "-satzilla" :> <<"SolveMode">>
 @@ "-varinitflip" :> <<"CandidateInfo">>

(* What a report names.  The first three are in the order of AddReport;    *)
(* "out" and "satzilla" are active whatever the call says.                 *)
ReportFunctions ==
    "out" :> <<"SetupOutput", "PrintSplash", "PrintAlgSettings", "PrintHeadersOut",
               "PrintCurRow">>
 @@ "stats" :> <<"PrintStats">> @@ "satzilla" :> <<"SatzillaPrintStats">>
 @@ "rtd" :> <<"PrintRTD">> @@ "model" :> <<"PrintSolutionModel">>
 @@ "state" :> <<"TraceState">> @@ "solution" :> <<"TraceSolution">>
 @@ "unsatclauses" :> <<"TraceOptClauses">> @@ "flipcount" :> <<"TraceFlipCounts">>
 @@ "varlastflip" :> <<"TraceVarLast">> @@ "clauselast" :> <<"TraceClauseLast">>
 @@ "satcomp" :> <<"PrintSATCompetition">>

ReportOrder == <<"out", "stats", "satzilla", "rtd", "model", "state", "solution",
                 "unsatclauses", "flipcount", "varlastflip", "clauselast", "satcomp">>

(***************************************************************************)
(* The columns: the functions each names, and what its value is; a column  *)
(* whose value the dispatch loop itself keeps is valid at any time.        *)
(***************************************************************************)
Column(fxns, shows) == [fxns |-> fxns, shows |-> shows]

Columns ==
    [c \in {"run", "steps"} |-> Column(<<>>, {})]
 @@ "found" :> Column(<<>>, {"found"}) @@ "endfalse" :> Column(<<>>, {"numTrue"})
 @@ [c \in {"best", "beststep"} |-> Column(<<"BestFalse">>, {"best"})]
 @@ "seed" :> Column(<<"StartSeed">>, {"seed"})
 @@ "nullflips" :> Column(<<"NullFlips">>, {"nullFlips"})
 @@ "percentnull" :> Column(<<"NullFlips", "PercentNullFlips">>, {"percentNull"})
 @@ "rand" :> Column(<<"CountRandom">>, {"randomCalls"})
 @@ "prob" :> Column(<<"UpdatePercents">>, {}) @@ "time" :> Column(<<"UpdateTimes">>, {})
 @@ "startfalse" :> Column(<<"StartFalse">>, {"startFalse"})
 @@ "avgimpr" :> Column(<<"CalcImproveMean">>, {"improve"})
 @@ [c \in {"firstlm", "bestcount"} |-> Column(<<"BestTrack">>, {"track"})]
 @@ [c \in {"bestmean", "bestcv", "firstlmratio"} |-> Column(<<"BestTrack">>, {"trackStats"})]

(* A statistic needs the column of its name, or is one of these.           *)
StatFunctions == "percentsolve" :> <<"CalcPercentSolve">> @@ "fps" :> <<"CalcFPS">>
NoColumn      == {"totaltime", "numvars", "numclause", "numlits", "percentsolve", "fps"}

DefaultStats    == <<"totaltime", "fps", "percentsolve", "steps", "time", "numvars",
                     "numclause", "numlits">>
DefaultSatzilla == <<"best", "beststep", "avgimpr", "firstlmratio", "bestcv", "totaltime">>
DefaultOut      == <<"run", "found", "best", "beststep", "steps">>
DefaultRTD      == <<"prob", "steps", "time">>

(***************************************************************************)
(* Activation.                                                             *)
(***************************************************************************)
NothingActive == [fxns |-> [p \in ToSet(Phases) |-> <<>>], columns |-> {}, stats |-> {}]

(* Mutant: a function comes before those it names.                         *)
RECURSIVE ActivateAhead(_, _)
ActivateAhead(fxns, names) ==
    IF names = <<>> THEN fxns
    ELSE LET name  == Head(names)
             inner == IF name \in DOMAIN Compounds THEN Compounds[name]
                      ELSE Functions[name].deps
             added == IF name \in DOMAIN Compounds THEN fxns
                      ELSE [fxns EXCEPT ![Functions[name].type] =
                               IF Contains(@, name) THEN @ ELSE Append(@, name)]
         IN  ActivateAhead(ActivateAhead(added, inner), Tail(names))

(* ParseItemList with ActivateFunction.                                    *)
RECURSIVE Activate(_, _)
Activate(fxns, names) ==
    IF names = <<>> THEN fxns
    ELSE LET name   == Head(names)
             inner  == IF name \in DOMAIN Compounds THEN Compounds[name]
                       ELSE Functions[name].deps
             served == Activate(fxns, inner)
             added  == IF name \in DOMAIN Compounds THEN served
                       ELSE [served EXCEPT ![Functions[name].type] =
                                IF Contains(@, name) THEN @ ELSE Append(@, name)]
         IN  Activate(added, Tail(names))

ActivateAll(a, names) == [a EXCEPT !.fxns = Activate(@, names)]

ActivateColumn(a, c) ==
    IF c \in a.columns THEN a
    ELSE ActivateAll([a EXCEPT !.columns = @ \cup {c}], Columns[c].fxns)

ActivateStat(a, s) ==
    IF s \in a.stats THEN a
    ELSE LET counted == [a EXCEPT !.stats = @ \cup {s}]
             based   == IF s \in NoColumn THEN counted ELSE ActivateColumn(counted, s)
         IN  ActivateAll(based, IF s \in DOMAIN StatFunctions THEN StatFunctions[s] ELSE <<>>)

(* What the functions that set up the reports activate, while main runs    *)
(* the list they are in.                                                   *)
SetUp(a, name) ==
    CASE name = "SetupOutput" -> FoldLeft(ActivateColumn, a, call.out)
      [] name = "SetupRTD"    -> FoldLeft(ActivateColumn, a, DefaultRTD)
      [] name = "SetupStats"  ->
            FoldLeft(ActivateStat, a, (IF "stats" \in call.reports THEN DefaultStats ELSE <<>>)
                                      \o call.satzilla)
      [] OTHER -> a

(* All names of a call: parameters are parsed in the order of the command  *)
(* line, then come ActivateAlg and SetupReports.                           *)
AskedFor ==
    LET IsActive(r) == r \in call.reports \cup {"out", "satzilla"}
        reports     == SelectSeq(ReportOrder, IsActive)
    IN  FlattenSeq([i \in DOMAIN call.parms |-> ParmFunctions[call.parms[i]]])
        \o AlgFunctions(call.algorithm)
        \o FlattenSeq([i \in DOMAIN reports |-> ReportFunctions[reports[i]]])

-----------------------------------------------------------------------------
(***************************************************************************)
(* What becomes of what is valid.                                          *)
(***************************************************************************)
OfAssignment == {"numTrue", "falses", "counts", "countsW", "score", "vars", "penalties",
                 "falseWeight"}
OfStep       == {"falseWeight", "ages", "best", "track", "nullFlips", "found", "flipCounts",
                 "clauseLast"}
OfRun        == {"startFalse", "seed", "randomCalls", "improve", "trackStats", "percentNull",
                 "row"}

IsFlip(name) == Functions[name].type = "FlipCandidate"

Lost(name) ==
    (IF name = "InitVars" \/ IsFlip(name) THEN OfAssignment ELSE {})
    \cup (IF IsFlip(name) THEN OfStep ELSE {})

(* What is printed of columns and statistics.                              *)
Totals == "prob" :> "percents" @@ "time" :> "times" @@ "percentsolve" :> "percentSolve"
          @@ "fps" :> "fps"

Printed(name) ==
    CASE name = "UpdateColumnsRow" -> UNION {Columns[c].shows : c \in active.columns}
      [] name \in {"PrintRTD", "PrintStats", "SatzillaPrintStats"} ->
            {Totals[x] : x \in DOMAIN Totals \cap (active.columns \cup active.stats)}
      [] OTHER -> {}

(* What a function reads and nobody has written since it was lost.         *)
Lacking(name) ==
    ((Functions[name].needs \cup Printed(name)) \ fresh)
    \cup (Functions[name].follows \ behind)
    \cup (IF name \in {"SortByStepPerformance", "UpdateTimes", "CalcFPS"}
          THEN {"steps"} \ active.columns ELSE {})

-----------------------------------------------------------------------------
(***************************************************************************)
(* main                                                                    *)
(***************************************************************************)
Init ==
    /\ calls \in Sessions
    /\ algorithm = call.algorithm
    /\ pc = "parameters" /\ at = 1
    /\ active = NothingActive
    /\ fresh = {} /\ behind = {} /\ done = {}
    /\ iRun = 0 /\ iStep = 0

(* The command line is read, and the algorithm and the reports activated.  *)
Configure ==
    /\ pc = "parameters"
    /\ ToSet(AskedFor) \subseteq DOMAIN Functions \cup DOMAIN Compounds
    /\ active' = ActivateAll(NothingActive, AskedFor)
    /\ pc' = Head(Phases)
    /\ UNCHANGED <<algorithm, calls, at, fresh, behind, done, iRun, iStep>>

(* FindItem does not know the name: AbnormalExit.                          *)
Unknown ==
    /\ pc = "parameters"
    /\ ~ (ToSet(AskedFor) \subseteq DOMAIN Functions \cup DOMAIN Compounds)
    /\ pc' = "aborted"
    /\ UNCHANGED <<algorithm, calls, at, active, fresh, behind, done, iRun, iStep>>

Running == pc \in ToSet(Phases) /\ at <= Len(active.fxns[pc])
current == active.fxns[pc][at]

(* One turn of RUNFXNS.                                                    *)
RunFunction ==
    /\ Running
    /\ active' = SetUp(active, current)
    /\ fresh'  = (fresh \ Lost(current)) \cup Functions[current].gives
    /\ behind' = IF IsFlip(current) THEN fresh \cap OfStep ELSE behind
    /\ done'   = done \cup {current}
    /\ at'     = at + 1
    /\ UNCHANGED <<algorithm, calls, pc, iRun, iStep>>

(* The list of a phase is through, and main goes on to another.            *)
Leaves(P) == pc \in P /\ at > Len(active.fxns[pc]) /\ at' = 1

NextPhase ==
    /\ Leaves(ToSet(Phases)
              \ {"Start", "PostInit", "CheckTerminate", "PostRun", "FinalReports"})
    /\ pc' = IF pc = "InitStateInfo" /\ iStep > 0 THEN "StartStep"
             ELSE Phases[CHOOSE i \in DOMAIN Phases : i > 1 /\ Phases[i - 1] = pc]
    /\ UNCHANGED <<algorithm, calls, active, fresh, behind, done, iRun, iStep>>

StartRun ==
    /\ Leaves({"Start", "PostRun"})
    /\ iRun' = IF pc = "Start" THEN 0 ELSE iRun + 1
    /\ iRun' < call.runs
    /\ pc' = "PreRun"
    /\ iStep' = 0
    /\ fresh' = fresh \ (OfAssignment \cup OfStep \cup OfRun)
    /\ UNCHANGED <<algorithm, calls, active, behind, done>>

StartStep ==
    /\ Leaves({"PostInit", "CheckTerminate"})
    /\ iStep < call.cutoff
    /\ iStep' = iStep + 1
    /\ pc' = IF call.restart > 0 /\ iStep' % call.restart = 0 THEN "InitData"
             ELSE "StartStep"
    /\ fresh' = (fresh \ {"choice"}) \cup {"found"}  \* bSolutionFound = 0
    /\ UNCHANGED <<algorithm, calls, active, behind, done, iRun>>

(* At the cutoff, or because a function of CheckTerminate or the time      *)
(* limit said so.                                                          *)
EndRun ==
    /\ Leaves({"PostInit", "CheckTerminate"})
    /\ pc = "PostInit" => call.cutoff = 0
    /\ pc' = "RunCalculations"
    /\ fresh' = fresh \cup {"found"}
    /\ UNCHANGED <<algorithm, calls, active, behind, done, iRun, iStep>>

(* All runs are done, or one of them ended all.                            *)
EndRuns ==
    /\ Leaves({"PostRun"})
    /\ iRun' = iRun + 1
    /\ pc' = "FinalCalculations"
    /\ UNCHANGED <<algorithm, calls, active, fresh, behind, done, iStep>>

(* CleanExit: the memory of the call is freed, but the lists stay.         *)
EndCall ==
    /\ Leaves({"FinalReports"})
    /\ calls' = Tail(calls)
    /\ pc' = IF calls' = <<>> THEN "exit" ELSE "parameters"
    /\ algorithm' = IF calls' = <<>> THEN algorithm ELSE calls'[1].algorithm
    /\ fresh' = {} /\ behind' = {} /\ done' = {}
    /\ iRun' = 0 /\ iStep' = 0
    /\ UNCHANGED active

Ended == pc \in {"exit", "aborted"} /\ UNCHANGED vars

Next == \/ Configure \/ Unknown \/ RunFunction \/ NextPhase \/ StartRun \/ StartStep
        \/ EndRun \/ EndRuns \/ EndCall \/ Ended

Spec == Init /\ [][Next]_vars

-----------------------------------------------------------------------------
(***************************************************************************)
(* Properties.                                                             *)
(***************************************************************************)
Activated(name) == name \in ToSet(active.fxns[Functions[name].type])

(* What names do not say: FinalBestTrack reads the false clauses at the    *)
(* start, which StartFalse notes for those who ask for it, and the column  *)
(* of the steps is read by its name, whether or not anybody activated it.  *)
Unnamed(name) ==
    CASE name = "FinalBestTrack" -> IF Activated("StartFalse") THEN {} ELSE {"startFalse"}
      [] name \in {"SortByStepPerformance", "UpdateTimes", "CalcFPS"} ->
            IF "steps" \in ToSet(call.out) \/ {"stats", "rtd"} \cap call.reports # {}
            THEN {} ELSE {"steps"}
      [] OTHER -> {}

ServedNow == Running => Lacking(current) = Unnamed(current)

NoneTooLate ==
    pc \in ToSet(Phases) =>
        LET Passed(q) == \E i \in DOMAIN Setup : Setup[i] = q /\ pc \notin ToSet(SubSeq(Setup, 1, i))
        IN  \A q \in ToSet(Setup) : Passed(q) => ToSet(active.fxns[q]) \subseteq done

(* The lists an algorithm gets are those of what it is said to keep.       *)
KeptAsSaid ==
    pc = "ChooseCandidate" =>
        /\ KeepsCrit = \E f \in {"MakeBreak", "MakeBreakW", "VarScore"} : Activated(f)
        /\ (Unit = 1) = \E f \in {"MakeBreak", "VarScore"} : Activated(f)
        /\ KeepsVars = Activated("VarInFalseClause")
        /\ KeepsCost = Activated("MinimalStateInfoW")
        /\ KeepsCost => Activated("CheckTermination") = ("-timeout" \in ToSet(call.parms))
        /\ KeepsChange => Activated("VarLastChange")
        /\ \A p \in {"ChooseCandidate", "FlipCandidate"} : Len(active.fxns[p]) = 1

(* In every call, whatever algorithm, parameters and reports it asks for   *)
(* and in whatever order they activate their functions, each function      *)
(* finds what it reads up to date, but for the two omissions above, no     *)
(* function is activated for a phase that has passed, no function is left  *)
(* from the call before, and only an algorithm that names an unregistered  *)
(* function aborts the program.                                            *)
FunctionsServed ==
    /\ ServedNow
    /\ NoneTooLate
    /\ KeptAsSaid
    /\ pc = "aborted" <=> pc # "parameters" /\ algorithm = "novelty-w"

=============================================================================
