----------------------------- MODULE MCRegistry -----------------------------
(* Every algorithm with the parameters and reports of the features         *)
(* program, with every report, and with other columns, statistics and      *)
(* orders; and the pairs of calls the features program makes.              *)
EXTENDS Registry

Named == Algorithms \cup {"novelty-w"}

Call(a, parms, reports, out, satzilla, runs, cutoff, restart) ==
    [algorithm |-> a, parms |-> parms, reports |-> reports, out |-> out,
     satzilla |-> satzilla, runs |-> runs, cutoff |-> cutoff, restart |-> restart]

Plain(a) == Call(a, <<>>, {}, DefaultOut, DefaultSatzilla, 1, 1, 0)

(* MaxSatInstance::computeLocalSearchProperties                            *)
Feature(a) == [Plain(a) EXCEPT !.parms = <<"-noimprove", "-timeout", "-satzilla">>,
                               !.reports = {"satcomp"}, !.runs = 2, !.cutoff = 2]

FeatureCalls == {<<Feature("saps"), Feature("gsat")>>,
                 <<Feature("novelty+-w"), Feature("gwsat-w")>>}

AllReports(a) == [Plain(a) EXCEPT !.reports = ToSet(ReportOrder),
                                  !.parms = <<"-solve", "-timeout", "-noimprove", "-varinitflip">>,
                                  !.cutoff = 2, !.restart = 2]

Outs == {<<"best">>, <<"firstlm", "best">>, <<"bestcv", "startfalse">>, <<"steps", "rand", "seed">>,
         <<"percentnull", "nullflips", "endfalse">>, <<"avgimpr", "bestcount", "time">>}

Satzillas == {<<"totaltime">>, <<"firstlmratio", "avgimpr">>, <<"bestmean">>, <<"time", "fps">>}

Sessions1 ==
    {<<Plain(a)>> : a \in Named} \cup {<<AllReports(a)>> : a \in Named}
    \cup {<<Feature(a)>> : a \in Named} \cup FeatureCalls
    \cup {<<[Plain(a) EXCEPT !.out = out, !.satzilla = s, !.reports = reports, !.cutoff = cutoff]>> :
            a \in {"saps", "novelty+-w"}, out \in Outs, s \in Satzillas,
            reports \in {{}, {"stats"}, {"rtd", "varlastflip"}}, cutoff \in {0, 1}}

=============================================================================
