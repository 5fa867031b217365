------------------------------ MODULE MCCoach ------------------------------
EXTENDS Coach

(* Values of two features over seven instances.  The first is constant in  *)
(* none of the sets or in all of them; the second, where every third       *)
(* instance is for the test, in none of them or in one.                    *)
Vary      == [i \in 0..6 |-> [f \in {"a", "b"} |-> i]]
TrainSame == [i \in 0..6 |-> [f \in {"a", "b"} |->
                  IF f = "b" /\ i % 3 # 0 THEN 0 ELSE i]]
TestSame  == [i \in 0..6 |-> [f \in {"a", "b"} |->
                  IF f = "b" /\ i % 3 = 0 THEN 0 ELSE i]]
Constant  == [i \in 0..6 |-> [f \in {"a", "b"} |-> IF f = "a" THEN 1 ELSE i]]

Config(percentTest, std, fsopt, fsInsts, order, parts, la) ==
    [percentTest |-> percentTest, outputStd |-> std[1], featureStd |-> std[2],
     fsopt |-> fsopt, fsInsts |-> fsInsts,
     fePartOrder |-> order, fePartitions |-> parts, la |-> la]

Measured(config, handle, value, timeouts) ==
    [x \in DOMAIN config \cup {"handleTimeout", "value", "timeouts"} |->
        CASE x = "handleTimeout" -> handle
          [] x = "value"         -> value
          [] x = "timeouts"      -> timeouts
          [] OTHER               -> config[x]]

Standardizing == {<<FALSE, FALSE>>, <<FALSE, TRUE>>, <<TRUE, TRUE>>}
Selecting == {<<"NONE", 0>>, <<"DELTA", 0>>, <<"INSTS", 0>>, <<"INSTS", 1>>,
              <<"INSTS", 2>>, <<"INSTS", 3>>}
Expansions == {<<0, <<>>>>, <<1, <<>>>>, <<2, <<>>>>, <<2, <<<<1, 2>>>>>>,
               <<2, <<<<2, 3>>>>>>}

Learning == {Config(p, std, fs[1], fs[2], ex[1], ex[2], "RR") :
                p \in {0, 33, 60, 101}, std \in Standardizing,
                fs \in Selecting, ex \in Expansions}
            \cup {Config(p, std, fs[1], fs[2], 0, <<>>, "SVM") :
                p \in {0, 33, 60}, std \in Standardizing, fs \in Selecting}

MCInputs ==
    {Measured(c, FALSE, v, <<{}, t>>) :
        c \in Learning, v \in {Vary, TrainSame, TestSame, Constant}, t \in {{}, {3, 6}, 0..6}}
    \cup {Measured(c, TRUE, Vary, <<{1}, {2, 4}>>) : c \in Learning}

(* The inputs of the runs that show one deviation each.                    *)
NoTestInputs ==
    {Measured(Config(0, <<FALSE, FALSE>>, "NONE", 0, 0, <<>>, "RR"), FALSE, Vary, <<{1}, t>>) :
        t \in SUBSET (0..6)}
Vary3 == [i \in 0..6 |-> [f \in {"a", "b", "c"} |-> i]]
PartitionInputs ==
    {Measured(Config(33, <<FALSE, FALSE>>, "NONE", 0, 2, <<p>>, "RR"), FALSE, Vary3, <<t>>) :
        p \in {<<1, 2>>, <<1, 3>>, <<2, 3>>}, t \in SUBSET {1, 2}}
LoadInputs ==
    {Measured(c, FALSE, Vary, <<{1}, {}>>) : c \in {d \in Learning : d.percentTest = 33}}
Two   == <<"a", "b">>
Three == <<"a", "b", "c">>
=============================================================================
