------------------------------ MODULE MCTools -------------------------------
(***************************************************************************)
(* Small values for the constants of the programs and parts of Tools.      *)
(***************************************************************************)
EXTENDS Tools

MCMinimizedFiles == {<<1, 1, 2>>, <<2, 1, 0>>}

\* Every byte alone, and runs of two to five bytes; answers as before, the same and different.
MCAnalyzedFiles ==
    {<<n>> : n \in 0 .. 255}
        \cup {<<5, 0, 9, 9, 9>>, <<0, 0, 0, 9, 1>>, <<7, 200, 3, 4, 5>>, <<1, 2, 3, 200>>,
              <<0, 4>>, <<1, 60>>, <<0, 0>>}

MCAnswers ==
    {<<1, 1, 1, 1>>, <<1, 2, 2, 2>>, <<2, 2, 2, 2>>, <<3, 3, 3, 3>>, <<2, 3, 2, 3>>, <<0, 0, 0, 0>>}

\* Of the tools, those options that are required and those that others depend on.
MCToolOptions ==
    [p \in {"afl-tmin", "afl-analyze", "afl-showmap"} |->
       CASE p = "afl-tmin" -> {"i", "o", "f", "m", "Q", "B"}
         [] p = "afl-analyze" -> {"i", "f", "m", "t", "Q"}
         [] p = "afl-showmap" -> {"o", "m", "q", "Z", "A", "Q"}]

MCCommandLines == {<<<<"target">>>>, <<<<"target">>, <<"-x", "@@", "@@">>, <<"y">>>>}

MCTestCases == {<<1, 2>>, <<2, 5>>, <<3>>}

MCTables == {<<0>>, <<1, 0>>, <<2, 0, 1>>}
=============================================================================
