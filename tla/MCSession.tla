----------------------------- MODULE MCSession -----------------------------
\* One fuzzer that is killed and restarted (main), one that imports from it (other),
\* and one that finds a crash and fills its queue with a gap (lone).  Budget is what
\* three starts and two kills of main cost; it leaves main two starts beside other or
\* a first start of lone, so that each of the three cases is met in full.
EXTENDS Session

CONSTANTS main, other, lone, c1, c2, c3, c4, crash

For(m, o, l) == [f \in {main, other, lone} |->
                   CASE f = main -> m [] f = other -> o [] f = lone -> l]

MCFuzzers       == {main, other, lone}
MCDeterministic == {main}
MCHardLinks     == {main, other}
MCCases         == {c1, c2, c3, c4}
MCUnsent        == {c3}
MCInDir         == <<c1, c2>>
MCDiscoverable  == For({c3}, {}, {crash, c3, c4})
MCParties       == For({}, {main}, {})
MCMaxAge        == For(0, 0, 1)
MCMaxStarts     == For(3, 1, 2)
MCMaxKills      == For(2, 0, 1)
MCStartCost     == For(3, 5, 5)

ASSUME MCMissing == MissingIsApart(0..3)
=============================================================================
