----------------------------- MODULE MCCampaign -----------------------------
(***************************************************************************)
(* What a campaign keeps: the files of the queues, on disk and shared by   *)
(* fuzzers, and what the traces of all runs have shown.  The two share no  *)
(* state: one works while the other rests.                                 *)
(***************************************************************************)
EXTENDS MCSession, Coverage, TLC

VARIABLE part       \* "session" or "coverage"

mcVars == <<part, vars, coverageVars>>

Init_MC ==
    \/ part = "session" /\ Init /\ CoverageInit /\ crash_mode = "FAULT_NONE"
    \/ part = "coverage" /\ Init /\ CoverageInit

SessionStep == part = "session" /\ Next /\ UNCHANGED <<part, coverageVars>>
CoverageStep == part = "coverage" /\ CoverageNext /\ UNCHANGED <<part, vars>>

\* A session stops when its starts and kills are used up.
SessionRests == part = "session" /\ UNCHANGED mcVars

\* Spec of Session, or CoverageSpec.
MCSpec == Init_MC /\ [][SessionStep \/ SessionRests \/ CoverageStep]_mcVars

-----------------------------------------------------------------------------
\* Two tuples: one whose hit count may change its class, one whose counter may wrap.
\* Both campaigns start with the bitmap (-B) of a session that had seen the first tuple
\* with one of its counts; the one that explores crashes (-C) knows the second as well.

MCMap       == {0, 1}
MCCounts    == (0 :> {0, 1, 3}) @@ (1 :> {0, 1, 256})
MCCampaigns == {[crash_mode |-> "FAULT_NONE",  in_bitmap |-> (0 :> Byte \ {0}) @@ (1 :> Byte)],
                [crash_mode |-> "FAULT_CRASH", in_bitmap |-> (0 :> Byte \ {0}) @@ (1 :> Byte \ {0})]}
=============================================================================
