---------------------------- MODULE MCExecution ----------------------------
(***************************************************************************)
(* The mutants that havoc and splicing make of M2, and how a mutant is     *)
(* spliced into the messages of the seed and sent.  The two share no       *)
(* state: one works while the other rests.                                 *)
(***************************************************************************)
EXTENDS Execution, Havoc

VARIABLE part       \* "messages" or "havoc"

mcVars == <<part, vars, havocVars>>

Init_MC ==
    \/ part = "messages" /\ Init /\ HavocInit /\ handicap = 0
    \/ part = "havoc" /\ Init /\ HavocInit

MessagesStep == part = "messages" /\ Next /\ UNCHANGED <<part, havocVars>>
BeginHavoc   == part = "havoc" /\ Begin /\ UNCHANGED <<part, vars>>
HavocStep    == part = "havoc" /\ Step /\ UNCHANGED <<part, vars>>

\* Spec of Execution, or HavocSpec with its fairness.
MCSpec == Init_MC /\ [][MessagesStep \/ BeginHavoc \/ HavocStep]_mcVars /\ WF_mcVars(HavocStep)

-----------------------------------------------------------------------------
\* The configuration has seeds of up to three messages and mutants of up to three regions.
MCLengths       == {1, 3, 4}
MCTokenLengths  == {2}
MCRegionLengths == {1, 6, 7}
MCStacks        == {2}
MCExecTimes     == {2, 101}
MCBitmapSizes   == {3, 10}
MCHandicaps     == {0, 1, 4}
MCDepths        == {0, 30}
=============================================================================
