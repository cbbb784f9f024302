----------------------------- MODULE MCFuzzOne ------------------------------
(***************************************************************************)
(* The deterministic stages of a turn, and the runs of the target that     *)
(* afl-fuzz and the fork server share.  The two share no state: one works  *)
(* while the other rests.                                                  *)
(***************************************************************************)
EXTENDS ForkServer, Deterministic

VARIABLE part       \* "runs" or "stages"

mcVars == <<part, vars, stagesVars>>

Mode(forkserver, is_persistent, use_net, terminate_child) ==
    [forkserver |-> forkserver, is_persistent |-> is_persistent,
     use_net |-> use_net, terminate_child |-> terminate_child]

NetModes == {Mode(TRUE, FALSE, TRUE, terminate) : terminate \in BOOLEAN}
FileModes == {Mode(TRUE, persistent, FALSE, FALSE) : persistent \in BOOLEAN}
                \cup {Mode(FALSE, FALSE, FALSE, FALSE)}

SupportedModes == NetModes \cup FileModes

NoStages ==
    /\ stage = "resumed" /\ in_buf = <<17>> /\ out_buf = in_buf /\ pos = 1
    /\ eff_map = <<>> /\ eff_cnt = 1 /\ stage_cur = 0 /\ stage_max = 0
    /\ a_len = 0 /\ prev_cksum = exec_cksum /\ passed_det = FALSE /\ tried = {}
    /\ extras = <<>> /\ a_extras = <<>> /\ auto_files = <<>> /\ auto_changed = FALSE

Init_MC ==
    \/ part = "runs" /\ Init /\ NoStages
    \/ part = "stages" /\ StagesInit /\ Init /\ mode = Mode(FALSE, FALSE, FALSE, FALSE)

RunStep(Action) == part = "runs" /\ Action /\ UNCHANGED <<part, stagesVars>>

StagesStep == part = "stages" /\ StagesNext /\ UNCHANGED <<part, vars>>

\* Only a resumed session has nothing more to do.
Resumed == part = "stages" /\ stage = "resumed" /\ UNCHANGED mcVars

\* FairSpec or StagesSpec.
MCSpec ==
    /\ Init_MC /\ [][RunStep(Next) \/ StagesStep \/ Resumed]_mcVars
    /\ WF_mcVars(RunStep(Fuzzer)) /\ WF_mcVars(RunStep(ForkServer))
    /\ WF_mcVars(RunStep(HandleTimeout)) /\ WF_mcVars(RunStep(OrphanReaped))

-----------------------------------------------------------------------------
MCInteresting8  == <<-16, -1, 0, 15>>
MCInteresting16 == MCInteresting8 \o <<-17, 32, 511>>
MCInteresting32 == MCInteresting16 \o <<-513, 1024>>

\* The letters 8 to 11 have capitals 12 to 15.
MCtolower == [b \in Byte |-> IF b \in 12..15 THEN b - 4 ELSE b]

\* 28 and a byte behind it: the number 28 + 4 has a carry whose change is four bits wide.
MCMessages == {<<17>>, <<28, 9>>, <<8, 9, 21>>, <<28, 1, 12, 13>>}

MCLine(token) == [blank |-> FALSE, closed |-> TRUE, level |-> 0, opened |-> TRUE, token |-> token]

MCDictionaries ==
    {[level |-> 0, lines |-> <<MCLine(<<3, 4, 5>>), MCLine(<<28, 3>>), [MCLine(<<6, 7>>) EXCEPT !.level = 1]>>],
     [level |-> 0, lines |-> <<[MCLine(<<9, 8>>) EXCEPT !.closed = FALSE]>>]}

\* One token found again, and room for one of the two that <<28, 1, 12, 13>> may have.
MCTokens ==
    {[files |-> <<>>, earlier |-> <<>>],
     [files |-> <<<<1, 2>>, <<5, 6, 7>>, <<8, 9>>>>, earlier |-> <<<<3, 4>>, <<5, 6, 7>>>>]}
=============================================================================
