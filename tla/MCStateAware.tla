---------------------------- MODULE MCStateAware ----------------------------
(* Small instances of StateAware: three states, a bitmap of two bytes and  *)
(* a handful of sessions.                                                  *)
EXTENDS StateAware

Ann(n, s) == [state_count |-> n, last |-> s]

Observation(codes, regions, trace, factor) ==
    [codes |-> codes, regions |-> regions, trace |-> trace, fav_factor |-> factor]

(* A greeting, then two answered messages; a response that, looked at up   *)
(* to its first region, shows a state the whole of it takes back; a        *)
(* message without an answer before one with; no response.                 *)
TwoSteps   == Observation(<<0, 1, 2>>, <<Ann(2, 1), Ann(3, 2)>>, {0, 1}, 2)
Revised    == Observation(<<0, 1>>, <<Ann(2, 2), Ann(2, 1)>>, {0}, 1)
LateAnswer == Observation(<<0, 2>>, <<Unannotated, Ann(2, 2)>>, {0, 1}, 1)
Silent     == Observation(<<>>, <<Unannotated>>, {0}, 2)

MCSessions == {TwoSteps, Revised, LateAnswer, Silent}

(* The sessions reach the case that the annotations are not of the whole   *)
(* response.                                                               *)
ASSUME TakenBack == ~AnnotationsInResponse

RoundRobin == {<<"ROUND_ROBIN", "ROUND_ROBIN">>}
MixedSelections == {<<"ROUND_ROBIN", "RANDOM_SELECTION">>, <<"FAVOR", "FAVOR">>}
RandomStates == {<<"RANDOM_SELECTION", "ROUND_ROBIN">>}
=============================================================================
