------------------------------- MODULE Scores -------------------------------
(***************************************************************************)
(* The choice of the next target state by score.  Every execution counts   *)
(* once for each state of its response, and the sums of the scores are     *)
(* searched for a random number.                                           *)
(*                                                                         *)
(* The score itself, a product of powers of logarithms, is a number that   *)
(* may only be known to be positive.                                       *)
(***************************************************************************)
EXTENDS Naturals, Sequences, SequencesExt

CONSTANTS
    States,             \* that the server may report
    Tables,             \* sequences of states, in the order of their discovery
    MaxScore,           \* bound of a score
    MaxExecutions       \* bound

VARIABLES
    state_ids,
    fuzzs,
    executions,         \* history
    state_scores,       \* the sum of the scores up to each state
    randV, target_state_id

vars == <<state_ids, fuzzs, executions, state_scores, randV, target_state_id>>

Init ==
    /\ state_ids \in Tables
    /\ fuzzs = [s \in States |-> 0]
    /\ executions = 0 /\ state_scores = <<>> /\ randV = 0 /\ target_state_id = 0

Once(state_sequence, s) == IF s \in ToSet(state_sequence) THEN 1 ELSE 0

\* A state that the table does not have yet is not counted.
update_fuzzs ==
    /\ executions < MaxExecutions
    /\ \E state_sequence \in UNION {[1 .. n -> States] : n \in 0 .. 2} :
         fuzzs' = [s \in States |-> IF s \in ToSet(state_ids) THEN fuzzs[s] + Once(state_sequence, s)
                                    ELSE fuzzs[s]]
    /\ executions' = executions + 1
    /\ state_scores' = <<>> /\ randV' = 0
    /\ UNCHANGED <<state_ids, target_state_id>>

\* What a state adds to the sum.
Score(sums, k) == IF k = 1 THEN sums[1] ELSE sums[k] - sums[k - 1]

\* The index of the first sum that is not below val, from 0 on, or the length when there is none.
index_search(A, val) ==
    LET at == {k \in DOMAIN A : val <= A[k]}
    IN  IF at = {} THEN Len(A) ELSE (CHOOSE k \in at : \A j \in at : k <= j) - 1

\* update_scores_and_select_next_state.
SelectNextState ==
    /\ state_scores = <<>>
    /\ state_scores' \in [DOMAIN state_ids -> 1 .. MaxScore * Len(state_ids)]
    /\ \A k \in DOMAIN state_ids : Score(state_scores', k) \in 1 .. MaxScore
    /\ randV' \in 0 .. state_scores'[Len(state_ids)] - 1
    /\ target_state_id' = state_ids[index_search(state_scores', randV') + 1]
    /\ UNCHANGED <<state_ids, fuzzs, executions>>

Next == update_fuzzs \/ SelectNextState

Spec == Init /\ [][Next]_vars

-----------------------------------------------------------------------------
(* A state is counted at most once for an execution, so that no response   *)
(* that repeats a state lowers its score by itself; the state drawn is one *)
(* of the table; and whatever the others score, each state of a score of   *)
(* two or more is drawn for some number (one with a score of 1 in the last *)
(* place never is).                                                        *)
ScoresSound ==
    /\ \A s \in States : fuzzs[s] <= executions
    /\ state_scores # <<>> =>
         LET drawn == {index_search(state_scores, r) + 1 : r \in 0 .. state_scores[Len(state_ids)] - 1}
         IN  /\ target_state_id \in ToSet(state_ids)
             /\ drawn \subseteq DOMAIN state_ids
             /\ \A k \in DOMAIN state_ids : Score(state_scores, k) > 1 => k \in drawn
=============================================================================
