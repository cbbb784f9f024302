----------------------------- MODULE StateAware -----------------------------
(***************************************************************************)
(* The state-aware main loop of AFLNet: the seeds are dry-run, the codes   *)
(* of every interesting response grow the implemented state machine and    *)
(* the table of states, and each turn picks a target state, a seed that    *)
(* reaches it and a subsequence of its messages to mutate.                 *)
(*                                                                         *)
(* The program is sequential; phase is its control point.  The two loops   *)
(* of update_state_aware_variables take one step per iteration.  The       *)
(* counters that only feed a state's score (paths, paths_discovered,       *)
(* selected_times, fuzzs) are left out: every score is positive, so the    *)
(* FAVOR selection may pick any state.                                     *)
(***************************************************************************)
EXTENDS Corpus

CONSTANTS
    Sessions,        \* the executions of the server that may be observed
    MaxInitialSeeds, \* bound: test cases read_testcases finds
    Selections,      \* <<state, seed>> algorithms the user may ask for (-q, -s)
    WarmupCycles,    \* the 5 of choose_target_state
    FewSeeds,        \* the 10 seeds of choose_seed
    FewPaths         \* the 10 queued paths of choose_seed

Algorithms == {"RANDOM_SELECTION", "ROUND_ROBIN", "FAVOR"}

ASSUME StateAwareAssumption ==
    /\ Sessions \subseteq Session
    /\ \A s \in Sessions : s.codes # <<>> => s.codes[1] = 0
    /\ MaxInitialSeeds \in 1 .. MaxPaths
    /\ Selections \subseteq Algorithms \X Algorithms
    /\ WarmupCycles \in Nat /\ FewSeeds \in Nat \ {0} /\ FewPaths \in Nat

(* The states of a region are those of a prefix of the response, so the    *)
(* last of them is a state of the whole response.                          *)
AnnotationsInResponse ==
    \A s \in Sessions : \A i \in 1 .. Len(s.regions) :
        s.regions[i].state_count > 0 =>
            \E k \in 1 .. Len(s.codes) : s.codes[k] = s.regions[i].last

VARIABLES
    state_selection_algo, seed_selection_algo,
    phase,               \* where the program is
    cur,                 \* the entry being dry-run or just added
    session,             \* response_buf, response_bytes and trace_bits for it
    pos,                 \* loop counter in update_state_aware_variables
    khms_states,         \* keys of the table of states
    seeds,               \* seeds of each state
    selected_seed_index, \* of each state
    ipsm,                \* nodes of the implemented state machine
    khs_ipsm_paths,      \* state sequences seen, long runs trimmed
    selected_state_index, state_cycles,
    queue_cur            \* the entry whose turn it is; NoEntry between turns

tableVars  == <<khms_states, seeds, selected_seed_index>>
ipsmVars   == <<ipsm, khs_ipsm_paths>>
options    == <<state_selection_algo, seed_selection_algo>>
chooseVars == <<options, selected_state_index, state_cycles>>
vars == <<corpusVars, phase, cur, session, pos, tableVars, ipsmVars,
          chooseVars, queue_cur>>

NoSession == [codes |-> <<>>, regions |-> <<>>, trace |-> {}, fav_factor |-> 0]

Phases == {"read", "dry_run", "observe", "ipsm", "annotate", "regions",
           "calibrate", "start", "select", "fuzz", "stopped", "fatal"}

Init ==
    /\ CorpusInit
    /\ \E s \in Selections : state_selection_algo = s[1] /\ seed_selection_algo = s[2]
    /\ phase = "read" /\ cur = 0 /\ session = NoSession /\ pos = 0
    /\ khms_states = {} /\ ipsm = {} /\ khs_ipsm_paths = {}
    /\ seeds = [s \in StateIds |-> <<>>]
    /\ selected_seed_index = [s \in StateIds |-> 0]
    /\ selected_state_index = 0 /\ state_cycles = 0
    /\ queue_cur = NoEntry

Range1(seq) == {seq[i] : i \in 1 .. Len(seq)}

(***************************************************************************)
(* Reading and dry-running the seeds                                       *)
(***************************************************************************)

(* read_testcases: one more file, of as many regions as some session.      *)
ReadTestcase ==
    /\ phase = "read" /\ queued_paths < MaxInitialSeeds
    /\ \E s \in Sessions : AddToQueue(Len(s.regions))
    /\ UNCHANGED <<was_fuzzed, cal_failed, ratingVars, favorVars, pending_favored,
                   state_ids, target_state_id, phase, cur, session, pos,
                   tableVars, ipsmVars, chooseVars, queue_cur>>

FinishReading ==
    /\ phase = "read" /\ queued_paths > 0
    /\ phase' = "dry_run"
    /\ UNCHANGED <<corpusVars, cur, session, pos, tableVars, ipsmVars,
                   chooseVars, queue_cur>>

(* perform_dry_run: calibration comes before the response is looked at, so *)
(* the seed is rated with unique_state_count = 0.  A seed that fails is    *)
(* tolerated (-t n+, AFL_SKIP_CRASHES).                                    *)
DryRun ==
    /\ phase = "dry_run"
    /\ \E s \in Sessions, ok \in BOOLEAN :
          /\ Len(s.regions) = Len(entry[cur].regions)
          /\ CalibrateCase(cur, [entry[cur] EXCEPT !.is_initial_seed = TRUE], s, ok)
          /\ session' = s
    /\ phase' = "observe"
    /\ UNCHANGED <<queued_paths, was_fuzzed, favorVars, pending_favored,
                   pending_not_fuzzed, state_ids, target_state_id, mapVars,
                   cur, pos, tableVars, ipsmVars, chooseVars, queue_cur>>

(***************************************************************************)
(* update_state_aware_variables                                            *)
(***************************************************************************)

(* Control after update_state_aware_variables: the next seed of the dry    *)
(* run, or the calibration of the entry just added.                        *)
Observed ==
    IF entry[cur].is_initial_seed
    THEN /\ session' = NoSession
         /\ IF cur + 1 < queued_paths
            THEN phase' = "dry_run" /\ cur' = cur + 1
            ELSE phase' = "start" /\ cur' = 0
    ELSE phase' = "calibrate" /\ UNCHANGED <<cur, session>>

(* The key is_state_sequence_interesting hashes: a code that repeats the   *)
(* two before it is dropped.                                               *)
Trimmed(seq) ==
    LET kept == {i \in 1 .. Len(seq) :
                    ~(i > 2 /\ seq[i] = seq[i-1] /\ seq[i] = seq[i-2])}
        nth(n) == CHOOSE i \in kept : Cardinality({j \in kept : j <= i}) = n
    IN  [n \in 1 .. Cardinality(kept) |-> seq[nth(n)]]

(* The first code the IPSM loop looks up.                                  *)
FirstCode == 1

(* The head of the routine: nothing without a response; otherwise the      *)
(* unique states are counted and a new sequence goes to the IPSM.          *)
ObserveResponse ==
    /\ phase = "observe"
    /\ IF session.codes = <<>>
       THEN Observed /\ UNCHANGED <<entry, pos, khs_ipsm_paths>>
       ELSE LET key == Trimmed(session.codes)
                new == key \notin khs_ipsm_paths
            IN  /\ entry' = [entry EXCEPT ![cur].unique_state_count =
                                Cardinality(Range1(session.codes))]
                /\ khs_ipsm_paths' = khs_ipsm_paths \cup {key}
                /\ phase' = IF new /\ Len(session.codes) > 1 THEN "ipsm" ELSE "annotate"
                /\ pos' = FirstCode
                /\ UNCHANGED <<cur, session>>
    /\ UNCHANGED <<queued_paths, was_fuzzed, cal_failed, ratingVars, favorVars,
                   pending_favored, pending_not_fuzzed, state_ids, target_state_id,
                   mapVars, tableVars, ipsm, chooseVars, queue_cur>>

(* Mutant: state 0 brings a row of its own.                                *)
RowForEveryState(id) == 1

(* The rows a new state brings: the row of state 0 came with the first     *)
(* queue entry.                                                            *)
NewRows(id) == IF id = 0 THEN 0 ELSE 1

(* A state enters the table with the given seeds, even over an entry that  *)
(* was there, and state_ids; all states but 0 bring a row of the map.      *)
DiscoverState(id, list) ==
    /\ Len(state_ids) < MaxRows /\ fuzzed_map_states < MaxRows
    /\ khms_states' = khms_states \cup {id}
    /\ seeds' = [seeds EXCEPT ![id] = list]
    /\ selected_seed_index' = [selected_seed_index EXCEPT ![id] = 0]
    /\ state_ids' = Append(state_ids, id)
    /\ fuzzed_map_states' = fuzzed_map_states + NewRows(id)

(* Mutant: the graph is not consulted.                                     *)
NeverANode(id) == FALSE

(* agnode(ipsm, id, FALSE)                                                 *)
IsNode(id) == id \in ipsm

(* One code of the sequence: a node the IPSM does not have is added to it  *)
(* and becomes a state.                                                    *)
IpsmStep ==
    /\ phase = "ipsm"
    /\ LET id == session.codes[pos]
       IN  IF IsNode(id)
           THEN UNCHANGED <<ipsm, tableVars, state_ids, was_fuzzed_map, fuzzed_map_states>>
           ELSE /\ ipsm' = ipsm \cup {id}
                /\ DiscoverState(id, <<>>)
                /\ was_fuzzed_map' = ExpandedMap(NewRows(id), 0)
    /\ pos' = IF pos = Len(session.codes) THEN 1 ELSE pos + 1
    /\ phase' = IF pos = Len(session.codes) THEN "annotate" ELSE "ipsm"
    /\ UNCHANGED <<queued_paths, entry, was_fuzzed, cal_failed, ratingVars,
                   favorVars, pending_favored, pending_not_fuzzed,
                   target_state_id, fuzzed_map_qentries, cur, session,
                   khs_ipsm_paths, chooseVars, queue_cur>>

(* update_region_annotations, and the entry becomes a seed of state 0,     *)
(* which must be in the table.                                             *)
AnnotateRegions ==
    /\ phase = "annotate"
    /\ entry' = [entry EXCEPT ![cur].regions = session.regions]
    /\ IF 0 \in khms_states
       THEN /\ seeds' = [seeds EXCEPT ![0] = Append(@, cur)]
            /\ was_fuzzed_map' = [was_fuzzed_map EXCEPT ![0][cur] = Reachable]
            /\ phase' = "regions"
       ELSE /\ phase' = "fatal"
            /\ UNCHANGED <<seeds, was_fuzzed_map>>
    /\ UNCHANGED <<queued_paths, was_fuzzed, cal_failed, ratingVars, favorVars,
                   pending_favored, pending_not_fuzzed, state_ids, target_state_id,
                   fuzzed_map_states, fuzzed_map_qentries, cur, session, pos,
                   khms_states, selected_seed_index, ipsmVars, chooseVars, queue_cur>>

(* One region: the entry becomes a seed of the last state it reaches, and  *)
(* a state the IPSM has not seen enters the table here.  A state absent    *)
(* from state_ids has the index its append gives it.                       *)
RegionStep ==
    /\ phase = "regions" /\ pos <= Len(entry[cur].regions)
    /\ LET region == entry[cur].regions[pos]
           id == region.last
       IN  IF region.state_count = 0
           THEN UNCHANGED <<tableVars, state_ids, was_fuzzed_map, fuzzed_map_states>>
           ELSE IF id \in khms_states
           THEN /\ seeds' = [seeds EXCEPT ![id] = Append(@, cur)]
                /\ was_fuzzed_map' =
                      [was_fuzzed_map EXCEPT ![StateIndex(id)][cur] = Reachable]
                /\ UNCHANGED <<khms_states, selected_seed_index, state_ids, fuzzed_map_states>>
           ELSE /\ DiscoverState(id, <<cur>>)
                /\ was_fuzzed_map' =
                      [ExpandedMap(NewRows(id), 0) EXCEPT ![StateIndex(id)][cur] = Reachable]
    /\ pos' = pos + 1
    /\ UNCHANGED <<queued_paths, entry, was_fuzzed, cal_failed, ratingVars,
                   favorVars, pending_favored, pending_not_fuzzed,
                   target_state_id, fuzzed_map_qentries, phase, cur, session,
                   ipsmVars, chooseVars, queue_cur>>

FinishRegions ==
    /\ phase = "regions" /\ pos > Len(entry[cur].regions)
    /\ pos' = 0 /\ Observed
    /\ UNCHANGED <<corpusVars, tableVars, ipsmVars, chooseVars, queue_cur>>

(***************************************************************************)
(* Choosing the state and the seed                                         *)
(***************************************************************************)

(* The end of the dry run in main: a cull for state 0, and no fuzzing      *)
(* without a seed that runs and without a state.                           *)
StartFuzzing ==
    /\ phase = "start"
    /\ CullQueue(target_state_id)
    /\ phase' = IF cal_failed = Queue \/ state_ids = <<>> THEN "fatal" ELSE "select"
    /\ UNCHANGED <<queued_paths, entry, was_fuzzed, cal_failed, top_rated, tc_ref,
                   trace_mini, pending_not_fuzzed, state_ids, target_state_id,
                   mapVars, cur, session, pos, tableVars, ipsmVars, chooseVars,
                   queue_cur>>

(* Mutants: the end is tested too late; the cursor stays.                  *)
WrapLate(i, n) == IF i + 1 > n THEN 0 ELSE i + 1
WrapStays(i, n) == IF i + 1 = n THEN 0 ELSE i

(* Advance a cursor over n elements.                                       *)
Wrap(i, n) == IF i + 1 = n THEN 0 ELSE i + 1

(* choose_target_state picks t.                                            *)
ChooseTargetState(t) ==
    LET n == Len(state_ids)
        round_robin ==
            /\ t = state_ids[selected_state_index + 1]
            /\ selected_state_index' = Wrap(selected_state_index, n)
    IN  CASE state_selection_algo = "RANDOM_SELECTION" ->
               /\ \E i \in 0 .. n - 1 : t = state_ids[i + 1] /\ selected_state_index' = i
               /\ UNCHANGED state_cycles
          [] state_selection_algo = "ROUND_ROBIN" -> round_robin /\ UNCHANGED state_cycles
          [] state_selection_algo = "FAVOR" /\ state_cycles < WarmupCycles ->
               /\ round_robin
               /\ state_cycles' = IF selected_state_index' = 0 THEN state_cycles + 1
                                  ELSE state_cycles
          [] OTHER -> t \in Range1(state_ids) /\ UNCHANGED chooseVars

(* choose_seed in FAVOR mode may stop at q, and may pass over it, when     *)
(* pending counts the pending favored entries of target t.                 *)
MayTake(q, pending, fav) == pending # 0 \/ (q \notin fav /\ queued_paths > FewPaths)

MayPass(q, t, pending, fav) ==
    \/ entry[q].generating_state_id # t /\ ~entry[q].is_initial_seed
    \/ IF pending # 0
       THEN was_fuzzed_map[StateIndex(t)][q] = Fuzzed \/ q \notin fav
       ELSE TRUE

(* The <<seed, next cursor>> pairs a FAVOR scan over a long list can end   *)
(* with: the first seed taken, or the last of the list when all are passed *)
(* over in every cycle.                                                    *)
FavorScan(t, pending, fav) ==
    LET list == seeds[t]
        n == Len(list)
        from == selected_seed_index[t]
        at(k) == list[((from + k) % n) + 1]
    IN  {<<at(k), (from + k + 1) % n>> :
            k \in {k \in 0 .. n - 1 : /\ MayTake(at(k), pending, fav)
                                      /\ \A j \in 0 .. k - 1 : MayPass(at(j), t, pending, fav)}}
        \cup (IF \A j \in 0 .. n - 1 : MayPass(at(j), t, pending, fav)
              THEN {<<list[n], 0>>} ELSE {})

(* choose_seed for target t: the <<seed, next cursor>> it can return.      *)
ChooseSeed(t, pending, fav) ==
    LET list == seeds[t]
        n == Len(list)
        i == selected_seed_index[t]
    IN  CASE n = 0 -> {<<NoEntry, i>>}
          [] n > 0 /\ seed_selection_algo = "RANDOM_SELECTION" -> {<<list[k + 1], k>> : k \in 0 .. n - 1}
          [] n > FewSeeds /\ seed_selection_algo = "FAVOR" -> FavorScan(t, pending, fav)
          [] OTHER -> {<<list[i + 1], Wrap(i, n)>>}

(* Mutant: an entry whose regions do not reach the target is not skipped.  *)
M2NeverSkips(q, t) == [start |-> 0, count |-> 0]

(* The first region of M2 and its number of regions, for entry q and       *)
(* target t: M1 ends with the first region that reaches t, and M2 extends  *)
(* over the regions with as many states as its first.                      *)
M2(q, t) ==
    LET regions == entry[q].regions
        n == Len(regions)
        reaching == {i \in 1 .. n : regions[i].state_count > 0 /\ regions[i].last = t}
        blank == {i \in 1 .. n : regions[i].state_count = 0}
        first == CHOOSE i \in reaching : \A j \in reaching : i <= j
        start == IF t = 0 THEN 0 ELSE first
        alike(k) == \A i \in start + 1 .. start + k :
                        regions[i].state_count = regions[start + 1].state_count
    IN  IF t # 0 /\ (reaching = {} \/ \E i \in blank : i < first)
        THEN [start |-> n, count |-> 0]
        ELSE [start |-> start,
              count |-> CHOOSE k \in 0 .. n - start :
                            alike(k) /\ (k < n - start => ~alike(k + 1))]

(* One round of the selection loop and the head of fuzz_one, which returns *)
(* at once when the seed has nothing to mutate after the target state.     *)
SelectSeed ==
    /\ phase = "select"
    /\ \E t \in StateIds :
          /\ ChooseTargetState(t)
          /\ CullQueue(t)
          /\ target_state_id' = t
          /\ \E choice \in ChooseSeed(t, pending_favored', favored') :
                LET q == choice[1]
                    turn == /\ q # NoEntry /\ entry[q].regions # <<>>
                            /\ M2(q, t).start < Len(entry[q].regions)
                IN  /\ selected_seed_index' = [selected_seed_index EXCEPT ![t] = choice[2]]
                    /\ queue_cur' = IF turn THEN q ELSE NoEntry
                    /\ phase' = IF turn THEN "fuzz" ELSE "select"
    /\ UNCHANGED <<queued_paths, entry, was_fuzzed, cal_failed, top_rated, tc_ref,
                   trace_mini, pending_not_fuzzed, state_ids, mapVars, cur,
                   session, pos, khms_states, seeds, ipsmVars, options>>

(***************************************************************************)
(* A turn                                                                  *)
(***************************************************************************)

(* save_if_interesting keeps a mutant (phase fuzz), or a test case         *)
(* sync_fuzzers imports between two turns (phase select).                  *)
KeepTestcase ==
    /\ phase \in {"fuzz", "select"}
    /\ \E s \in Sessions : AddToQueue(Len(s.regions)) /\ session' = s
    /\ cur' = queued_paths
    /\ phase' = "observe"
    /\ UNCHANGED <<was_fuzzed, cal_failed, ratingVars, favorVars, pending_favored,
                   state_ids, target_state_id, pos, tableVars, ipsmVars,
                   chooseVars, queue_cur>>

(* The calibration at the end of save_if_interesting.                      *)
Calibrate ==
    /\ phase = "calibrate"
    /\ \E ok \in BOOLEAN : CalibrateCase(cur, entry[cur], session, ok)
    /\ phase' = IF queue_cur = NoEntry THEN "select" ELSE "fuzz"
    /\ cur' = 0 /\ session' = NoSession
    /\ UNCHANGED <<queued_paths, was_fuzzed, favorVars, pending_favored,
                   pending_not_fuzzed, state_ids, target_state_id, mapVars, pos,
                   tableVars, ipsmVars, chooseVars, queue_cur>>

(* fuzz_one leaves through abandon_entry.                                  *)
FinishFuzzOne ==
    /\ phase = "fuzz"
    /\ AbandonEntry(queue_cur, FALSE)
    /\ phase' = "select" /\ queue_cur' = NoEntry
    /\ UNCHANGED <<queued_paths, entry, cal_failed, ratingVars, favorVars,
                   state_ids, target_state_id, fuzzed_map_states,
                   fuzzed_map_qentries, cur, session, pos, tableVars, ipsmVars,
                   chooseVars>>

(* stop_soon: the turn is abandoned, nothing of it is recorded.            *)
Stop ==
    /\ phase \in {"fuzz", "select"}
    /\ AbandonEntry(queue_cur, TRUE)
    /\ phase' = "stopped" /\ queue_cur' = NoEntry
    /\ UNCHANGED <<queued_paths, entry, cal_failed, ratingVars, favorVars,
                   state_ids, target_state_id, fuzzed_map_states,
                   fuzzed_map_qentries, cur, session, pos, tableVars, ipsmVars,
                   chooseVars>>

Ended == phase \in {"stopped", "fatal"}

Exited == Ended /\ UNCHANGED vars

Progress ==
    \/ FinishReading \/ DryRun \/ ObserveResponse \/ IpsmStep \/ AnnotateRegions
    \/ RegionStep \/ FinishRegions \/ StartFuzzing \/ SelectSeed \/ Calibrate
    \/ FinishFuzzOne

Next == ReadTestcase \/ Progress \/ KeepTestcase \/ Stop \/ Exited

Spec == Init /\ [][Next]_vars

(* The loop never waits for anything outside it, and a turn ends: the      *)
(* stages of fuzz_one are finite.                                          *)
FairSpec == Spec /\ WF_vars(Progress)
-----------------------------------------------------------------------------

TypeOK ==
    /\ CorpusTypeOK
    /\ options \in Selections
    /\ phase \in Phases
    /\ cur \in Entries /\ pos \in Nat
    /\ session \in Sessions \cup {NoSession}
    /\ khms_states \subseteq StateIds /\ ipsm \subseteq StateIds
    /\ seeds \in [StateIds -> Seq(Queue)]
    /\ selected_seed_index \in [StateIds -> Nat]
    /\ selected_state_index \in Nat /\ state_cycles \in 0 .. WarmupCycles
    /\ queue_cur \in Queue \cup {NoEntry}

(* Row 0 of was_fuzzed_map, which update_state_aware_variables writes for  *)
(* state 0 without looking it up, is the row of state 0.                   *)
InitialStateFirst == state_ids # <<>> => state_ids[1] = 0 /\ 0 \in khms_states

(* get_state_index finds the only row of s.                                *)
EnteredOnce(s) ==
    \A i, j \in 1 .. Len(state_ids) : state_ids[i] = s /\ state_ids[j] = s => i = j

(* The table, state_ids and the graph tell of the same states.  A state    *)
(* comes in through the graph or through a region; one that a region       *)
(* brought is entered again when the graph meets it, and never a third     *)
(* time.                                                                   *)
StatesEntered ==
    /\ khms_states = Range1(state_ids) /\ ipsm \subseteq khms_states
    /\ \A s \in khms_states \ ipsm : EnteredOnce(s)
    /\ \A i, j, k \in 1 .. Len(state_ids) :
          state_ids[i] = state_ids[j] /\ state_ids[j] = state_ids[k] =>
              i = j \/ j = k \/ i = k

(* The two records of which entry reaches which state: the cell of a seed  *)
(* is never UNREACHABLE; and an entry whose cell is not is a seed, unless  *)
(* the second entering of the state has dropped its list.                  *)
SeedsMatchMap ==
    \A s \in khms_states, q \in Queue :
        LET reached == was_fuzzed_map[StateIndex(s)][q] \in {Reachable, Fuzzed}
        IN  /\ q \in Range1(seeds[s]) => reached
            /\ EnteredOnce(s) /\ reached => q \in Range1(seeds[s])

(* The cursors of the round-robin selections stay inside lists that grow   *)
(* under them, so no out-of-range element is ever selected.                *)
CursorsInRange ==
    /\ state_ids # <<>> => selected_state_index < Len(state_ids)
    /\ \A s \in StateIds :
          seeds[s] # <<>> => selected_seed_index[s] < Len(seeds[s])

(* Every index that the state-aware mode computes, of a row, a column, a   *)
(* state or a seed, lies inside what it indexes, and row 0 is that of      *)
(* state 0.                                                                *)
IndicesFit == MapDimensions /\ CursorsInRange /\ InitialStateFirst

(* The table of states, state_ids, the graph, the lists of seeds and the   *)
(* map tell the same of which states there are and who reaches them,       *)
(* whichever of graph and regions meets a state first, and whether or not  *)
(* the annotations of the regions agree with the whole response.           *)
StatesSound == StatesEntered /\ SeedsMatchMap

(* A turn mutates a non-empty M2 of an entry that reaches the target, in a *)
(* row of the map that exists; it stays a seed of the target during the    *)
(* whole turn, unless the state is entered again meanwhile.                *)
TurnIsMeaningful ==
    queue_cur # NoEntry =>
        /\ StateIndex(target_state_id) < fuzzed_map_states
        /\ was_fuzzed_map[StateIndex(target_state_id)][queue_cur] \in {Reachable, Fuzzed}
        /\ EnteredOnce(target_state_id) => queue_cur \in Range1(seeds[target_state_id])
        /\ M2(queue_cur, target_state_id).count > 0

(* "was_fuzzed information becomes state-aware": the end of a turn is      *)
(* recorded for the state it was for.  The guard of abandon_entry records  *)
(* only the first turn of an entry, so this is violated.                   *)
EveryTurnKept ==
    [][phase = "fuzz" /\ phase' = "select" /\ queue_cur \notin cal_failed =>
          was_fuzzed_map'[StateIndex(target_state_id)][queue_cur] = Fuzzed]_vars

(* "keep the list of seeds which help us to reach a specific state": an    *)
(* entry stays a seed of the states it is a seed of.  It holds as long as  *)
(* AnnotationsInResponse does; otherwise the graph enters a state that a   *)
(* region brought over its entry in the table, and the list is dropped.    *)
SeedsKept ==
    [][\A s \in khms_states : Range1(seeds[s]) \subseteq Range1(seeds'[s])]_vars

(* A cell of the map goes from unreachable to reachable to fuzzed, never   *)
(* back: expansion by rows and columns touches no older cell.              *)
MapMonotone ==
    [][\A r \in Rows, q \in Entries : was_fuzzed_map[r][q] <= was_fuzzed_map'[r][q]]_vars

(* Round-robin selection targets every state in the table again and again. *)
EveryStateTargeted ==
    \A s \in StateIds :
        []((s \in Range1(state_ids)) => <>(target_state_id = s \/ Ended))

(* Every seed of the initial state whose calibration succeeded is sooner   *)
(* or later recorded as fuzzed: no entry that reaches state 0 starves,     *)
(* although both cursors run over lists that grow.                         *)
NoSeedStarves ==
    \A q \in Entries :
        (q \in Range1(seeds[0]) /\ q \notin cal_failed /\ phase = "select")
            ~> (q \in was_fuzzed \/ q \in cal_failed \/ Ended)
=============================================================================
