------------------------------- MODULE Corpus -------------------------------
(***************************************************************************)
(* The corpus of afl-fuzz: the queue of test cases, the favored set        *)
(* (top_rated[], trace_mini, tc_ref, cull_queue) and the two-dimensional   *)
(* was_fuzzed_map that AFLNet adds to it.  The module declares the state   *)
(* and one operator per routine; StateAware and ClassicLoop compose them   *)
(* into the two main loops of afl-fuzz.c.                                  *)
(*                                                                         *)
(* A queue entry is its index in the queue, a byte of the bitmap its       *)
(* offset; exec_us * len is one number, fav_factor; a trace is the set of  *)
(* its non-zero bytes (hit counts are not told apart here).                *)
(***************************************************************************)
EXTENDS Integers, Sequences, FiniteSets

CONSTANTS
    StateIds,   \* server states (response codes); 0 is the initial state
    MaxPaths,   \* bound: queue entries a behaviour may create
    MaxRows,    \* bound: rows the was_fuzzed_map may grow to
    MapSize,    \* MAP_SIZE
    U32Max      \* the largest value of a u32 counter

ASSUME CorpusAssumption ==
    /\ StateIds \subseteq Nat /\ 0 \in StateIds
    /\ MaxPaths \in Nat \ {0} /\ MaxRows \in Nat \ {0}
    /\ MapSize \in Nat \ {0}
    /\ U32Max \in Nat /\ U32Max >= MaxPaths /\ U32Max >= MapSize

Entries == 0 .. MaxPaths - 1
Bytes   == 0 .. MapSize - 1
Rows    == 0 .. MaxRows - 1
NoEntry == -1              \* the NULL of a struct queue_entry *

(* Cells of was_fuzzed_map; a cell outside its dimensions is Unallocated.  *)
Unallocated == -2
Unreachable == -1
Reachable   == 0
Fuzzed      == 1
Cells == {Unallocated, Unreachable, Reachable, Fuzzed}

(* region_t, reduced to its annotation: the number of states of its        *)
(* state_sequence and the last of them.                                    *)
Region == [state_count : Nat, last : StateIds]
Unannotated == [state_count |-> 0, last |-> 0]

(* What one execution of a test case shows: the state sequence extracted   *)
(* from the whole response (empty: no response arrived), the annotation of *)
(* each region, and the bytes of the bitmap it touched.                    *)
Session == [codes : Seq(StateIds), regions : Seq(Region),
            trace : SUBSET Bytes, fav_factor : Nat]

Entry == [generating_state_id : StateIds, is_initial_seed : BOOLEAN,
          unique_state_count : Nat, fav_factor : Nat, regions : Seq(Region)]

BlankEntry == [generating_state_id |-> 0, is_initial_seed |-> FALSE,
               unique_state_count |-> 0, fav_factor |-> 0, regions |-> <<>>]

VARIABLES
    queued_paths,        \* number of entries in the queue
    entry,               \* their fields that are set once or twice
    was_fuzzed,          \* entries with was_fuzzed = 1
    cal_failed,          \* entries with cal_failed > 0
    favored,             \* entries with favored = 1
    fs_redundant,        \* entries marked redundant in the file system
    top_rated,           \* winner of each byte of the bitmap
    tc_ref,              \* number of bytes an entry has won
    trace_mini,          \* trace kept for an entry; {} is NULL
    score_changed,
    queued_favored, pending_favored, pending_not_fuzzed,
    state_ids,           \* discovered states, in order of discovery
    target_state_id,
    was_fuzzed_map, fuzzed_map_states, fuzzed_map_qentries

ratingVars  == <<top_rated, tc_ref, trace_mini, score_changed>>
favorVars   == <<favored, fs_redundant, queued_favored>>
mapVars     == <<was_fuzzed_map, fuzzed_map_states, fuzzed_map_qentries>>
corpusVars  == <<queued_paths, entry, was_fuzzed, cal_failed, ratingVars,
                 favorVars, pending_favored, pending_not_fuzzed, state_ids,
                 target_state_id, mapVars>>

CorpusInit ==
    /\ queued_paths = 0
    /\ entry = [q \in Entries |-> BlankEntry]
    /\ was_fuzzed = {} /\ cal_failed = {} /\ favored = {} /\ fs_redundant = {}
    /\ top_rated = [b \in Bytes |-> NoEntry]
    /\ tc_ref = [q \in Entries |-> 0]
    /\ trace_mini = [q \in Entries |-> {}]
    /\ score_changed = FALSE
    /\ queued_favored = 0 /\ pending_favored = 0 /\ pending_not_fuzzed = 0
    /\ state_ids = <<>> /\ target_state_id = 0
    /\ was_fuzzed_map = [r \in Rows |-> [q \in Entries |-> Unallocated]]
    /\ fuzzed_map_states = 0 /\ fuzzed_map_qentries = 0

Queue == 0 .. queued_paths - 1

(* Mutant: a counter without a width.                                      *)
DecrementUnsigned(x) == x - 1

(* x-- on a u32.                                                           *)
Decrement(x) == IF x = 0 THEN U32Max ELSE x - 1

(***************************************************************************)
(* was_fuzzed_map                                                          *)
(***************************************************************************)

(* get_state_index: the first position of id, or the length when absent.   *)
StateIndex(id) ==
    LET at == {i \in 1 .. Len(state_ids) : state_ids[i] = id}
    IN  IF at = {} THEN Len(state_ids)
        ELSE (CHOOSE i \in at : \A j \in at : i <= j) - 1

(* Mutant: every cell of the expanded map is reset.                        *)
ResetMap(new_states, new_qentries) ==
    [r \in Rows |-> [q \in Entries |->
        IF /\ r < fuzzed_map_states + new_states
           /\ q < fuzzed_map_qentries + new_qentries
        THEN Unreachable ELSE was_fuzzed_map[r][q]]]

(* expand_was_fuzzed_map: the map with more rows and columns               *)
ExpandedMap(new_states, new_qentries) ==
    [r \in Rows |-> [q \in Entries |->
        IF /\ r < fuzzed_map_states + new_states
           /\ q < fuzzed_map_qentries + new_qentries
           /\ r >= fuzzed_map_states \/ q >= fuzzed_map_qentries
        THEN Unreachable ELSE was_fuzzed_map[r][q]]]

(***************************************************************************)
(* The queue                                                               *)
(***************************************************************************)

(* add_to_queue: a new entry of n regions, and its column of the map; the  *)
(* first entry also brings the row of state 0.                             *)
AddToQueue(n) ==
    LET new_states == IF fuzzed_map_states = 0 THEN 1 ELSE 0
    IN  /\ queued_paths < MaxPaths
        /\ entry' = [entry EXCEPT ![queued_paths] =
                        [BlankEntry EXCEPT !.generating_state_id = target_state_id,
                                           !.regions = [i \in 1 .. n |-> Unannotated]]]
        /\ queued_paths' = queued_paths + 1
        /\ pending_not_fuzzed' = pending_not_fuzzed + 1
        /\ was_fuzzed_map' = ExpandedMap(new_states, 1)
        /\ fuzzed_map_states' = fuzzed_map_states + new_states
        /\ fuzzed_map_qentries' = fuzzed_map_qentries + 1

(***************************************************************************)
(* The favored set                                                         *)
(***************************************************************************)

(* The contender q, of the given factor, leaves a slot to its holder o:    *)
(* both conditions of update_bitmap_score, the second as written there.    *)
LeavesSlot(q, factor, o) ==
    \/ entry[q].unique_state_count < entry[o].unique_state_count
    \/ /\ entry[q].unique_state_count < entry[o].unique_state_count
       /\ factor > entry[o].fav_factor

(* Mutant: the trace is dropped with any slot.                             *)
FreesOnAnyLoss(x, won) == \E b \in won : top_rated[b] = x

(* The slots among won that x held: the references it loses.               *)
SlotsLost(x, won) == Cardinality({b \in won : top_rated[b] = x})

(* if (!--top_rated[i]->tc_ref): x loses its last slot, and its trace.     *)
FreesTrace(x, won) == SlotsLost(x, won) > 0 /\ tc_ref[x] = SlotsLost(x, won)

(* update_bitmap_score: q takes every slot of its trace that it does not   *)
(* leave to the holder, and keeps its trace from the first one on.         *)
UpdateBitmapScore(q, factor, trace) ==
    LET won == {b \in trace : \/ top_rated[b] = NoEntry
                              \/ ~LeavesSlot(q, factor, top_rated[b])}
        gained(x) == IF x = q THEN Cardinality(won) ELSE 0
        trace_of(x) == IF FreesTrace(x, won) THEN {} ELSE trace_mini[x]
    IN  /\ top_rated' = [b \in Bytes |-> IF b \in won THEN q ELSE top_rated[b]]
        /\ tc_ref' = [x \in Entries |-> tc_ref[x] - SlotsLost(x, won) + gained(x)]
        /\ trace_mini' = [x \in Entries |->
              IF x = q /\ won # {} /\ trace_of(x) = {} THEN trace ELSE trace_of(x)]
        /\ score_changed' = (score_changed \/ won # {})

(* calibrate_case on q: a run that ends as expected times q and rates it;  *)
(* an aborted one leaves cal_failed set.  fields is the entry to store.    *)
CalibrateCase(q, fields, session, ok) ==
    IF ok
    THEN /\ cal_failed' = cal_failed \ {q}
         /\ entry' = [entry EXCEPT ![q] = [fields EXCEPT !.fav_factor = session.fav_factor]]
         /\ UpdateBitmapScore(q, session.fav_factor, session.trace)
    ELSE /\ cal_failed' = cal_failed \cup {q}
         /\ entry' = [entry EXCEPT ![q] = fields]
         /\ UNCHANGED ratingVars

(* Mutant: any kept trace is taken to cover the byte.                      *)
CoversAnything(c, b) == trace_mini[top_rated[c]] # {}

(* The winner of byte c has byte b in its trace: temp_v loses bit b.       *)
Covers(c, b) == b \in trace_mini[top_rated[c]]

(* The bytes whose winner cull_queue favors, in the order of its loop:     *)
(* temp_v[b] when byte b is looked at tells that no winner favored before  *)
(* covers b.                                                               *)
PickedBytes ==
    LET temp_v[b \in Bytes] ==
          \A c \in 0 .. b - 1 : top_rated[c] # NoEntry /\ temp_v[c] => ~Covers(c, b)
    IN  {b \in Bytes : top_rated[b] # NoEntry /\ temp_v[b]}

(* A favored entry that cull_queue also counts in pending_favored.         *)
CountsAsPending(q, target) ==
    /\ entry[q].generating_state_id = target \/ entry[q].is_initial_seed
    /\ was_fuzzed_map[StateIndex(target)][q] = Reachable

(* cull_queue, run while target is the value of target_state_id            *)
CullQueue(target) ==
    IF ~score_changed
    THEN UNCHANGED <<favorVars, pending_favored, score_changed>>
    ELSE LET kept == {q \in favored : entry[q].is_initial_seed}
             winners == {top_rated[b] : b \in PickedBytes}
         IN  /\ score_changed' = FALSE
             /\ favored' = kept \cup winners
             /\ queued_favored' = Cardinality(PickedBytes)
             /\ pending_favored' =
                   Cardinality({b \in PickedBytes : CountsAsPending(top_rated[b], target)})
             /\ fs_redundant' = Queue \ favored'

(* Mutant: an entry fuzzed before is recorded again.                       *)
RecordsAgain(q, stop_soon) == ~stop_soon /\ q \notin cal_failed

(* The condition under which abandon_entry records the turn of q.          *)
RecordsTurn(q, stop_soon) ==
    ~stop_soon /\ q \notin cal_failed /\ q \notin was_fuzzed

(* abandon_entry of fuzz_one: what is recorded of q when its turn ends.    *)
AbandonEntry(q, stop_soon) ==
    IF RecordsTurn(q, stop_soon)
    THEN /\ was_fuzzed' = was_fuzzed \cup {q}
         /\ was_fuzzed_map' =
               [was_fuzzed_map EXCEPT ![StateIndex(target_state_id)][q] = Fuzzed]
         /\ pending_not_fuzzed' = Decrement(pending_not_fuzzed)
         /\ pending_favored' =
               IF q \in favored THEN Decrement(pending_favored) ELSE pending_favored
    ELSE UNCHANGED <<was_fuzzed, was_fuzzed_map, pending_not_fuzzed, pending_favored>>

-----------------------------------------------------------------------------

(* The corpus variables stay in their types.                               *)
CorpusTypeOK ==
    /\ queued_paths \in 0 .. MaxPaths
    /\ entry \in [Entries -> Entry]
    /\ was_fuzzed \subseteq Queue /\ cal_failed \subseteq Queue
    /\ favored \subseteq Queue /\ fs_redundant \subseteq Queue
    /\ top_rated \in [Bytes -> Queue \cup {NoEntry}]
    /\ tc_ref \in [Entries -> Nat]
    /\ trace_mini \in [Entries -> SUBSET Bytes]
    /\ score_changed \in BOOLEAN
    /\ queued_favored \in Nat
    /\ pending_favored \in 0 .. U32Max /\ pending_not_fuzzed \in 0 .. U32Max
    /\ state_ids \in Seq(StateIds) /\ target_state_id \in StateIds
    /\ was_fuzzed_map \in [Rows -> [Entries -> Cells]]
    /\ fuzzed_map_states \in 0 .. MaxRows
    /\ fuzzed_map_qentries \in 0 .. MaxPaths

(* The reference count that decides when update_bitmap_score frees a       *)
(* trace_mini is the number of slots the entry holds: never freed while    *)
(* cull_queue can still read it through top_rated, never leaked.           *)
RefCountExact ==
    \A q \in Entries : tc_ref[q] = Cardinality({b \in Bytes : top_rated[b] = q})

(* Whoever holds a slot has kept a trace that contains it, so cull_queue   *)
(* never dereferences a NULL trace_mini and every picked winner removes    *)
(* its own byte from temp_v; and no trace outlives its last slot.          *)
WinnerKeepsTrace ==
    /\ \A b \in Bytes : top_rated[b] # NoEntry => b \in trace_mini[top_rated[b]]
    /\ \A q \in Entries : tc_ref[q] = 0 => trace_mini[q] = {}

(* After a cull the favored entries cover every byte that any calibrated   *)
(* entry has touched.                                                      *)
FavoredCover ==
    ~score_changed =>
        \A b \in Bytes : top_rated[b] # NoEntry =>
            \E q \in favored : b \in trace_mini[q]

(* A trace is kept exactly as long as somebody may read it.                *)
TracesHeld == RefCountExact /\ WinnerKeepsTrace

(* was_fuzzed_map has one column per queue entry, at least one row once    *)
(* it exists and one row per state in state_ids: every index that          *)
(* cull_queue, choose_seed, abandon_entry and update_state_aware_variables *)
(* compute lies inside it, and exactly the cells inside it are allocated.  *)
MapDimensions ==
    /\ fuzzed_map_qentries = queued_paths
    /\ queued_paths > 0 => fuzzed_map_states >= 1
    /\ state_ids # <<>> => fuzzed_map_states = Len(state_ids)
    /\ \A r \in Rows, q \in Entries :
          (was_fuzzed_map[r][q] = Unallocated) <=>
              (r >= fuzzed_map_states \/ q >= fuzzed_map_qentries)

(* pending_not_fuzzed is the number of entries whose turn is still to be   *)
(* recorded: the increments of add_to_queue and the guarded decrement of   *)
(* abandon_entry stay in step.                                             *)
PendingExact == pending_not_fuzzed = queued_paths - Cardinality(was_fuzzed)

(* The map and the per-entry flag agree: an entry is marked was_fuzzed     *)
(* exactly if it was fuzzed for some state.  (Whether every state it was   *)
(* fuzzed for has its cell is EveryTurnKept of StateAware.)                *)
FuzzedForSomeState ==
    \A q \in Queue :
        q \in was_fuzzed <=> \E r \in Rows : was_fuzzed_map[r][q] = Fuzzed

(* The entries whose turn is over are the same in the counter, in the      *)
(* per-entry flag and in the map.                                          *)
TurnsRecorded == PendingExact /\ FuzzedForSomeState
=============================================================================
