-------------------------- MODULE StateAware_proofs --------------------------
(***************************************************************************)
(* Theorems about the state-aware loop, for every set of states and        *)
(* sessions and every bound.  IInv is the inductive invariant; most        *)
(* theorems are parts of it, the others follow at the end: a recorded turn *)
(* is recorded everywhere, the favored entries cover what the queue        *)
(* covers, the records of states and seeds agree, a turn has something to  *)
(* mutate, and which sessions let every seed stay one.                     *)
(***************************************************************************)
EXTENDS StateAware, FiniteSetTheorems, SequenceTheorems, WellFoundedInduction, TLAPS

-----------------------------------------------------------------------------
(* What the routines of Corpus preserve, whatever loop calls them          *)

Slots(x) == {b \in Bytes : top_rated[b] = x}

(* The rating variables are in their types, and their two records of who   *)
(* holds a slot agree.                                                     *)
RatingOK ==
    /\ top_rated \in [Bytes -> Entries \cup {NoEntry}]
    /\ tc_ref \in [Entries -> Nat]
    /\ trace_mini \in [Entries -> SUBSET Bytes]
    /\ score_changed \in BOOLEAN
    /\ RefCountExact
    /\ WinnerKeepsTrace

(* The bitmap is finite, and no set of bytes is larger than MAP_SIZE.      *)
LEMMA BytesFinite ==
    \A S \in SUBSET Bytes : /\ IsFiniteSet(S)
                            /\ Cardinality(S) \in 0 .. MapSize
<1>1. IsFiniteSet(Bytes) /\ Cardinality(Bytes) = MapSize
  BY CorpusAssumption, FS_Interval DEF Bytes
<1>2. TAKE S \in SUBSET Bytes
<1>3. IsFiniteSet(S) /\ Cardinality(S) <= Cardinality(Bytes)
  BY <1>1, FS_Subset
<1>4. Cardinality(S) \in Nat
  BY <1>3, FS_CardinalityType
<1> QED
  BY <1>1, <1>3, <1>4, CorpusAssumption

(* An entry that loses every slot it has: the count of the lost ones is    *)
(* its whole reference count exactly then.                                 *)
LEMMA LosesAll ==
    ASSUME NEW S \in SUBSET Bytes, NEW W \in SUBSET Bytes
    PROVE  /\ Cardinality(S \ W) = Cardinality(S) - Cardinality(S \cap W)
           /\ Cardinality(S) = Cardinality(S \cap W) => S \subseteq W
<1>1. IsFiniteSet(S) /\ IsFiniteSet(S \ W)
  BY BytesFinite
<1>2. Cardinality(S \ W) = Cardinality(S) - Cardinality(S \cap W)
  BY <1>1, FS_Difference
<1>3. Cardinality(S) \in Nat /\ Cardinality(S \cap W) \in Nat
  BY BytesFinite, CorpusAssumption
<1>4. Cardinality(S) = Cardinality(S \cap W) => S \ W = {}
  BY <1>1, <1>2, <1>3, FS_EmptySet
<1> QED
  BY <1>2, <1>4

(* Rating an entry that holds no slot yet keeps the reference counts exact *)
(* and every winner's trace in place.                                      *)
LEMMA UpdateBitmapScorePreserves ==
    ASSUME RatingOK, NEW q \in Entries, NEW factor, NEW trace \in SUBSET Bytes,
           \A b \in Bytes : top_rated[b] # q,
           UpdateBitmapScore(q, factor, trace)
    PROVE  RatingOK'
<1> DEFINE won == {b \in trace : \/ top_rated[b] = NoEntry
                                 \/ ~LeavesSlot(q, factor, top_rated[b])}
           gained(x) == IF x = q THEN Cardinality(won) ELSE 0
           trace_of(x) == IF FreesTrace(x, won) THEN {} ELSE trace_mini[x]
<1>1. won \in SUBSET Bytes
  OBVIOUS
<1>2. /\ top_rated' = [b \in Bytes |-> IF b \in won THEN q ELSE top_rated[b]]
      /\ tc_ref' = [x \in Entries |-> tc_ref[x] - SlotsLost(x, won) + gained(x)]
      /\ trace_mini' = [x \in Entries |->
            IF x = q /\ won # {} /\ trace_of(x) = {} THEN trace ELSE trace_of(x)]
      /\ score_changed' = (score_changed \/ won # {})
  BY DEF UpdateBitmapScore
<1> HIDE DEF won
<1>3. NoEntry \notin Entries
  BY DEF NoEntry, Entries
<1>4. ASSUME NEW x \in Entries
      PROVE  /\ Slots(x) \in SUBSET Bytes
             /\ tc_ref[x] = Cardinality(Slots(x))
             /\ SlotsLost(x, won) = Cardinality(Slots(x) \cap won)
             /\ Cardinality(Slots(x) \ won) = tc_ref[x] - SlotsLost(x, won)
             /\ tc_ref[x] \in Nat /\ SlotsLost(x, won) \in Nat
             /\ Cardinality(Slots(x) \ won) \in Nat
  <2>1. Slots(x) \in SUBSET Bytes
    BY DEF Slots
  <2>2. tc_ref[x] = Cardinality(Slots(x))
    BY DEF RatingOK, RefCountExact, Slots
  <2>3. Slots(x) \cap won = {b \in won : top_rated[b] = x}
    BY <1>1 DEF Slots
  <2>4. SlotsLost(x, won) = Cardinality(Slots(x) \cap won)
    BY <2>3 DEF SlotsLost
  <2>5. Cardinality(Slots(x) \ won) = tc_ref[x] - SlotsLost(x, won)
    BY <1>1, <2>1, <2>2, <2>4, LosesAll
  <2>6. /\ Slots(x) \ won \in SUBSET Bytes
        /\ Slots(x) \cap won \in SUBSET Bytes
    BY <1>1, <2>1
  <2>7. \A S \in SUBSET Bytes : Cardinality(S) \in Nat
    BY BytesFinite, CorpusAssumption
  <2> QED
    BY <2>1, <2>2, <2>4, <2>5, <2>6, <2>7
<1>5. /\ tc_ref[q] = 0 /\ trace_mini[q] = {}
      /\ SlotsLost(q, won) = 0 /\ trace_of(q) = {}
  <2>1. Slots(q) = {}
    BY DEF Slots
  <2>2. tc_ref[q] = 0 /\ SlotsLost(q, won) = 0
    BY <1>4, <2>1, FS_EmptySet
  <2> QED
    BY <2>2 DEF RatingOK, WinnerKeepsTrace, FreesTrace
<1>6. Cardinality(won) \in Nat /\ (Cardinality(won) = 0 => won = {})
  BY <1>1, BytesFinite, FS_EmptySet
<1>7. ASSUME NEW x \in Entries, x # q
       PROVE  tc_ref'[x] = tc_ref[x] - SlotsLost(x, won)
  <2>1. tc_ref'[x] = tc_ref[x] - SlotsLost(x, won) + gained(x)
    BY <1>2
  <2>2. gained(x) = 0
    BY <1>7
  <2>3. tc_ref[x] \in Nat /\ SlotsLost(x, won) \in Nat
    BY <1>4
  <2> HIDE DEF gained
  <2> QED
    BY <2>1, <2>2, <2>3
<1>8. ASSUME NEW x \in Entries
      PROVE  /\ tc_ref'[x] \in Nat
             /\ tc_ref'[x] = Cardinality({b \in Bytes : top_rated'[b] = x})
  <2>1. CASE x = q
    <3>1. {b \in Bytes : top_rated'[b] = q} = won
      BY <1>1, <1>2
    <3>2. tc_ref'[q] = tc_ref[q] - SlotsLost(q, won) + gained(q)
      BY <1>2
    <3>3. gained(q) = Cardinality(won)
      OBVIOUS
    <3> HIDE DEF gained
    <3>4. tc_ref'[q] = Cardinality(won)
      BY <1>5, <1>6, <3>2, <3>3
    <3> QED
      BY <1>6, <2>1, <3>1, <3>4
  <2>2. CASE x # q
    <3>1. {b \in Bytes : top_rated'[b] = x} = Slots(x) \ won
      BY <1>1, <1>2, <2>2 DEF Slots
    <3> QED
      BY <1>4, <2>2, <3>1, <1>7
  <2> QED
    BY <2>1, <2>2
<1>9. ASSUME NEW x \in Entries
      PROVE  /\ trace_mini'[x] \in SUBSET Bytes
             /\ tc_ref'[x] = 0 => trace_mini'[x] = {}
  <2>1. CASE x = q
    BY <1>2, <1>5, <1>6, <2>1
  <2>2. CASE x # q
    <3>1. tc_ref'[x] = tc_ref[x] - SlotsLost(x, won)
      BY <1>7, <2>2
    <3>2. trace_mini'[x] = trace_of(x)
      BY <1>2, <2>2
    <3>3. trace_mini[x] \in SUBSET Bytes /\ (tc_ref[x] = 0 => trace_mini[x] = {})
      BY DEF RatingOK, WinnerKeepsTrace
    <3>4. CASE FreesTrace(x, won)
      BY <3>2, <3>4
    <3>5. CASE ~FreesTrace(x, won)
      <4>1. trace_mini'[x] = trace_mini[x]
        BY <3>2, <3>5
      <4>2. tc_ref[x] \in Nat /\ SlotsLost(x, won) \in Nat
        BY <1>4
      <4>3. SlotsLost(x, won) = 0 \/ tc_ref[x] # SlotsLost(x, won)
        BY <3>5, <4>2 DEF FreesTrace
      <4>4. tc_ref'[x] = 0 => tc_ref[x] = 0
        BY <3>1, <4>2, <4>3
      <4> QED
        BY <3>3, <4>1, <4>4
    <3> QED
      BY <3>4, <3>5
  <2> QED
    BY <2>1, <2>2
<1>10. ASSUME NEW b \in Bytes, top_rated'[b] # NoEntry
      PROVE  b \in trace_mini'[top_rated'[b]]
  <2>1. CASE b \in won
    BY <1>2, <1>5, <2>1 DEF won
  <2>2. CASE b \notin won
    <3>1. top_rated'[b] = top_rated[b] /\ top_rated[b] \in Entries \ {q}
      BY <1>2, <1>10, <2>2 DEF RatingOK
    <3> DEFINE x == top_rated[b]
    <3>2. ~FreesTrace(x, won)
      <4>1. b \in Slots(x) /\ b \notin won
        BY <2>2 DEF Slots
      <4>2. Cardinality(Slots(x)) # Cardinality(Slots(x) \cap won)
        BY <1>1, <1>4, <3>1, <4>1, LosesAll
      <4> QED
        BY <1>4, <3>1, <4>2 DEF FreesTrace
    <3>3. trace_mini'[x] = trace_mini[x]
      BY <1>2, <3>1, <3>2
    <3>4. b \in trace_mini[x]
      BY <3>1 DEF RatingOK, WinnerKeepsTrace, NoEntry, Entries
    <3> QED
      BY <3>1, <3>3, <3>4
  <2> QED
    BY <2>1, <2>2
<1>11. top_rated' \in [Bytes -> Entries \cup {NoEntry}]
  BY <1>2 DEF RatingOK
<1>12. tc_ref' \in [Entries -> Nat] /\ trace_mini' \in [Entries -> SUBSET Bytes]
  BY <1>2, <1>8, <1>9
<1>13. score_changed' \in BOOLEAN
  BY <1>2
<1> QED
  BY <1>8, <1>9, <1>10, <1>11, <1>12, <1>13 DEF RatingOK, RefCountExact, WinnerKeepsTrace

(***************************************************************************)
(* was_fuzzed_map                                                          *)
(***************************************************************************)

(* A non-empty set of natural numbers has a least element.                 *)
LEMMA LeastElement ==
    ASSUME NEW T \in SUBSET Nat, T # {}
    PROVE  \E m \in T : \A k \in T : m <= k
<1> DEFINE R == {ss \in Nat \X Nat : ss[1] < ss[2]}
<1>1. IsWellFoundedOn(R, Nat)
  BY NatLessThanWellFounded DEF OpToRel
<1> HIDE DEF R
<1>2. PICK m \in T : \A k \in T : ~(<<k, m>> \in R)
  BY <1>1, WFMin
<1>3. \A k \in T : ~(k < m)
  BY <1>2 DEF R
<1> QED
  BY <1>3

(* get_state_index answers with a position of the state, or with the       *)
(* number of states when there is none.                                    *)
LEMMA StateIndexCorrect ==
    ASSUME state_ids \in Seq(StateIds), NEW id
    PROVE  /\ StateIndex(id) \in 0 .. Len(state_ids)
           /\ (\E i \in 1 .. Len(state_ids) : state_ids[i] = id)
                => /\ StateIndex(id) < Len(state_ids)
                   /\ state_ids[StateIndex(id) + 1] = id
           /\ (\A i \in 1 .. Len(state_ids) : state_ids[i] # id)
                => StateIndex(id) = Len(state_ids)
<1> DEFINE at == {i \in 1 .. Len(state_ids) : state_ids[i] = id}
           least == CHOOSE i \in at : \A j \in at : i <= j
<1>1. Len(state_ids) \in Nat
  BY LenProperties
<1>2. StateIndex(id) = IF at = {} THEN Len(state_ids) ELSE least - 1
  BY DEF StateIndex
<1>3. ASSUME at # {} PROVE least \in at
  <2>1. at \in SUBSET Nat
    OBVIOUS
  <2>2. \E m \in at : \A j \in at : m <= j
    BY <1>3, <2>1, LeastElement
  <2> QED
    BY <2>2
<1> HIDE DEF least
<1> QED
  BY <1>1, <1>2, <1>3

(* The cells inside the given dimensions are allocated, and no others.     *)
AllocatedExactly(map, states, qentries) ==
    \A r \in Rows, q \in Entries :
        (map[r][q] = Unallocated) <=> (r >= states \/ q >= qentries)

(* expand_was_fuzzed_map allocates the new cells and keeps the old ones.   *)
LEMMA ExpandedMapCorrect ==
    ASSUME was_fuzzed_map \in [Rows -> [Entries -> Cells]],
           NEW new_states \in Nat, NEW new_qentries \in Nat,
           fuzzed_map_states \in Nat, fuzzed_map_qentries \in Nat,
           AllocatedExactly(was_fuzzed_map, fuzzed_map_states, fuzzed_map_qentries)
    PROVE  /\ ExpandedMap(new_states, new_qentries) \in [Rows -> [Entries -> Cells]]
           /\ AllocatedExactly(ExpandedMap(new_states, new_qentries),
                               fuzzed_map_states + new_states,
                               fuzzed_map_qentries + new_qentries)
           /\ \A r \in Rows, q \in Entries :
                 /\ was_fuzzed_map[r][q] <= ExpandedMap(new_states, new_qentries)[r][q]
                 /\ ExpandedMap(new_states, new_qentries)[r][q] = Fuzzed
                       => was_fuzzed_map[r][q] = Fuzzed
<1> DEFINE M == ExpandedMap(new_states, new_qentries)
<1>1. \A r \in Rows, q \in Entries : r \in Nat /\ q \in Nat
  BY CorpusAssumption DEF Rows, Entries
<1>2. ASSUME NEW r \in Rows, NEW q \in Entries
      PROVE  M[r][q] = IF /\ r < fuzzed_map_states + new_states
                          /\ q < fuzzed_map_qentries + new_qentries
                          /\ r >= fuzzed_map_states \/ q >= fuzzed_map_qentries
                       THEN Unreachable ELSE was_fuzzed_map[r][q]
  BY DEF ExpandedMap
<1>3. ASSUME NEW r \in Rows, NEW q \in Entries
      PROVE  was_fuzzed_map[r][q] \in Cells
  OBVIOUS
<1>4. M \in [Rows -> [Entries -> Cells]]
  BY <1>3 DEF ExpandedMap, Cells
<1> HIDE DEF M
<1>5. AllocatedExactly(M, fuzzed_map_states + new_states,
                       fuzzed_map_qentries + new_qentries)
  BY <1>1, <1>2 DEF AllocatedExactly, Unallocated, Unreachable
<1>6. ASSUME NEW r \in Rows, NEW q \in Entries
      PROVE  /\ was_fuzzed_map[r][q] <= M[r][q]
             /\ M[r][q] = Fuzzed => was_fuzzed_map[r][q] = Fuzzed
  <2>1. M[r][q] = was_fuzzed_map[r][q]
        \/ (M[r][q] = Unreachable /\ was_fuzzed_map[r][q] = Unallocated)
    BY <1>1, <1>2 DEF AllocatedExactly
  <2> QED
    BY <1>3, <2>1 DEF Cells, Unallocated, Unreachable, Reachable, Fuzzed
<1> QED
  BY <1>4, <1>5, <1>6 DEF M

(***************************************************************************)
(* The queue, the cull and the end of a turn                               *)
(***************************************************************************)

(* A set of queue entries is finite and no larger than the queue.          *)
LEMMA QueueFinite ==
    ASSUME queued_paths \in Nat
    PROVE  \A S \in SUBSET Queue : /\ IsFiniteSet(S)
                                   /\ Cardinality(S) \in 0 .. queued_paths
<1>1. IsFiniteSet(Queue) /\ Cardinality(Queue) = queued_paths
  BY FS_Interval DEF Queue
<1>2. TAKE S \in SUBSET Queue
<1>3. IsFiniteSet(S) /\ Cardinality(S) <= Cardinality(Queue)
  BY <1>1, FS_Subset
<1> QED
  BY <1>1, <1>3, FS_CardinalityType

(* add_to_queue gives the entry its number, its column of the map and its  *)
(* place in the count of pending entries.                                  *)
LEMMA AddToQueueCorrect ==
    ASSUME CorpusTypeOK, MapDimensions, PendingExact, NEW n \in Nat, AddToQueue(n)
    PROVE  /\ queued_paths \in Entries
           /\ queued_paths' = queued_paths + 1 /\ queued_paths' \in 1 .. MaxPaths
           /\ Queue \subseteq Queue'
           /\ entry' \in [Entries -> Entry]
           /\ entry'[queued_paths].is_initial_seed = FALSE
           /\ pending_not_fuzzed' \in 0 .. U32Max
           /\ pending_not_fuzzed' = queued_paths' - Cardinality(was_fuzzed)
           /\ was_fuzzed_map' \in [Rows -> [Entries -> Cells]]
           /\ fuzzed_map_qentries' = queued_paths'
           /\ fuzzed_map_states' \in 1 .. MaxRows
           /\ fuzzed_map_states' = IF queued_paths = 0 /\ fuzzed_map_states = 0
                                   THEN 1 ELSE fuzzed_map_states
           /\ AllocatedExactly(was_fuzzed_map', fuzzed_map_states', fuzzed_map_qentries')
           /\ \A r \in Rows, q \in Entries :
                 /\ was_fuzzed_map[r][q] <= was_fuzzed_map'[r][q]
                 /\ was_fuzzed_map'[r][q] = Fuzzed => was_fuzzed_map[r][q] = Fuzzed
<1> DEFINE new_states == IF fuzzed_map_states = 0 THEN 1 ELSE 0
           blank == [BlankEntry EXCEPT !.generating_state_id = target_state_id,
                                       !.regions = [i \in 1 .. n |-> Unannotated]]
<1>1. /\ queued_paths < MaxPaths
      /\ entry' = [entry EXCEPT ![queued_paths] = blank]
      /\ queued_paths' = queued_paths + 1
      /\ pending_not_fuzzed' = pending_not_fuzzed + 1
      /\ was_fuzzed_map' = ExpandedMap(new_states, 1)
      /\ fuzzed_map_states' = fuzzed_map_states + new_states
      /\ fuzzed_map_qentries' = fuzzed_map_qentries + 1
  BY DEF AddToQueue
<1>2. /\ queued_paths \in Nat /\ MaxPaths \in Nat /\ MaxRows \in Nat /\ MaxRows > 0
      /\ U32Max \in Nat /\ U32Max >= MaxPaths
      /\ fuzzed_map_states \in 0 .. MaxRows
  BY CorpusAssumption DEF CorpusTypeOK
<1>3. queued_paths \in Entries /\ queued_paths' \in 1 .. MaxPaths /\ Queue \subseteq Queue'
  BY <1>1, <1>2 DEF Entries, Queue
<1>4. blank \in Entry /\ blank.is_initial_seed = FALSE
  <2>1. Unannotated \in Region
    BY CorpusAssumption DEF Unannotated, Region
  <2>2. [i \in 1 .. n |-> Unannotated] \in Seq(Region)
    BY <2>1
  <2> QED
    BY <2>2, CorpusAssumption DEF BlankEntry, Entry, CorpusTypeOK
<1> HIDE DEF blank
<1>5. entry' \in [Entries -> Entry] /\ entry'[queued_paths].is_initial_seed = FALSE
  BY <1>1, <1>3, <1>4 DEF CorpusTypeOK
<1>6. /\ pending_not_fuzzed' = queued_paths' - Cardinality(was_fuzzed)
      /\ pending_not_fuzzed' \in 0 .. U32Max
  <2>1. Cardinality(was_fuzzed) \in 0 .. queued_paths
    BY <1>2, QueueFinite DEF CorpusTypeOK
  <2> QED
    BY <1>1, <1>2, <2>1 DEF PendingExact
<1>7. /\ was_fuzzed_map' \in [Rows -> [Entries -> Cells]]
      /\ AllocatedExactly(was_fuzzed_map', fuzzed_map_states', fuzzed_map_qentries')
      /\ \A r \in Rows, q \in Entries :
            /\ was_fuzzed_map[r][q] <= was_fuzzed_map'[r][q]
            /\ was_fuzzed_map'[r][q] = Fuzzed => was_fuzzed_map[r][q] = Fuzzed
  <2> DEFINE one == 1
  <2>1. new_states \in Nat /\ one \in Nat
    OBVIOUS
  <2>2. /\ was_fuzzed_map \in [Rows -> [Entries -> Cells]]
        /\ fuzzed_map_states \in Nat /\ fuzzed_map_qentries \in Nat
    BY CorpusAssumption DEF CorpusTypeOK
  <2>3. AllocatedExactly(was_fuzzed_map, fuzzed_map_states, fuzzed_map_qentries)
    BY DEF MapDimensions, AllocatedExactly
  <2>4. /\ was_fuzzed_map' = ExpandedMap(new_states, one)
        /\ fuzzed_map_states' = fuzzed_map_states + new_states
        /\ fuzzed_map_qentries' = fuzzed_map_qentries + one
    BY <1>1
  <2> HIDE DEF new_states, one
  <2>5. /\ ExpandedMap(new_states, one) \in [Rows -> [Entries -> Cells]]
        /\ AllocatedExactly(ExpandedMap(new_states, one),
                            fuzzed_map_states + new_states, fuzzed_map_qentries + one)
        /\ \A r \in Rows, q \in Entries :
              /\ was_fuzzed_map[r][q] <= ExpandedMap(new_states, one)[r][q]
              /\ ExpandedMap(new_states, one)[r][q] = Fuzzed
                    => was_fuzzed_map[r][q] = Fuzzed
    BY <2>1, <2>2, <2>3, ExpandedMapCorrect
  <2> QED
    BY <2>4, <2>5
<1>8. /\ fuzzed_map_qentries' = queued_paths'
      /\ fuzzed_map_states' \in 1 .. MaxRows
      /\ fuzzed_map_states' = IF queued_paths = 0 /\ fuzzed_map_states = 0
                              THEN 1 ELSE fuzzed_map_states
  BY <1>1, <1>2 DEF MapDimensions
<1> QED
  BY <1>1, <1>3, <1>5, <1>6, <1>7, <1>8

(* cull_queue favors queue entries only, and its counters fit their type.  *)
LEMMA CullQueueCorrect ==
    ASSUME CorpusTypeOK, NEW target, CullQueue(target)
    PROVE  /\ favored' \subseteq Queue /\ fs_redundant' \subseteq Queue
           /\ score_changed' \in BOOLEAN
           /\ queued_favored' \in Nat /\ pending_favored' \in 0 .. U32Max
<1>1. CASE ~score_changed
  BY <1>1 DEF CullQueue, CorpusTypeOK, favorVars
<1>2. CASE score_changed
  <2>1. \A b \in PickedBytes : b \in Bytes /\ top_rated[b] \in Queue
    BY DEF PickedBytes, CorpusTypeOK
  <2> DEFINE pending == {b \in PickedBytes : CountsAsPending(top_rated[b], target)}
  <2>2. PickedBytes \in SUBSET Bytes /\ pending \in SUBSET Bytes
    BY <2>1
  <2>3. /\ score_changed' = FALSE
        /\ favored' = {q \in favored : entry[q].is_initial_seed}
                          \cup {top_rated[b] : b \in PickedBytes}
        /\ queued_favored' = Cardinality(PickedBytes)
        /\ pending_favored' = Cardinality(pending)
        /\ fs_redundant' = Queue \ favored'
    BY <1>2 DEF CullQueue
  <2> HIDE DEF pending
  <2>4. queued_favored' \in Nat /\ pending_favored' \in 0 .. U32Max
    BY <2>2, <2>3, BytesFinite, CorpusAssumption
  <2>5. favored' \subseteq Queue
    BY <2>1, <2>3 DEF CorpusTypeOK
  <2> QED
    BY <2>3, <2>4, <2>5
<1> QED
  BY <1>1, <1>2

(* abandon_entry: the count of pending entries follows was_fuzzed, and     *)
(* only the cell of the entry in the row of the target may change.         *)
LEMMA AbandonEntryCorrect ==
    ASSUME CorpusTypeOK, MapDimensions, PendingExact,
           NEW q \in Queue,
           StateIndex(target_state_id) \in Nat,
           StateIndex(target_state_id) < fuzzed_map_states,
           AbandonEntry(q, FALSE)
    PROVE  /\ was_fuzzed \subseteq was_fuzzed' /\ was_fuzzed' \subseteq Queue
           /\ pending_not_fuzzed' \in 0 .. U32Max /\ pending_favored' \in 0 .. U32Max
           /\ pending_not_fuzzed' = queued_paths - Cardinality(was_fuzzed')
           /\ was_fuzzed_map' \in [Rows -> [Entries -> Cells]]
           /\ AllocatedExactly(was_fuzzed_map', fuzzed_map_states, fuzzed_map_qentries)
           /\ \A r \in Rows, c \in Entries :
                 /\ was_fuzzed_map[r][c] <= was_fuzzed_map'[r][c]
                 /\ was_fuzzed_map'[r][c] = Fuzzed =>
                       was_fuzzed_map[r][c] = Fuzzed \/ c \in was_fuzzed'
<1>1. /\ was_fuzzed_map \in [Rows -> [Entries -> Cells]]
      /\ AllocatedExactly(was_fuzzed_map, fuzzed_map_states, fuzzed_map_qentries)
  BY DEF CorpusTypeOK, MapDimensions, AllocatedExactly
<1>2. \A r \in Rows, c \in Entries : was_fuzzed_map[r][c] \in Cells
  BY <1>1
<1>3. \A v \in Cells : v \in Int /\ v <= Fuzzed
  BY DEF Cells, Unallocated, Unreachable, Reachable, Fuzzed
<1>4. CASE ~RecordsTurn(q, FALSE)
  BY <1>1, <1>2, <1>3, <1>4 DEF AbandonEntry, CorpusTypeOK, PendingExact
<1>5. CASE RecordsTurn(q, FALSE)
  <2> DEFINE row == StateIndex(target_state_id)
  <2>1. /\ was_fuzzed' = was_fuzzed \cup {q}
        /\ was_fuzzed_map' = [was_fuzzed_map EXCEPT ![row][q] = Fuzzed]
        /\ pending_not_fuzzed' = Decrement(pending_not_fuzzed)
        /\ pending_favored' =
              IF q \in favored THEN Decrement(pending_favored) ELSE pending_favored
    BY <1>5 DEF AbandonEntry
  <2>2. q \in Queue /\ q \notin was_fuzzed
    BY <1>5 DEF RecordsTurn
  <2>3. /\ fuzzed_map_states \in 0 .. MaxRows /\ fuzzed_map_qentries = queued_paths
        /\ queued_paths \in 0 .. MaxPaths /\ MaxRows \in Nat /\ MaxPaths \in Nat
        /\ U32Max \in Nat /\ U32Max >= MaxPaths
    BY CorpusAssumption DEF CorpusTypeOK, MapDimensions
  <2>4. row \in Rows /\ q \in Entries /\ q < fuzzed_map_qentries /\ row < fuzzed_map_states
    BY <2>2, <2>3 DEF Rows, Entries, Queue
  <2> HIDE DEF row
  <2>5. Fuzzed \in Cells \ {Unallocated}
    BY DEF Cells, Fuzzed, Unallocated
  <2>6. fuzzed_map_states \in Nat /\ fuzzed_map_qentries \in Nat
    BY <2>3
  <2>7. /\ was_fuzzed_map' \in [Rows -> [Entries -> Cells]]
        /\ AllocatedExactly(was_fuzzed_map', fuzzed_map_states, fuzzed_map_qentries)
        /\ \A r \in Rows, c \in Entries :
              was_fuzzed_map'[r][c] = IF r = row /\ c = q THEN Fuzzed ELSE was_fuzzed_map[r][c]
    <3>1. was_fuzzed_map' \in [Rows -> [Entries -> Cells]]
      BY <1>1, <2>1, <2>4, <2>5
    <3>2. \A r \in Rows, c \in Entries :
             was_fuzzed_map'[r][c] = IF r = row /\ c = q THEN Fuzzed ELSE was_fuzzed_map[r][c]
      BY <1>1, <2>1, <2>4
    <3>3. AllocatedExactly(was_fuzzed_map', fuzzed_map_states, fuzzed_map_qentries)
      <4>1. \A r \in Rows, c \in Entries :
               (was_fuzzed_map[r][c] = Unallocated) <=> (r >= fuzzed_map_states \/ c >= fuzzed_map_qentries)
        BY <1>1 DEF AllocatedExactly
      <4>2. ~(row >= fuzzed_map_states) /\ ~(q >= fuzzed_map_qentries) /\ Fuzzed # Unallocated
        BY <2>3, <2>4, <2>5 DEF Rows, Entries
      <4> QED
        BY <3>2, <4>1, <4>2 DEF AllocatedExactly
    <3> QED
      BY <3>1, <3>2, <3>3
  <2>8. /\ Cardinality(was_fuzzed') = Cardinality(was_fuzzed) + 1
        /\ Cardinality(was_fuzzed) \in Nat
        /\ Cardinality(was_fuzzed') <= queued_paths
    <3>1. was_fuzzed \in SUBSET Queue /\ was_fuzzed' \in SUBSET Queue
      BY <2>1, <2>2 DEF CorpusTypeOK
    <3>2. /\ IsFiniteSet(was_fuzzed) /\ Cardinality(was_fuzzed) \in Nat
          /\ Cardinality(was_fuzzed') <= queued_paths
      BY <2>3, <3>1, QueueFinite
    <3> QED
      BY <2>1, <2>2, <3>2, FS_AddElement
  <2>9. /\ pending_not_fuzzed' = queued_paths - Cardinality(was_fuzzed')
        /\ pending_not_fuzzed' \in 0 .. U32Max
    BY <2>1, <2>3, <2>8 DEF PendingExact, Decrement
  <2>10. pending_favored' \in 0 .. U32Max
    BY <2>1, <2>3 DEF CorpusTypeOK, Decrement
  <2> QED
    BY <1>2, <1>3, <2>1, <2>2, <2>7, <2>9, <2>10 DEF CorpusTypeOK
<1> QED
  BY <1>4, <1>5

(* calibrate_case rates the entry, or marks it as failed; its initial-seed *)
(* flag is the one to store, and slots change hands to it alone.           *)
LEMMA CalibrateCaseCorrect ==
    ASSUME CorpusTypeOK, RatingOK, NEW q \in Queue, NEW fields \in Entry,
           NEW fav_factor \in Nat, NEW shown, shown.trace \in SUBSET Bytes,
           shown.fav_factor = fav_factor,
           \A b \in Bytes : top_rated[b] # q,
           NEW ok \in BOOLEAN, CalibrateCase(q, fields, shown, ok)
    PROVE  /\ RatingOK'
           /\ cal_failed' \subseteq Queue
           /\ entry' \in [Entries -> Entry]
           /\ entry'[q].is_initial_seed = fields.is_initial_seed
           /\ top_rated' \in [Bytes -> Queue \cup {NoEntry}]
           /\ \A b \in Bytes : top_rated'[b] \in {q, top_rated[b]}
<1>1. q \in Entries
  BY CorpusAssumption, SMTT(30) DEF CorpusTypeOK, Queue, Entries
<1>2. CASE ok
  <2>1. /\ cal_failed' = cal_failed \ {q}
        /\ entry' = [entry EXCEPT ![q] = [fields EXCEPT !.fav_factor = fav_factor]]
        /\ UpdateBitmapScore(q, fav_factor, shown.trace)
    BY <1>2 DEF CalibrateCase
  <2>2. RatingOK'
    BY <1>1, <2>1, UpdateBitmapScorePreserves
  <2>3. \A b \in Bytes : top_rated'[b] \in {q, top_rated[b]}
    BY <2>1 DEF UpdateBitmapScore
  <2>4. /\ entry' \in [Entries -> Entry]
        /\ entry'[q].is_initial_seed = fields.is_initial_seed
    BY <1>1, <2>1 DEF CorpusTypeOK, Entry
  <2>5. top_rated' \in [Bytes -> Queue \cup {NoEntry}]
    BY <2>2, <2>3 DEF CorpusTypeOK, RatingOK
  <2> QED
    BY <2>1, <2>2, <2>3, <2>4, <2>5 DEF CorpusTypeOK
<1>3. CASE ~ok
  <2>1. /\ cal_failed' = cal_failed \cup {q}
        /\ entry' = [entry EXCEPT ![q] = fields]
        /\ UNCHANGED ratingVars
    BY <1>3 DEF CalibrateCase
  <2>2. RatingOK'
    BY <2>1 DEF ratingVars, RatingOK, RefCountExact, WinnerKeepsTrace
  <2> QED
    BY <1>1, <2>1, <2>2 DEF CorpusTypeOK, ratingVars
<1> QED
  BY <1>2, <1>3

-----------------------------------------------------------------------------
(* The loop                                                                *)

Observing == {"observe", "ipsm", "annotate", "regions"}

(* Where the program is, and what that says of cur, pos and the table.     *)
ControlOK ==
    /\ phase = "read" => cur = 0
    /\ phase # "read" => queued_paths > 0
    /\ phase \in Observing \cup {"dry_run", "calibrate"} => cur \in Queue
    /\ phase = "ipsm" => /\ pos \in 1 .. Len(session.codes)
                         /\ pos > 1 => state_ids # <<>>
    /\ phase \in {"annotate", "regions"} => pos >= 1
    /\ phase = "regions" => state_ids # <<>>
    /\ phase \in {"select", "fuzz", "calibrate"} => state_ids # <<>>
    /\ phase \in Observing /\ ~entry[cur].is_initial_seed => state_ids # <<>>
    /\ phase = "fuzz" => queue_cur # NoEntry
    /\ queue_cur # NoEntry => target_state_id \in khms_states

(* An entry is rated once: until then it holds no slot of the bitmap, and  *)
(* no turn of it is recorded.                                              *)
RatedOnce ==
    /\ phase \in {"read", "dry_run"} => was_fuzzed = {}
    /\ phase = "read" => \A b \in Bytes : top_rated[b] = NoEntry
    /\ phase = "dry_run" => \A b \in Bytes : top_rated[b] < cur
    /\ phase \in Observing /\ entry[cur].is_initial_seed =>
          was_fuzzed = {} /\ \A b \in Bytes : top_rated[b] <= cur
    /\ \/ phase \in Observing /\ ~entry[cur].is_initial_seed
       \/ phase = "calibrate"
       => cur \notin was_fuzzed /\ \A b \in Bytes : top_rated[b] < cur

(* The table of states, state_ids and the nodes of the IPSM.               *)
TableOK ==
    /\ khms_states = Range1(state_ids)
    /\ InitialStateFirst
    /\ state_ids # <<>> <=> 0 \in ipsm
    /\ state_ids = <<>> => ipsm = {}

FuzzedIsRecorded ==
    \A r \in Rows, q \in Entries : was_fuzzed_map[r][q] = Fuzzed => q \in was_fuzzed

(* No row but that of state 0 comes before the first state does.           *)
FirstRow == state_ids = <<>> => fuzzed_map_states \in {0, 1}

(* A cursor over an empty list stands at its first element to come.        *)
CursorStart ==
    /\ state_ids = <<>> => selected_state_index = 0
    /\ \A s \in StateIds : seeds[s] = <<>> => selected_seed_index[s] = 0

IInv ==
    /\ TypeOK /\ RefCountExact /\ WinnerKeepsTrace
    /\ MapDimensions /\ FirstRow /\ PendingExact
    /\ CursorsInRange /\ CursorStart /\ ControlOK /\ RatedOnce /\ TableOK
    /\ FuzzedIsRecorded

-----------------------------------------------------------------------------

(* A session is made of states, regions and bytes of the bitmap.          *)
LEMMA SessionTyped ==
    ASSUME NEW s \in Sessions \cup {NoSession}
    PROVE  /\ s.codes \in Seq(StateIds) /\ s.regions \in Seq(Region)
           /\ s.trace \in SUBSET Bytes /\ s.fav_factor \in Nat
           /\ s.codes # <<>> => s.codes[1] = 0
<1>1. CASE s \in Sessions
  BY <1>1, StateAwareAssumption DEF Session
<1>2. CASE s = NoSession
  <2>1. s.codes = <<>> /\ s.regions = <<>> /\ s.trace = {} /\ s.fav_factor = 0
    BY <1>2 DEF NoSession
  <2> QED
    BY <2>1
<1> QED
  BY <1>1, <1>2

(* The rating variables in the terms of the lemmas about the corpus.       *)
LEMMA IInvRating == IInv => RatingOK
<1>1. ASSUME IInv PROVE Queue \subseteq Entries
  BY <1>1, CorpusAssumption DEF IInv, TypeOK, CorpusTypeOK, Queue, Entries
<1> QED
  BY <1>1 DEF IInv, TypeOK, CorpusTypeOK, RatingOK

(* The map in the terms of the lemmas about the corpus.                   *)
LEMMA IInvMap ==
    ASSUME IInv
    PROVE  /\ was_fuzzed_map \in [Rows -> [Entries -> Cells]]
           /\ fuzzed_map_states \in 0 .. MaxRows
           /\ fuzzed_map_qentries \in 0 .. MaxPaths
           /\ AllocatedExactly(was_fuzzed_map, fuzzed_map_states, fuzzed_map_qentries)
BY DEF IInv, TypeOK, CorpusTypeOK, MapDimensions, AllocatedExactly

-----------------------------------------------------------------------------

(* The invariant holds before the first test case is read.                *)
LEMMA InitIInv == Init => IInv
<1> SUFFICES ASSUME Init PROVE IInv
  OBVIOUS
<1> USE CorpusAssumption, StateAwareAssumption DEF Init, CorpusInit
<1>1. TypeOK
  <2>1. CorpusTypeOK
    <3>1. BlankEntry \in Entry
      BY DEF BlankEntry, Entry
    <3>2. entry \in [Entries -> Entry]
      BY <3>1
    <3>3. /\ top_rated \in [Bytes -> Queue \cup {NoEntry}]
          /\ tc_ref \in [Entries -> Nat] /\ trace_mini \in [Entries -> SUBSET Bytes]
      OBVIOUS
    <3>4. was_fuzzed_map \in [Rows -> [Entries -> Cells]]
      BY DEF Cells
    <3>5. state_ids \in Seq(StateIds) /\ target_state_id \in StateIds
      OBVIOUS
    <3>6. /\ was_fuzzed \subseteq Queue /\ cal_failed \subseteq Queue
          /\ favored \subseteq Queue /\ fs_redundant \subseteq Queue
      OBVIOUS
    <3>7. /\ queued_paths \in 0 .. MaxPaths /\ score_changed \in BOOLEAN
          /\ queued_favored \in Nat /\ pending_favored \in 0 .. U32Max
          /\ pending_not_fuzzed \in 0 .. U32Max
          /\ fuzzed_map_states \in 0 .. MaxRows /\ fuzzed_map_qentries \in 0 .. MaxPaths
      OBVIOUS
    <3> HIDE DEF Init, CorpusInit
    <3> QED
      BY <3>2, <3>3, <3>4, <3>5, <3>6, <3>7 DEF CorpusTypeOK
  <2>2. options \in Selections
    BY DEF options
  <2>3. phase \in Phases /\ cur \in Entries
    BY DEF Phases, Entries
  <2>4. /\ seeds \in [StateIds -> Seq(Queue)] /\ selected_seed_index \in [StateIds -> Nat]
        /\ state_cycles \in 0 .. WarmupCycles
    OBVIOUS
  <2> QED
    BY <2>1, <2>2, <2>3, <2>4 DEF TypeOK
<1>2. RefCountExact
  <2>1. \A q \in Entries : {b \in Bytes : top_rated[b] = q} = {}
    BY DEF Entries, NoEntry
  <2> QED
    BY <2>1, FS_EmptySet DEF RefCountExact
<1>3. WinnerKeepsTrace
  BY DEF WinnerKeepsTrace
<1>4. MapDimensions /\ FirstRow
  BY DEF MapDimensions, FirstRow, Rows, Entries
<1>5. PendingExact
  BY FS_EmptySet DEF PendingExact
<1>6. CursorsInRange /\ CursorStart /\ ControlOK /\ RatedOnce
  BY DEF CursorsInRange, CursorStart, ControlOK, RatedOnce, Observing
<1>7. TableOK
  BY DEF TableOK, InitialStateFirst, Range1
<1>8. FuzzedIsRecorded
  BY DEF FuzzedIsRecorded, Unallocated, Fuzzed
<1> QED
  BY <1>1, <1>2, <1>3, <1>4, <1>5, <1>6, <1>7, <1>8 DEF IInv

-----------------------------------------------------------------------------
(* What an action leaves alone keeps its part of the invariant.            *)

(* Frame: the rating of the entries.                                      *)
LEMMA RatingFrame ==
    ASSUME IInv, UNCHANGED ratingVars
    PROVE  RefCountExact' /\ WinnerKeepsTrace'
BY DEF IInv, ratingVars, RefCountExact, WinnerKeepsTrace

(* Frame: the dimensions of the map.                                      *)
LEMMA MapFrame ==
    ASSUME IInv, UNCHANGED <<queued_paths, mapVars, state_ids>>
    PROVE  MapDimensions' /\ FirstRow'
BY DEF IInv, mapVars, MapDimensions, FirstRow

(* Frame: the count of pending entries.                                   *)
LEMMA TurnFrame ==
    ASSUME IInv, UNCHANGED <<queued_paths, pending_not_fuzzed, was_fuzzed>>
    PROVE  PendingExact'
BY DEF IInv, PendingExact

(* Frame: the cells recorded as fuzzed.                                   *)
LEMMA CellFrame ==
    ASSUME IInv, UNCHANGED <<mapVars, was_fuzzed>>
    PROVE  FuzzedIsRecorded'
BY DEF IInv, mapVars, FuzzedIsRecorded

(* Frame: the table of states.                                            *)
LEMMA TableFrame ==
    ASSUME IInv, UNCHANGED <<tableVars, state_ids, ipsm>>
    PROVE  TableOK'
BY DEF IInv, tableVars, TableOK, InitialStateFirst, Range1

(* Frame: the cursors.                                                    *)
LEMMA CursorFrame ==
    ASSUME IInv, UNCHANGED <<tableVars, state_ids, selected_state_index>>
    PROVE  CursorsInRange' /\ CursorStart'
BY DEF IInv, tableVars, CursorsInRange, CursorStart

-----------------------------------------------------------------------------

(* The dry run starts with the first entry of a queue that is not empty.  *)
LEMMA FinishReadingIInv == IInv /\ FinishReading => IInv'
<1> SUFFICES ASSUME IInv, FinishReading PROVE IInv'
  OBVIOUS
<1> USE DEF FinishReading, corpusVars, tableVars, ipsmVars, chooseVars
<1>1. TypeOK'
  BY DEF IInv, TypeOK, CorpusTypeOK, options, ratingVars, favorVars, mapVars, Phases, Queue
<1>2. ControlOK'
  BY DEF IInv, ControlOK, Observing, TypeOK, CorpusTypeOK, Queue
<1>3. RatedOnce'
  BY DEF IInv, RatedOnce, Observing, ControlOK, NoEntry, ratingVars
<1> QED
  BY <1>1, <1>2, <1>3, RatingFrame, MapFrame, TurnFrame, CellFrame, TableFrame,
     CursorFrame DEF IInv

(* read_testcases adds entries that hold no slot.                         *)
LEMMA ReadTestcaseIInv == IInv /\ ReadTestcase => IInv'
<1> SUFFICES ASSUME IInv, ReadTestcase PROVE IInv'
  OBVIOUS
<1>1. PICK s \in Sessions : AddToQueue(Len(s.regions))
  BY DEF ReadTestcase
<1>2. Len(s.regions) \in Nat
  BY SessionTyped, LenProperties
<1>3. /\ phase = "read"
      /\ UNCHANGED <<was_fuzzed, cal_failed, ratingVars, favorVars, pending_favored,
                     state_ids, target_state_id, phase, cur, session, pos,
                     tableVars, ipsmVars, chooseVars, queue_cur>>
  BY DEF ReadTestcase
<1>4. CorpusTypeOK /\ MapDimensions /\ PendingExact
  BY DEF IInv, TypeOK
<1>5. /\ queued_paths \in Entries
      /\ queued_paths' = queued_paths + 1 /\ queued_paths' \in 1 .. MaxPaths
      /\ Queue \subseteq Queue'
      /\ entry' \in [Entries -> Entry]
      /\ pending_not_fuzzed' \in 0 .. U32Max
      /\ pending_not_fuzzed' = queued_paths' - Cardinality(was_fuzzed)
      /\ was_fuzzed_map' \in [Rows -> [Entries -> Cells]]
      /\ fuzzed_map_qentries' = queued_paths'
      /\ fuzzed_map_states' \in 1 .. MaxRows
      /\ fuzzed_map_states' = IF queued_paths = 0 /\ fuzzed_map_states = 0
                              THEN 1 ELSE fuzzed_map_states
      /\ AllocatedExactly(was_fuzzed_map', fuzzed_map_states', fuzzed_map_qentries')
      /\ \A r \in Rows, q \in Entries :
            was_fuzzed_map'[r][q] = Fuzzed => was_fuzzed_map[r][q] = Fuzzed
  BY <1>1, <1>2, <1>4, AddToQueueCorrect
<1>6. TypeOK'
  <2>1. CorpusTypeOK'
    BY <1>3, <1>4, <1>5 DEF CorpusTypeOK, ratingVars, favorVars
  <2>2. seeds' \in [StateIds -> Seq(Queue')]
    <3>1. seeds \in [StateIds -> Seq(Queue)] /\ seeds' = seeds
      BY <1>3 DEF IInv, TypeOK, tableVars
    <3>2. Seq(Queue) \subseteq Seq(Queue')
      BY <1>5
    <3> QED
      BY <3>1, <3>2
  <2>3. queue_cur' \in Queue' \cup {NoEntry}
    BY <1>3, <1>5 DEF IInv, TypeOK
  <2> QED
    BY <1>3, <2>1, <2>2, <2>3 DEF IInv, TypeOK, tableVars, ipsmVars, chooseVars, options
<1>7. MapDimensions' /\ FirstRow'
  BY <1>3, <1>4, <1>5 DEF IInv, MapDimensions, FirstRow, AllocatedExactly
<1>8. PendingExact'
  BY <1>3, <1>5 DEF PendingExact
<1>9. FuzzedIsRecorded'
  BY <1>3, <1>5 DEF IInv, FuzzedIsRecorded
<1>10. ControlOK'
  BY <1>3 DEF IInv, ControlOK, Observing, tableVars
<1>11. RatedOnce'
  BY <1>3 DEF IInv, RatedOnce, Observing, ratingVars
<1> QED
  BY <1>3, <1>6, <1>7, <1>8, <1>9, <1>10, <1>11, RatingFrame, TableFrame, CursorFrame
     DEF IInv, ipsmVars, chooseVars

(* A seed of the dry run is rated after those before it in the queue.     *)
LEMMA DryRunIInv == IInv /\ DryRun => IInv'
<1> SUFFICES ASSUME IInv, DryRun PROVE IInv'
  OBVIOUS
<1> DEFINE fields == [entry[cur] EXCEPT !.is_initial_seed = TRUE]
<1>1. PICK s \in Sessions, ok \in BOOLEAN :
          CalibrateCase(cur, fields, s, ok) /\ session' = s
  BY DEF DryRun
<1>2. /\ phase = "dry_run" /\ phase' = "observe"
      /\ UNCHANGED <<queued_paths, was_fuzzed, favorVars, pending_favored,
                     pending_not_fuzzed, state_ids, target_state_id, mapVars,
                     cur, pos, tableVars, ipsmVars, chooseVars, queue_cur>>
  BY DEF DryRun
<1>3. CorpusTypeOK /\ cur \in Queue /\ cur \in Entries
  BY <1>2 DEF IInv, TypeOK, ControlOK
<1>4. fields \in Entry /\ fields.is_initial_seed = TRUE
  BY <1>3 DEF CorpusTypeOK, Entry
<1>5. \A b \in Bytes : top_rated[b] < cur /\ top_rated[b] # cur
  <2>1. \A b \in Bytes : top_rated[b] \in Int /\ cur \in Int
    BY <1>3 DEF CorpusTypeOK, Queue, NoEntry
  <2> QED
    BY <1>2, <2>1 DEF IInv, RatedOnce
<1>6. /\ RatingOK'
      /\ cal_failed' \subseteq Queue
      /\ entry' \in [Entries -> Entry]
      /\ entry'[cur].is_initial_seed
      /\ top_rated' \in [Bytes -> Queue \cup {NoEntry}]
      /\ \A b \in Bytes : top_rated'[b] \in {cur, top_rated[b]}
  <2> HIDE DEF fields
  <2> QED
    BY <1>1, <1>3, <1>4, <1>5, SessionTyped, IInvRating, CalibrateCaseCorrect
<1>7. TypeOK'
  <2>1. CorpusTypeOK'
    BY <1>2, <1>3, <1>6 DEF CorpusTypeOK, RatingOK, favorVars, mapVars, Queue
  <2> QED
    BY <1>1, <1>2, <2>1 DEF IInv, TypeOK, Phases, tableVars, ipsmVars, chooseVars, options, Queue
<1>8. ControlOK'
  BY <1>2, <1>6 DEF IInv, ControlOK, Observing, tableVars, Queue
<1>9. RatedOnce'
  <2>1. \A b \in Bytes : top_rated[b] \in Int /\ cur \in Int
    BY <1>3 DEF CorpusTypeOK, Queue, NoEntry
  <2>2. \A b \in Bytes : top_rated'[b] <= cur
    BY <1>5, <1>6, <2>1
  <2>3. was_fuzzed' = {}
    BY <1>2 DEF IInv, RatedOnce
  <2> QED
    BY <1>2, <1>6, <2>2, <2>3 DEF RatedOnce, Observing
<1> QED
  BY <1>2, <1>6, <1>7, <1>8, <1>9, MapFrame, TurnFrame, CellFrame, TableFrame, CursorFrame
     DEF IInv, RatingOK, ipsmVars, chooseVars

(* Where control goes when the response has been looked at.                *)
LEMMA ObservedControl ==
    ASSUME IInv, phase \in Observing, Observed,
           entry'[cur].is_initial_seed = entry[cur].is_initial_seed,
           entry' \in [Entries -> Entry],
           UNCHANGED <<queued_paths, was_fuzzed, top_rated, target_state_id, state_ids,
                       tableVars, chooseVars, queue_cur>>
    PROVE  /\ phase' \in Phases /\ cur' \in Entries
           /\ session' \in Sessions \cup {NoSession}
           /\ ControlOK' /\ RatedOnce'
<1>1. CorpusTypeOK /\ cur \in Queue /\ cur \in Entries /\ cur \in Nat
  BY DEF IInv, TypeOK, ControlOK, Observing, Queue
<1>2. CASE entry[cur].is_initial_seed /\ cur + 1 < queued_paths
  <2>1. phase' = "dry_run" /\ cur' = cur + 1 /\ session' = NoSession
    BY <1>2 DEF Observed
  <2>2. cur' \in Queue /\ cur' \in Entries
    BY <1>1, <1>2, <2>1, CorpusAssumption DEF CorpusTypeOK, Queue, Entries
  <2>3. \A b \in Bytes : top_rated[b] < cur + 1
    BY <1>1, <1>2, SMTT(30) DEF IInv, RatedOnce, CorpusTypeOK, Queue, NoEntry
  <2>4. RatedOnce'
    BY <1>2, <2>1, <2>3 DEF IInv, RatedOnce, Observing
  <2>5. ControlOK'
    BY <2>1, <2>2 DEF IInv, ControlOK, Observing, tableVars, Queue
  <2> QED
    BY <2>1, <2>2, <2>4, <2>5 DEF Phases
<1>3. CASE entry[cur].is_initial_seed /\ ~(cur + 1 < queued_paths)
  <2>1. phase' = "start" /\ cur' = 0 /\ session' = NoSession
    BY <1>3 DEF Observed
  <2>2. ControlOK' /\ RatedOnce'
    BY <2>1 DEF IInv, ControlOK, RatedOnce, Observing, tableVars
  <2> QED
    BY <2>1, <2>2, CorpusAssumption DEF Phases, Entries
<1>4. CASE ~entry[cur].is_initial_seed
  <2>1. phase' = "calibrate" /\ UNCHANGED <<cur, session>>
    BY <1>4 DEF Observed
  <2>2. ControlOK' /\ RatedOnce'
    BY <1>1, <1>4, <2>1 DEF IInv, ControlOK, RatedOnce, Observing, tableVars, Queue
  <2> QED
    BY <1>1, <2>1, <2>2 DEF Phases, IInv, TypeOK
<1> QED
  BY <1>2, <1>3, <1>4

(* The end of update_state_aware_variables.                               *)
LEMMA FinishRegionsIInv == IInv /\ FinishRegions => IInv'
<1> SUFFICES ASSUME IInv, FinishRegions PROVE IInv'
  OBVIOUS
<1>1. /\ phase = "regions" /\ Observed /\ pos' = 0
      /\ UNCHANGED <<corpusVars, tableVars, ipsmVars, chooseVars, queue_cur>>
  BY DEF FinishRegions
<1>2. entry \in [Entries -> Entry]
  BY DEF IInv, TypeOK, CorpusTypeOK
<1>3. /\ phase' \in Phases /\ cur' \in Entries
      /\ session' \in Sessions \cup {NoSession}
      /\ ControlOK' /\ RatedOnce'
  BY <1>1, <1>2, ObservedControl DEF Observing, corpusVars, ratingVars
<1>4. TypeOK'
  BY <1>1, <1>3 DEF IInv, TypeOK, CorpusTypeOK, Queue, corpusVars, ratingVars, favorVars,
     mapVars, tableVars, ipsmVars, chooseVars, options
<1> QED
  BY <1>1, <1>3, <1>4, RatingFrame, MapFrame, TurnFrame, CellFrame, TableFrame, CursorFrame
     DEF IInv, corpusVars, ipsmVars, chooseVars

(* The head of update_state_aware_variables.                              *)
LEMMA ObserveResponseIInv == IInv /\ ObserveResponse => IInv'
<1> SUFFICES ASSUME IInv, ObserveResponse PROVE IInv'
  OBVIOUS
<1>1. /\ phase = "observe"
      /\ UNCHANGED <<queued_paths, was_fuzzed, cal_failed, ratingVars, favorVars,
                     pending_favored, pending_not_fuzzed, state_ids, target_state_id,
                     mapVars, tableVars, ipsm, chooseVars, queue_cur>>
  BY DEF ObserveResponse
<1>2. CorpusTypeOK /\ cur \in Queue /\ cur \in Entries
  BY <1>1 DEF IInv, TypeOK, ControlOK, Observing
<1>3. entry' \in [Entries -> Entry] /\ pos' \in Nat
      /\ entry'[cur].is_initial_seed = entry[cur].is_initial_seed
      /\ phase' \in Phases /\ cur' \in Entries
      /\ session' \in Sessions \cup {NoSession}
      /\ ControlOK' /\ RatedOnce'
  <2>1. CASE session.codes = <<>>
    <3>1. Observed /\ UNCHANGED <<entry, pos>>
      BY <2>1 DEF ObserveResponse
    <3>2. entry \in [Entries -> Entry] /\ pos \in Nat
      BY <1>2 DEF CorpusTypeOK, IInv, TypeOK
    <3> QED
      BY <1>1, <3>1, <3>2, ObservedControl DEF Observing, ratingVars
  <2>2. CASE session.codes # <<>>
    <3> DEFINE n == Cardinality(Range1(session.codes))
    <3>1. /\ entry' = [entry EXCEPT ![cur].unique_state_count = n]
          /\ phase' \in {"ipsm", "annotate"}
          /\ phase' = "ipsm" => Len(session.codes) > 1
          /\ pos' = 1
          /\ UNCHANGED <<cur, session>>
      BY <2>2 DEF ObserveResponse, FirstCode
    <3>2. session.codes \in Seq(StateIds)
      BY SessionTyped DEF IInv, TypeOK
    <3>3. n \in Nat
      <4> DEFINE L == Len(session.codes)
      <4>1. L \in Nat /\ session.codes \in [1 .. L -> StateIds]
        BY <3>2, LenProperties
      <4>2. IsFiniteSet(1 .. L)
        BY <4>1, FS_Interval
      <4>3. session.codes \in Surjection(1 .. L, Range1(session.codes))
        BY <4>1 DEF Range1, Surjection
      <4>4. IsFiniteSet(Range1(session.codes))
        BY <4>2, <4>3, FS_Surjection
      <4> QED
        BY <4>4, FS_CardinalityType
    <3> HIDE DEF n
    <3>4. /\ entry' \in [Entries -> Entry]
          /\ entry'[cur].is_initial_seed = entry[cur].is_initial_seed
      <4>1. entry \in [Entries -> Entry] /\ cur \in Entries
        BY <1>2 DEF CorpusTypeOK, IInv, TypeOK
      <4>2. ASSUME NEW e \in Entry
            PROVE  /\ [e EXCEPT !.unique_state_count = n] \in Entry
                   /\ [e EXCEPT !.unique_state_count = n].is_initial_seed = e.is_initial_seed
        BY <3>3 DEF Entry
      <4>3. entry' = [entry EXCEPT ![cur] = [entry[cur] EXCEPT !.unique_state_count = n]]
        BY <3>1, <4>1
      <4>4. entry[cur] \in Entry
        BY <4>1
      <4> HIDE DEF Entry
      <4> QED
        BY <4>1, <4>2, <4>3, <4>4
    <3>5. ControlOK'
      <4>1. phase' = "ipsm" => pos' \in 1 .. Len(session.codes)
        BY <3>1, <3>2, LenProperties
      <4> QED
        BY <1>1, <3>1, <3>4, <4>1 DEF IInv, ControlOK, Observing, tableVars, Queue
    <3>6. RatedOnce'
      BY <1>1, <3>1, <3>4 DEF IInv, RatedOnce, Observing, ratingVars
    <3> QED
      BY <1>2, <3>1, <3>4, <3>5, <3>6 DEF Phases, IInv, TypeOK
  <2> QED
    BY <2>1, <2>2
<1>4. TypeOK'
  <2>1. CorpusTypeOK'
    BY <1>1, <1>2, <1>3 DEF CorpusTypeOK, Queue, ratingVars, favorVars, mapVars
  <2> QED
    BY <1>1, <1>3, <2>1 DEF IInv, TypeOK, Queue, tableVars, chooseVars, options
<1> QED
  BY <1>1, <1>3, <1>4, RatingFrame, MapFrame, TurnFrame, CellFrame, TableFrame, CursorFrame
     DEF IInv, chooseVars

(* A new entry comes after every entry that was rated.                    *)
LEMMA KeepTestcaseIInv == IInv /\ KeepTestcase => IInv'
<1> SUFFICES ASSUME IInv, KeepTestcase PROVE IInv'
  OBVIOUS
<1>1. PICK s \in Sessions : AddToQueue(Len(s.regions)) /\ session' = s
  BY DEF KeepTestcase
<1>2. Len(s.regions) \in Nat
  BY SessionTyped, LenProperties
<1>3. /\ phase \in {"fuzz", "select"} /\ cur' = queued_paths /\ phase' = "observe"
      /\ UNCHANGED <<was_fuzzed, cal_failed, ratingVars, favorVars, pending_favored,
                     state_ids, target_state_id, pos, tableVars, ipsmVars,
                     chooseVars, queue_cur>>
  BY DEF KeepTestcase
<1>4. CorpusTypeOK /\ MapDimensions /\ PendingExact
  BY DEF IInv, TypeOK
<1>5. /\ queued_paths \in Entries
      /\ queued_paths' = queued_paths + 1 /\ queued_paths' \in 1 .. MaxPaths
      /\ Queue \subseteq Queue'
      /\ entry' \in [Entries -> Entry]
      /\ entry'[queued_paths].is_initial_seed = FALSE
      /\ pending_not_fuzzed' \in 0 .. U32Max
      /\ pending_not_fuzzed' = queued_paths' - Cardinality(was_fuzzed)
      /\ was_fuzzed_map' \in [Rows -> [Entries -> Cells]]
      /\ fuzzed_map_qentries' = queued_paths'
      /\ fuzzed_map_states' \in 1 .. MaxRows
      /\ fuzzed_map_states' = IF queued_paths = 0 /\ fuzzed_map_states = 0
                              THEN 1 ELSE fuzzed_map_states
      /\ AllocatedExactly(was_fuzzed_map', fuzzed_map_states', fuzzed_map_qentries')
      /\ \A r \in Rows, q \in Entries :
            was_fuzzed_map'[r][q] = Fuzzed => was_fuzzed_map[r][q] = Fuzzed
  BY <1>1, <1>2, <1>4, AddToQueueCorrect
<1>6. TypeOK'
  <2>1. CorpusTypeOK'
    <3>1. /\ queued_paths' \in 0 .. MaxPaths /\ fuzzed_map_states' \in 0 .. MaxRows
          /\ fuzzed_map_qentries' \in 0 .. MaxPaths
      BY <1>5 DEF Rows
    <3>2. /\ was_fuzzed' \subseteq Queue' /\ cal_failed' \subseteq Queue'
          /\ favored' \subseteq Queue' /\ fs_redundant' \subseteq Queue'
          /\ top_rated' \in [Bytes -> Queue' \cup {NoEntry}]
      <4> HIDE DEF Queue
      <4> QED
        BY <1>3, <1>4, <1>5 DEF CorpusTypeOK, ratingVars, favorVars
    <3>3. /\ entry' \in [Entries -> Entry] /\ pending_not_fuzzed' \in 0 .. U32Max
          /\ was_fuzzed_map' \in [Rows -> [Entries -> Cells]]
      BY <1>5
    <3>4. UNCHANGED <<tc_ref, trace_mini, score_changed, queued_favored, pending_favored,
                      state_ids, target_state_id>>
      BY <1>3 DEF ratingVars, favorVars
    <3>5. /\ tc_ref' \in [Entries -> Nat] /\ trace_mini' \in [Entries -> SUBSET Bytes]
          /\ score_changed' \in BOOLEAN /\ queued_favored' \in Nat
          /\ pending_favored' \in 0 .. U32Max
          /\ state_ids' \in Seq(StateIds) /\ target_state_id' \in StateIds
      BY <1>4, <3>4, Zenon DEF CorpusTypeOK
    <3> QED
      BY <3>1, <3>2, <3>3, <3>5, Zenon DEF CorpusTypeOK
  <2> QED
    BY <1>1, <1>3, <1>5, <2>1, SMTT(30) DEF IInv, TypeOK, Phases, tableVars, ipsmVars, chooseVars, options
<1>7. MapDimensions' /\ FirstRow'
  BY <1>3, <1>4, <1>5 DEF IInv, MapDimensions, FirstRow, AllocatedExactly
<1>8. PendingExact'
  BY <1>3, <1>5 DEF PendingExact
<1>9. FuzzedIsRecorded'
  BY <1>3, <1>5 DEF IInv, FuzzedIsRecorded
<1>10. ControlOK'
  BY <1>3, <1>4, <1>5 DEF IInv, ControlOK, Observing, tableVars, Queue, CorpusTypeOK
<1>11. RatedOnce'
  <2>1. \A b \in Bytes : top_rated[b] < queued_paths
    BY <1>4 DEF CorpusTypeOK, Queue, NoEntry
  <2>2. queued_paths \notin was_fuzzed
    BY <1>4 DEF CorpusTypeOK, Queue
  <2> QED
    BY <1>3, <1>5, <2>1, <2>2 DEF RatedOnce, Observing, ratingVars
<1> QED
  BY <1>3, <1>6, <1>7, <1>8, <1>9, <1>10, <1>11, RatingFrame, TableFrame, CursorFrame
     DEF IInv, ipsmVars, chooseVars

(* The entry just added is rated for the first time.                      *)
LEMMA CalibrateIInv == IInv /\ Calibrate => IInv'
<1> SUFFICES ASSUME IInv, Calibrate PROVE IInv'
  OBVIOUS
<1>1. PICK ok \in BOOLEAN : CalibrateCase(cur, entry[cur], session, ok)
  BY DEF Calibrate
<1>2. /\ phase = "calibrate"
      /\ phase' = IF queue_cur = NoEntry THEN "select" ELSE "fuzz"
      /\ cur' = 0 /\ session' = NoSession
      /\ UNCHANGED <<queued_paths, was_fuzzed, favorVars, pending_favored,
                     pending_not_fuzzed, state_ids, target_state_id, mapVars, pos,
                     tableVars, ipsmVars, chooseVars, queue_cur>>
  BY DEF Calibrate
<1>3. CorpusTypeOK /\ cur \in Queue /\ cur \in Entries
  BY <1>2 DEF IInv, TypeOK, ControlOK
<1>4. entry[cur] \in Entry
  BY <1>3 DEF CorpusTypeOK
<1>5. \A b \in Bytes : top_rated[b] # cur
  <2>1. \A b \in Bytes : top_rated[b] \in Int /\ cur \in Int
    BY <1>3 DEF CorpusTypeOK, Queue, NoEntry
  <2> QED
    BY <1>2, <2>1 DEF IInv, RatedOnce
<1>6. /\ RatingOK'
      /\ cal_failed' \subseteq Queue
      /\ entry' \in [Entries -> Entry]
      /\ top_rated' \in [Bytes -> Queue \cup {NoEntry}]
  <2>1. session \in Sessions \cup {NoSession}
    BY DEF IInv, TypeOK
  <2> QED
    BY <1>1, <1>3, <1>4, <1>5, <2>1, SessionTyped, IInvRating, CalibrateCaseCorrect
<1>7. TypeOK'
  <2>1. CorpusTypeOK'
    BY <1>2, <1>3, <1>6 DEF CorpusTypeOK, RatingOK, favorVars, mapVars, Queue
  <2> QED
    BY <1>2, <2>1, CorpusAssumption
       DEF IInv, TypeOK, Phases, tableVars, ipsmVars, chooseVars, options, Queue, Entries
<1>8. ControlOK' /\ RatedOnce'
  BY <1>2 DEF IInv, ControlOK, RatedOnce, Observing, tableVars
<1> QED
  BY <1>2, <1>6, <1>7, <1>8, MapFrame, TurnFrame, CellFrame, TableFrame, CursorFrame
     DEF IInv, RatingOK, ipsmVars, chooseVars

(* An interrupted turn records nothing.                                   *)
LEMMA StopIInv == IInv /\ Stop => IInv'
<1> SUFFICES ASSUME IInv, Stop PROVE IInv'
  OBVIOUS
<1>1. /\ phase' = "stopped" /\ queue_cur' = NoEntry
      /\ UNCHANGED <<queued_paths, entry, cal_failed, ratingVars, favorVars,
                     state_ids, target_state_id, fuzzed_map_states,
                     fuzzed_map_qentries, cur, session, pos, tableVars, ipsmVars,
                     chooseVars>>
  BY DEF Stop
<1>2. UNCHANGED <<was_fuzzed, was_fuzzed_map, pending_not_fuzzed, pending_favored>>
  BY DEF Stop, AbandonEntry, RecordsTurn
<1>3. TypeOK'
  BY <1>1, <1>2 DEF IInv, TypeOK, CorpusTypeOK, Queue, Phases, ratingVars, favorVars,
     tableVars, ipsmVars, chooseVars, options
<1>4. ControlOK' /\ RatedOnce'
  BY <1>1, <1>2 DEF IInv, ControlOK, RatedOnce, Observing, Stop
<1> QED
  BY <1>1, <1>2, <1>3, <1>4, RatingFrame, MapFrame, TurnFrame, CellFrame, TableFrame,
     CursorFrame DEF IInv, mapVars, ipsmVars, chooseVars

(* The turn that ends is recorded in the row of its target.               *)
LEMMA FinishFuzzOneIInv == IInv /\ FinishFuzzOne => IInv'
<1> SUFFICES ASSUME IInv, FinishFuzzOne PROVE IInv'
  OBVIOUS
<1>1. /\ phase = "fuzz" /\ AbandonEntry(queue_cur, FALSE)
      /\ phase' = "select" /\ queue_cur' = NoEntry
      /\ UNCHANGED <<queued_paths, entry, cal_failed, ratingVars, favorVars,
                     state_ids, target_state_id, fuzzed_map_states,
                     fuzzed_map_qentries, cur, session, pos, tableVars, ipsmVars,
                     chooseVars>>
  BY DEF FinishFuzzOne
<1>2. CorpusTypeOK /\ MapDimensions /\ PendingExact /\ queue_cur \in Queue
  BY <1>1 DEF IInv, TypeOK, ControlOK
<1>3. /\ StateIndex(target_state_id) \in Nat
      /\ StateIndex(target_state_id) < fuzzed_map_states
  <2>1. target_state_id \in Range1(state_ids) /\ state_ids \in Seq(StateIds)
    BY <1>1, <1>2 DEF IInv, ControlOK, TableOK, CorpusTypeOK
  <2>2. \E i \in 1 .. Len(state_ids) : state_ids[i] = target_state_id
    BY <2>1 DEF Range1
  <2>3. state_ids # <<>>
    BY <2>2
  <2>4. fuzzed_map_states = Len(state_ids)
    BY <1>2, <2>3 DEF MapDimensions
  <2> QED
    BY <2>1, <2>2, <2>4, StateIndexCorrect, LenProperties
<1>4. /\ was_fuzzed \subseteq was_fuzzed' /\ was_fuzzed' \subseteq Queue
      /\ pending_not_fuzzed' \in 0 .. U32Max /\ pending_favored' \in 0 .. U32Max
      /\ pending_not_fuzzed' = queued_paths - Cardinality(was_fuzzed')
      /\ was_fuzzed_map' \in [Rows -> [Entries -> Cells]]
      /\ AllocatedExactly(was_fuzzed_map', fuzzed_map_states, fuzzed_map_qentries)
      /\ \A r \in Rows, c \in Entries :
            was_fuzzed_map'[r][c] = Fuzzed =>
                was_fuzzed_map[r][c] = Fuzzed \/ c \in was_fuzzed'
  BY <1>1, <1>2, <1>3, AbandonEntryCorrect
<1>5. TypeOK'
  <2>1. CorpusTypeOK'
    BY <1>1, <1>2, <1>4 DEF CorpusTypeOK, Queue, ratingVars, favorVars
  <2> QED
    BY <1>1, <2>1 DEF IInv, TypeOK, Queue, Phases, tableVars, ipsmVars, chooseVars, options
<1>6. MapDimensions' /\ FirstRow'
  BY <1>1, <1>2, <1>4 DEF IInv, MapDimensions, FirstRow, AllocatedExactly
<1>7. PendingExact'
  BY <1>1, <1>4 DEF PendingExact
<1>8. FuzzedIsRecorded'
  BY <1>4 DEF IInv, FuzzedIsRecorded
<1>9. ControlOK' /\ RatedOnce'
  BY <1>1 DEF IInv, ControlOK, RatedOnce, Observing
<1> QED
  BY <1>1, <1>5, <1>6, <1>7, <1>8, <1>9, RatingFrame, TableFrame, CursorFrame
     DEF IInv, ipsmVars, chooseVars

-----------------------------------------------------------------------------

(* A sequence of seeds with one more stays a sequence of seeds, and a      *)
(* cursor over it stays inside.                                            *)
LEMMA SeedAdded ==
    ASSUME IInv, NEW id \in StateIds, cur \in Queue,
           UNCHANGED <<queued_paths, state_ids, selected_state_index, selected_seed_index>>,
           seeds' = [seeds EXCEPT ![id] = Append(@, cur)]
    PROVE  /\ seeds' \in [StateIds -> Seq(Queue)]
           /\ CursorsInRange' /\ CursorStart'
<1>1. seeds \in [StateIds -> Seq(Queue)] /\ selected_seed_index \in [StateIds -> Nat]
  BY DEF IInv, TypeOK
<1>2. seeds[id] \in Seq(Queue)
  BY <1>1
<1>3. /\ Append(seeds[id], cur) \in Seq(Queue)
      /\ Append(seeds[id], cur) # <<>>
      /\ Len(Append(seeds[id], cur)) = Len(seeds[id]) + 1
      /\ Len(seeds[id]) \in Nat
  BY <1>2, AppendProperties, LenProperties
<1>4. seeds' \in [StateIds -> Seq(Queue)]
  BY <1>1, <1>3
<1>5. \A s \in StateIds : seeds'[s] = IF s = id THEN Append(seeds[id], cur) ELSE seeds[s]
  BY <1>1
<1>6. selected_seed_index[id] < Len(Append(seeds[id], cur))
  <2>1. CASE seeds[id] = <<>>
    BY <1>3, <2>1 DEF IInv, CursorStart
  <2>2. CASE seeds[id] # <<>>
    BY <1>1, <1>3, <2>2 DEF IInv, CursorsInRange
  <2> QED
    BY <2>1, <2>2
<1>7. CursorsInRange'
  BY <1>5, <1>6 DEF IInv, CursorsInRange
<1>8. CursorStart'
  BY <1>3, <1>5 DEF IInv, CursorStart
<1> QED
  BY <1>4, <1>7, <1>8

(* The entry becomes a seed of state 0, in row 0.                         *)
LEMMA AnnotateRegionsIInv == IInv /\ AnnotateRegions => IInv'
<1> SUFFICES ASSUME IInv, AnnotateRegions PROVE IInv'
  OBVIOUS
<1>1. /\ phase = "annotate"
      /\ entry' = [entry EXCEPT ![cur].regions = session.regions]
      /\ UNCHANGED <<queued_paths, was_fuzzed, cal_failed, ratingVars, favorVars,
                     pending_favored, pending_not_fuzzed, state_ids, target_state_id,
                     fuzzed_map_states, fuzzed_map_qentries, cur, session, pos,
                     khms_states, selected_seed_index, ipsmVars, chooseVars, queue_cur>>
  BY DEF AnnotateRegions
<1>2. CorpusTypeOK /\ cur \in Queue /\ cur \in Entries
  BY <1>1 DEF IInv, TypeOK, ControlOK, Observing
<1>3. session.regions \in Seq(Region)
  BY SessionTyped DEF IInv, TypeOK
<1>4. /\ entry' \in [Entries -> Entry]
      /\ entry'[cur].is_initial_seed = entry[cur].is_initial_seed
  BY <1>1, <1>2, <1>3 DEF CorpusTypeOK, Entry
<1>5. CASE 0 \in khms_states
  <2>1. /\ seeds' = [seeds EXCEPT ![0] = Append(@, cur)]
        /\ was_fuzzed_map' = [was_fuzzed_map EXCEPT ![0][cur] = Reachable]
        /\ phase' = "regions"
    BY <1>5 DEF AnnotateRegions
  <2>2. /\ seeds' \in [StateIds -> Seq(Queue)] /\ CursorsInRange' /\ CursorStart'
    BY <1>1, <1>2, <2>1, SeedAdded, CorpusAssumption DEF chooseVars
  <2>3. state_ids # <<>>
    <3>1. 0 \in Range1(state_ids)
      BY <1>5 DEF IInv, TableOK
    <3> QED
      BY <3>1 DEF Range1
  <2>4. /\ 0 \in Rows /\ 0 < fuzzed_map_states /\ cur < fuzzed_map_qentries
    BY <1>2, CorpusAssumption
       DEF IInv, MapDimensions, CorpusTypeOK, Queue, Rows
  <2>5. was_fuzzed_map \in [Rows -> [Entries -> Cells]] /\ Reachable \in Cells
    BY DEF IInv, TypeOK, CorpusTypeOK, Cells
  <2>6. /\ was_fuzzed_map' \in [Rows -> [Entries -> Cells]]
        /\ \A r \in Rows, q \in Entries : was_fuzzed_map'[r][q] =
              IF r = 0 /\ q = cur THEN Reachable ELSE was_fuzzed_map[r][q]
    BY <1>2, <2>1, <2>4, <2>5
  <2>7. MapDimensions' /\ FirstRow'
    <3>1. \A r \in Rows, q \in Entries :
              (was_fuzzed_map'[r][q] = Unallocated) <=>
                  (r >= fuzzed_map_states \/ q >= fuzzed_map_qentries)
      <4>1. \A r \in Rows, q \in Entries :
                (was_fuzzed_map[r][q] = Unallocated) <=>
                    (r >= fuzzed_map_states \/ q >= fuzzed_map_qentries)
        BY DEF IInv, MapDimensions
      <4>2. /\ fuzzed_map_states \in Nat /\ fuzzed_map_qentries \in Nat /\ cur \in Nat
            /\ Reachable # Unallocated
        BY <1>2, CorpusAssumption DEF CorpusTypeOK, Queue, Reachable, Unallocated
      <4> QED
        BY <2>4, <2>6, <4>1, <4>2
    <3> QED
      BY <1>1, <3>1 DEF IInv, MapDimensions, FirstRow
  <2>8. FuzzedIsRecorded'
    BY <1>1, <2>6 DEF IInv, FuzzedIsRecorded, Reachable, Fuzzed
  <2>9. TypeOK'
    <3>1. CorpusTypeOK'
      BY <1>1, <1>2, <1>4, <2>6 DEF CorpusTypeOK, Queue, ratingVars, favorVars
    <3> QED
      BY <1>1, <2>1, <2>2, <3>1 DEF IInv, TypeOK, Queue, Phases, ipsmVars, chooseVars, options
  <2>10. ControlOK' /\ RatedOnce'
    BY <1>1, <1>2, <1>4, <2>1, <2>3 DEF IInv, ControlOK, RatedOnce, Observing, ratingVars, Queue
  <2>11. TableOK'
    BY <1>1 DEF IInv, TableOK, InitialStateFirst, Range1, ipsmVars
  <2> QED
    BY <1>1, <2>2, <2>7, <2>8, <2>9, <2>10, <2>11, RatingFrame, TurnFrame DEF IInv
<1>6. CASE 0 \notin khms_states
  <2>1. phase' = "fatal" /\ UNCHANGED <<seeds, was_fuzzed_map>>
    BY <1>6 DEF AnnotateRegions
  <2>2. TypeOK'
    <3>1. CorpusTypeOK'
      BY <1>1, <1>2, <1>4, <2>1 DEF CorpusTypeOK, Queue, ratingVars, favorVars
    <3> QED
      BY <1>1, <2>1, <3>1 DEF IInv, TypeOK, Queue, Phases, ipsmVars, chooseVars, options
  <2>3. ControlOK' /\ RatedOnce'
    BY <1>1, <2>1 DEF IInv, ControlOK, RatedOnce, Observing
  <2> QED
    BY <1>1, <2>1, <2>2, <2>3, RatingFrame, MapFrame, TurnFrame, CellFrame, TableFrame,
       CursorFrame DEF IInv, mapVars, tableVars, ipsmVars, chooseVars
<1> QED
  BY <1>5, <1>6

(* A state that enters the table brings its row and its place in           *)
(* state_ids; state 0 comes first, in the row that waits for it.           *)
LEMMA DiscoverStateCorrect ==
    ASSUME IInv, NEW id \in StateIds, NEW list \in Seq(Queue), queued_paths > 0,
           state_ids = <<>> <=> id = 0, Len(list) <= 1,
           DiscoverState(id, list), UNCHANGED <<queued_paths, selected_state_index>>
    PROVE  /\ khms_states' \subseteq StateIds /\ khms_states' = khms_states \cup {id}
           /\ seeds' \in [StateIds -> Seq(Queue)]
           /\ selected_seed_index' \in [StateIds -> Nat]
           /\ state_ids' \in Seq(StateIds) /\ state_ids' # <<>>
           /\ khms_states' = Range1(state_ids') /\ InitialStateFirst'
           /\ fuzzed_map_states' = fuzzed_map_states + NewRows(id)
           /\ NewRows(id) \in Nat
           /\ fuzzed_map_states' \in 0 .. MaxRows
           /\ fuzzed_map_states' = Len(state_ids')
           /\ fuzzed_map_states' >= 1
           /\ CursorsInRange' /\ CursorStart'
<1>1. /\ fuzzed_map_states < MaxRows
      /\ khms_states' = khms_states \cup {id}
      /\ seeds' = [seeds EXCEPT ![id] = list]
      /\ selected_seed_index' = [selected_seed_index EXCEPT ![id] = 0]
      /\ state_ids' = Append(state_ids, id)
      /\ fuzzed_map_states' = fuzzed_map_states + NewRows(id)
  BY DEF DiscoverState
<1>2. /\ state_ids \in Seq(StateIds) /\ khms_states \subseteq StateIds
      /\ khms_states = Range1(state_ids)
      /\ seeds \in [StateIds -> Seq(Queue)] /\ selected_seed_index \in [StateIds -> Nat]
      /\ fuzzed_map_states \in 0 .. MaxRows /\ selected_state_index \in Nat
      /\ MaxRows \in Nat
  BY CorpusAssumption DEF IInv, TypeOK, CorpusTypeOK, TableOK
<1>3. /\ state_ids' \in Seq(StateIds) /\ state_ids' # <<>>
      /\ Len(state_ids) \in Nat /\ Len(state_ids') = Len(state_ids) + 1
      /\ \A i \in 1 .. Len(state_ids) : state_ids'[i] = state_ids[i]
      /\ state_ids'[Len(state_ids) + 1] = id
  <2>1. /\ Append(state_ids, id) \in Seq(StateIds)
        /\ Append(state_ids, id) # <<>>
        /\ Len(Append(state_ids, id)) = Len(state_ids) + 1
        /\ \A i \in 1 .. Len(state_ids) : Append(state_ids, id)[i] = state_ids[i]
        /\ Append(state_ids, id)[Len(state_ids) + 1] = id
    BY <1>2, AppendProperties
  <2> QED
    BY <1>1, <1>2, <2>1, LenProperties
<1>4. khms_states' = Range1(state_ids')
  BY <1>1, <1>2, <1>3 DEF Range1
<1>5. InitialStateFirst'
  <2>1. CASE state_ids = <<>>
    BY <1>1, <1>3, <2>1 DEF InitialStateFirst
  <2>2. CASE state_ids # <<>>
    <3>1. state_ids[1] = 0 /\ 0 \in khms_states /\ 1 \in 1 .. Len(state_ids)
      BY <1>2, <1>3, <2>2, EmptySeq DEF IInv, TableOK, InitialStateFirst
    <3> QED
      BY <1>1, <1>3, <3>1 DEF InitialStateFirst
  <2> QED
    BY <2>1, <2>2
<1>6. /\ fuzzed_map_states' = Len(state_ids') /\ fuzzed_map_states' >= 1
      /\ NewRows(id) \in Nat /\ fuzzed_map_states' \in 0 .. MaxRows
  <2>1. CASE state_ids = <<>>
    <3>1. id = 0 /\ fuzzed_map_states = 1 /\ Len(state_ids) = 0
      BY <1>2, <2>1 DEF IInv, MapDimensions, FirstRow
    <3> QED
      BY <1>1, <1>2, <1>3, <3>1 DEF NewRows
  <2>2. CASE state_ids # <<>>
    <3>1. id # 0 /\ fuzzed_map_states = Len(state_ids)
      BY <2>2 DEF IInv, MapDimensions
    <3> QED
      BY <1>1, <1>2, <1>3, <3>1 DEF NewRows
  <2> QED
    BY <2>1, <2>2
<1>7. /\ seeds' \in [StateIds -> Seq(Queue)]
      /\ selected_seed_index' \in [StateIds -> Nat]
      /\ khms_states' \subseteq StateIds
      /\ \A s \in StateIds : /\ seeds'[s] = IF s = id THEN list ELSE seeds[s]
                             /\ selected_seed_index'[s] =
                                    IF s = id THEN 0 ELSE selected_seed_index[s]
  BY <1>1, <1>2
<1>8. selected_state_index' < Len(state_ids')
  <2>1. CASE state_ids = <<>>
    BY <1>3, <2>1 DEF IInv, CursorStart
  <2>2. CASE state_ids # <<>>
    BY <1>2, <1>3, <2>2 DEF IInv, CursorsInRange
  <2> QED
    BY <2>1, <2>2
<1>9. CursorsInRange'
  <2>1. list # <<>> => 0 < Len(list)
    BY LenProperties, EmptySeq
  <2> QED
    BY <1>7, <1>8, <2>1 DEF IInv, CursorsInRange
<1>10. CursorStart'
  BY <1>3, <1>7 DEF IInv, CursorStart
<1> QED
  BY <1>1, <1>3, <1>4, <1>5, <1>6, <1>7, <1>9, <1>10

(* A state the IPSM did not have comes with its row of the map.           *)
LEMMA IpsmStepIInv == IInv /\ IpsmStep => IInv'
<1> SUFFICES ASSUME IInv, IpsmStep PROVE IInv'
  OBVIOUS
<1> DEFINE id == session.codes[pos]
<1>1. /\ phase = "ipsm"
      /\ pos' = IF pos = Len(session.codes) THEN 1 ELSE pos + 1
      /\ phase' = IF pos = Len(session.codes) THEN "annotate" ELSE "ipsm"
      /\ UNCHANGED <<queued_paths, entry, was_fuzzed, cal_failed, ratingVars,
                     favorVars, pending_favored, pending_not_fuzzed,
                     target_state_id, fuzzed_map_qentries, cur, session,
                     khs_ipsm_paths, chooseVars, queue_cur>>
  BY DEF IpsmStep
<1>2. /\ CorpusTypeOK /\ cur \in Queue /\ queued_paths > 0
      /\ pos \in 1 .. Len(session.codes) /\ (pos > 1 => state_ids # <<>>)
  BY <1>1 DEF IInv, TypeOK, ControlOK, Observing
<1>3. /\ session.codes \in Seq(StateIds) /\ Len(session.codes) \in Nat
      /\ id \in StateIds /\ (pos = 1 => id = 0)
  BY <1>2, SessionTyped, LenProperties, ElementOfSeq, EmptySeq DEF IInv, TypeOK
<1> HIDE DEF id
<1>4. CASE IsNode(id)
  <2>1. UNCHANGED <<ipsm, tableVars, state_ids, was_fuzzed_map, fuzzed_map_states>>
    BY <1>4 DEF IpsmStep, id
  <2>2. state_ids # <<>>
    BY <1>4 DEF IInv, TableOK, IsNode
  <2>3. TypeOK'
    <3>1. CorpusTypeOK'
      BY <1>1, <1>2, <2>1 DEF CorpusTypeOK, Queue, ratingVars, favorVars
    <3>2. phase' \in Phases /\ pos' \in Nat
      BY <1>1, <1>2, <1>3 DEF Phases
    <3>3. /\ options' \in Selections /\ selected_state_index' \in Nat
          /\ state_cycles' \in 0 .. WarmupCycles
      BY <1>1 DEF IInv, TypeOK, chooseVars, options
    <3>4. /\ cur' \in Entries /\ session' \in Sessions \cup {NoSession}
          /\ queue_cur' \in Queue' \cup {NoEntry}
      BY <1>1 DEF IInv, TypeOK, Queue
    <3>5. /\ khms_states' \subseteq StateIds /\ ipsm' \subseteq StateIds
          /\ seeds' \in [StateIds -> Seq(Queue')]
          /\ selected_seed_index' \in [StateIds -> Nat]
      BY <1>1, <2>1 DEF IInv, TypeOK, Queue, tableVars
    <3> QED
      BY <3>1, <3>2, <3>3, <3>4, <3>5 DEF TypeOK
  <2>4. ControlOK' /\ RatedOnce'
    <3>1. phase' = "ipsm" => pos' \in 1 .. Len(session.codes)
      BY <1>1, <1>2, <1>3
    <3>2. phase' = "annotate" => pos' >= 1
      BY <1>1, <1>2, <1>3
    <3> QED
      BY <1>1, <1>2, <2>1, <2>2, <3>1, <3>2
         DEF IInv, ControlOK, RatedOnce, Observing, ratingVars, tableVars, Queue
  <2> QED
    BY <1>1, <2>1, <2>3, <2>4, RatingFrame, MapFrame, TurnFrame, CellFrame, TableFrame,
       CursorFrame DEF IInv, mapVars, chooseVars
<1>5. CASE ~IsNode(id)
  <2>1. /\ ipsm' = ipsm \cup {id} /\ DiscoverState(id, <<>>)
        /\ was_fuzzed_map' = ExpandedMap(NewRows(id), 0)
    BY <1>5 DEF IpsmStep, id
  <2>2. state_ids = <<>> <=> id = 0
    <3>1. state_ids # <<>> => id # 0
      BY <1>5 DEF IInv, TableOK, IsNode
    <3>2. state_ids = <<>> => id = 0
      BY <1>2, <1>3
    <3> QED
      BY <3>1, <3>2
  <2>3. /\ khms_states' \subseteq StateIds /\ khms_states' = khms_states \cup {id}
        /\ seeds' \in [StateIds -> Seq(Queue)]
        /\ selected_seed_index' \in [StateIds -> Nat]
        /\ state_ids' \in Seq(StateIds) /\ state_ids' # <<>>
        /\ khms_states' = Range1(state_ids') /\ InitialStateFirst'
        /\ fuzzed_map_states' = fuzzed_map_states + NewRows(id)
        /\ NewRows(id) \in Nat
        /\ fuzzed_map_states' \in 0 .. MaxRows
        /\ fuzzed_map_states' = Len(state_ids')
        /\ fuzzed_map_states' >= 1
        /\ CursorsInRange' /\ CursorStart'
    <3>1. <<>> \in Seq(Queue) /\ Len(<<>>) <= 1
      OBVIOUS
    <3>2. UNCHANGED <<queued_paths, selected_state_index>>
      BY <1>1 DEF chooseVars
    <3> QED
      BY <1>2, <1>3, <2>1, <2>2, <3>1, <3>2, DiscoverStateCorrect
  <2>4. /\ was_fuzzed_map' \in [Rows -> [Entries -> Cells]]
        /\ AllocatedExactly(was_fuzzed_map', fuzzed_map_states', fuzzed_map_qentries')
        /\ \A r \in Rows, q \in Entries :
              was_fuzzed_map'[r][q] = Fuzzed => was_fuzzed_map[r][q] = Fuzzed
    <3>1. fuzzed_map_states \in Nat /\ fuzzed_map_qentries \in Nat
      BY IInvMap, CorpusAssumption
    <3>2. fuzzed_map_qentries + 0 = fuzzed_map_qentries'
      BY <1>1, <3>1
    <3> DEFINE none == 0
               M == ExpandedMap(NewRows(id), none)
    <3>3. none \in Nat /\ fuzzed_map_qentries + none = fuzzed_map_qentries'
      BY <3>2
    <3> HIDE DEF none
    <3>4. /\ M \in [Rows -> [Entries -> Cells]]
          /\ AllocatedExactly(M, fuzzed_map_states + NewRows(id), fuzzed_map_qentries + none)
          /\ \A r \in Rows, q \in Entries :
                M[r][q] = Fuzzed => was_fuzzed_map[r][q] = Fuzzed
      BY <2>3, <3>1, <3>3, IInvMap, ExpandedMapCorrect
    <3>5. was_fuzzed_map' = M
      BY <2>1 DEF none
    <3> HIDE DEF M
    <3> QED
      BY <2>3, <3>3, <3>4, <3>5
  <2>5. TypeOK'
    <3>1. CorpusTypeOK'
      BY <1>1, <1>2, <2>3, <2>4 DEF CorpusTypeOK, Queue, ratingVars, favorVars
    <3>2. pos' \in Nat /\ phase' \in Phases
      BY <1>1, <1>2, <1>3 DEF Phases
    <3> QED
      BY <1>1, <1>3, <2>1, <2>3, <3>1, <3>2 DEF IInv, TypeOK, Queue, chooseVars, options
  <2>6. ControlOK' /\ RatedOnce'
    <3>1. phase' = "ipsm" => pos' \in 1 .. Len(session.codes)
      BY <1>1, <1>2, <1>3
    <3>2. phase' = "annotate" => pos' >= 1
      BY <1>1, <1>2, <1>3
    <3> QED
      BY <1>1, <1>2, <2>3, <3>1, <3>2
         DEF IInv, ControlOK, RatedOnce, Observing, ratingVars, Queue
  <2>7. MapDimensions' /\ FirstRow'
    BY <1>1, <1>2, <2>3, <2>4 DEF IInv, MapDimensions, FirstRow, AllocatedExactly
  <2>8. FuzzedIsRecorded'
    BY <1>1, <2>4 DEF IInv, FuzzedIsRecorded
  <2>9. TableOK'
    BY <2>1, <2>2, <2>3 DEF IInv, TableOK
  <2> QED
    BY <1>1, <2>3, <2>5, <2>6, <2>7, <2>8, <2>9, RatingFrame, TurnFrame DEF IInv
<1> QED
  BY <1>4, <1>5

(* The entry becomes a seed of a state, which may be new to the table.    *)
LEMMA RegionStepIInv == IInv /\ RegionStep => IInv'
<1> SUFFICES ASSUME IInv, RegionStep PROVE IInv'
  OBVIOUS
<1> DEFINE region == entry[cur].regions[pos]
           id == region.last
<1>1. /\ phase = "regions" /\ pos <= Len(entry[cur].regions) /\ pos' = pos + 1
      /\ UNCHANGED <<queued_paths, entry, was_fuzzed, cal_failed, ratingVars,
                     favorVars, pending_favored, pending_not_fuzzed,
                     target_state_id, fuzzed_map_qentries, phase, cur, session,
                     ipsmVars, chooseVars, queue_cur>>
  BY DEF RegionStep
<1>2. /\ CorpusTypeOK /\ cur \in Queue /\ cur \in Entries /\ queued_paths > 0
      /\ pos \in Nat /\ pos >= 1 /\ state_ids # <<>> /\ 0 \in khms_states
      /\ cur \notin was_fuzzed
  BY <1>1 DEF IInv, TypeOK, ControlOK, RatedOnce, TableOK, InitialStateFirst, Observing
<1>3. id \in StateIds
  <2>1. entry[cur].regions \in Seq(Region)
    BY <1>2 DEF CorpusTypeOK, Entry
  <2>2. region \in Region
    BY <1>1, <1>2, <2>1, ElementOfSeq, LenProperties
  <2> QED
    BY <2>2 DEF Region
<1> HIDE DEF id
<1>4. ControlOK' \/ state_ids' = <<>> \/ ~(khms_states \subseteq khms_states')
  BY <1>1, <1>2 DEF IInv, ControlOK, Observing, Queue
<1>5. RatedOnce'
  BY <1>1 DEF IInv, RatedOnce, ratingVars
<1>6. CASE region.state_count = 0
  <2>1. UNCHANGED <<tableVars, state_ids, was_fuzzed_map, fuzzed_map_states>>
    BY <1>6 DEF RegionStep, id
  <2>2. TypeOK'
    <3>1. CorpusTypeOK'
      BY <1>1, <1>2, <2>1 DEF CorpusTypeOK, Queue, ratingVars, favorVars
    <3> QED
      BY <1>1, <1>2, <2>1, <3>1 DEF IInv, TypeOK, Queue, tableVars, ipsmVars, chooseVars, options
  <2> QED
    BY <1>1, <1>2, <1>4, <1>5, <2>1, <2>2, RatingFrame, MapFrame, TurnFrame, CellFrame,
       TableFrame, CursorFrame DEF IInv, mapVars, tableVars, ipsmVars, chooseVars
<1>7. ASSUME NEW M \in [Rows -> [Entries -> Cells]], NEW row \in Rows,
             \A r \in Rows, q \in Entries :
                 M[r][q] = Fuzzed => was_fuzzed_map[r][q] = Fuzzed,
             AllocatedExactly(M, fuzzed_map_states', fuzzed_map_qentries),
             fuzzed_map_states' \in Nat, row < fuzzed_map_states',
             was_fuzzed_map' = [M EXCEPT ![row][cur] = Reachable]
      PROVE  /\ was_fuzzed_map' \in [Rows -> [Entries -> Cells]]
             /\ AllocatedExactly(was_fuzzed_map', fuzzed_map_states', fuzzed_map_qentries')
             /\ FuzzedIsRecorded'
  <2>1. Reachable \in Cells /\ Reachable # Unallocated /\ Reachable # Fuzzed
    BY DEF Cells, Reachable, Unallocated, Fuzzed
  <2>2. /\ was_fuzzed_map' \in [Rows -> [Entries -> Cells]]
        /\ \A r \in Rows, q \in Entries : was_fuzzed_map'[r][q] =
              IF r = row /\ q = cur THEN Reachable ELSE M[r][q]
    BY <1>2, <1>7, <2>1
  <2>3. /\ fuzzed_map_qentries \in Nat /\ cur < fuzzed_map_qentries /\ cur \in Nat
        /\ fuzzed_map_qentries' = fuzzed_map_qentries /\ row \in Nat
    BY <1>1, <1>2, CorpusAssumption DEF IInv, MapDimensions, CorpusTypeOK, Queue, Rows
  <2>4. AllocatedExactly(was_fuzzed_map', fuzzed_map_states', fuzzed_map_qentries')
    BY <1>7, <2>1, <2>2, <2>3 DEF AllocatedExactly
  <2>5. FuzzedIsRecorded'
    BY <1>1, <1>7, <2>1, <2>2 DEF IInv, FuzzedIsRecorded
  <2> QED
    BY <2>2, <2>4, <2>5
<1>8. CASE region.state_count # 0 /\ id \in khms_states
  <2>1. /\ seeds' = [seeds EXCEPT ![id] = Append(@, cur)]
        /\ was_fuzzed_map' = [was_fuzzed_map EXCEPT ![StateIndex(id)][cur] = Reachable]
        /\ UNCHANGED <<khms_states, selected_seed_index, state_ids, fuzzed_map_states>>
    BY <1>8 DEF RegionStep, id
  <2>2. /\ seeds' \in [StateIds -> Seq(Queue)] /\ CursorsInRange' /\ CursorStart'
    BY <1>1, <1>2, <1>3, <2>1, SeedAdded DEF chooseVars
  <2>3. /\ StateIndex(id) \in Rows /\ StateIndex(id) < fuzzed_map_states'
        /\ fuzzed_map_states' \in Nat
    <3>1. \E i \in 1 .. Len(state_ids) : state_ids[i] = id
      BY <1>8 DEF IInv, TableOK, Range1
    <3>2. state_ids \in Seq(StateIds) /\ fuzzed_map_states = Len(state_ids)
      BY <1>2 DEF IInv, MapDimensions, CorpusTypeOK
    <3>3. StateIndex(id) \in Nat /\ StateIndex(id) < Len(state_ids) /\ Len(state_ids) \in Nat
      BY <3>1, <3>2, StateIndexCorrect, LenProperties
    <3> QED
      BY <2>1, <3>2, <3>3, IInvMap, CorpusAssumption DEF Rows
  <2>4. /\ was_fuzzed_map' \in [Rows -> [Entries -> Cells]]
        /\ AllocatedExactly(was_fuzzed_map', fuzzed_map_states', fuzzed_map_qentries')
        /\ FuzzedIsRecorded'
    BY <1>7, <2>1, <2>3, IInvMap
  <2>5. TypeOK'
    <3>1. CorpusTypeOK'
      BY <1>1, <1>2, <2>1, <2>4 DEF CorpusTypeOK, Queue, ratingVars, favorVars
    <3> QED
      BY <1>1, <1>2, <2>1, <2>2, <3>1 DEF IInv, TypeOK, Queue, ipsmVars, chooseVars, options
  <2>6. MapDimensions' /\ FirstRow'
    BY <1>1, <1>2, <2>1, <2>4 DEF IInv, MapDimensions, FirstRow, AllocatedExactly
  <2>7. TableOK'
    BY <1>1, <2>1 DEF IInv, TableOK, InitialStateFirst, Range1, ipsmVars
  <2> QED
    BY <1>1, <1>2, <1>4, <1>5, <2>1, <2>2, <2>4, <2>5, <2>6, <2>7, RatingFrame, TurnFrame
       DEF IInv
<1>9. CASE region.state_count # 0 /\ id \notin khms_states
  <2>1. /\ DiscoverState(id, <<cur>>)
        /\ was_fuzzed_map' = [ExpandedMap(NewRows(id), 0)
                                 EXCEPT ![StateIndex(id)][cur] = Reachable]
    BY <1>9 DEF RegionStep, id
  <2>2. /\ khms_states' \subseteq StateIds /\ khms_states' = khms_states \cup {id}
        /\ seeds' \in [StateIds -> Seq(Queue)]
        /\ selected_seed_index' \in [StateIds -> Nat]
        /\ state_ids' \in Seq(StateIds) /\ state_ids' # <<>>
        /\ khms_states' = Range1(state_ids') /\ InitialStateFirst'
        /\ fuzzed_map_states' = fuzzed_map_states + NewRows(id)
        /\ NewRows(id) \in Nat
        /\ fuzzed_map_states' \in 0 .. MaxRows
        /\ fuzzed_map_states' = Len(state_ids')
        /\ fuzzed_map_states' >= 1
        /\ CursorsInRange' /\ CursorStart'
    <3>1. <<cur>> \in Seq(Queue) /\ Len(<<cur>>) <= 1
      BY <1>2
    <3>2. state_ids = <<>> <=> id = 0
      BY <1>2, <1>9
    <3>3. UNCHANGED <<queued_paths, selected_state_index>>
      BY <1>1 DEF chooseVars
    <3> QED
      BY <1>2, <1>3, <2>1, <3>1, <3>2, <3>3, DiscoverStateCorrect
  <2> DEFINE none == 0
             M == ExpandedMap(NewRows(id), none)
  <2>3. /\ M \in [Rows -> [Entries -> Cells]]
        /\ AllocatedExactly(M, fuzzed_map_states', fuzzed_map_qentries)
        /\ \A r \in Rows, q \in Entries : M[r][q] = Fuzzed => was_fuzzed_map[r][q] = Fuzzed
    <3>1. fuzzed_map_states \in Nat /\ fuzzed_map_qentries \in Nat
      BY IInvMap, CorpusAssumption
    <3>2. fuzzed_map_qentries + 0 = fuzzed_map_qentries
      BY <3>1
    <3>3. none \in Nat /\ fuzzed_map_qentries + none = fuzzed_map_qentries
      BY <3>2
    <3> HIDE DEF none
    <3>4. /\ M \in [Rows -> [Entries -> Cells]]
          /\ AllocatedExactly(M, fuzzed_map_states + NewRows(id), fuzzed_map_qentries + none)
          /\ \A r \in Rows, q \in Entries :
                M[r][q] = Fuzzed => was_fuzzed_map[r][q] = Fuzzed
      BY <2>2, <3>1, <3>3, IInvMap, ExpandedMapCorrect
    <3> HIDE DEF M
    <3> QED
      BY <2>2, <3>3, <3>4
  <2>4. StateIndex(id) \in Rows /\ StateIndex(id) < fuzzed_map_states'
    <3>1. \A i \in 1 .. Len(state_ids) : state_ids[i] # id
      BY <1>9 DEF IInv, TableOK, Range1
    <3>2. state_ids \in Seq(StateIds) /\ fuzzed_map_states = Len(state_ids)
      BY <1>2 DEF IInv, MapDimensions, CorpusTypeOK
    <3>3. StateIndex(id) = Len(state_ids) /\ Len(state_ids) \in Nat
      BY <3>1, <3>2, StateIndexCorrect, LenProperties
    <3>4. NewRows(id) = 1
      BY <1>2, <1>9 DEF NewRows
    <3> QED
      BY <2>2, <3>2, <3>3, <3>4, CorpusAssumption DEF Rows
  <2>5. /\ was_fuzzed_map' \in [Rows -> [Entries -> Cells]]
        /\ AllocatedExactly(was_fuzzed_map', fuzzed_map_states', fuzzed_map_qentries')
        /\ FuzzedIsRecorded'
    <3> HIDE DEF M
    <3>1. was_fuzzed_map' = [M EXCEPT ![StateIndex(id)][cur] = Reachable]
      BY <2>1 DEF M
    <3>2. fuzzed_map_states' \in Nat
      BY <2>2
    <3> QED
      BY <1>7, <2>3, <2>4, <3>1, <3>2
  <2>6. TypeOK'
    <3>1. CorpusTypeOK'
      BY <1>1, <1>2, <2>2, <2>5 DEF CorpusTypeOK, Queue, ratingVars, favorVars
    <3>2. pos' \in Nat
      BY <1>1, <1>2
    <3> QED
      BY <1>1, <2>2, <3>1, <3>2 DEF IInv, TypeOK, Queue, ipsmVars, chooseVars, options
  <2>7. MapDimensions' /\ FirstRow'
    BY <1>1, <1>2, <2>2, <2>5 DEF IInv, MapDimensions, FirstRow, AllocatedExactly
  <2>8. TableOK'
    BY <1>1, <1>2, <2>2 DEF IInv, TableOK, ipsmVars
  <2> QED
    BY <1>1, <1>4, <1>5, <2>2, <2>5, <2>6, <2>7, <2>8, RatingFrame, TurnFrame DEF IInv
<1> QED
  BY <1>6, <1>8, <1>9

-----------------------------------------------------------------------------

(* The cull that ends the dry run.                                        *)
LEMMA StartFuzzingIInv == IInv /\ StartFuzzing => IInv'
<1> SUFFICES ASSUME IInv, StartFuzzing PROVE IInv'
  OBVIOUS
<1>1. /\ phase = "start" /\ CullQueue(target_state_id)
      /\ phase' = IF cal_failed = Queue \/ state_ids = <<>> THEN "fatal" ELSE "select"
      /\ UNCHANGED <<queued_paths, entry, was_fuzzed, cal_failed, top_rated, tc_ref,
                     trace_mini, pending_not_fuzzed, state_ids, target_state_id,
                     mapVars, cur, session, pos, tableVars, ipsmVars, chooseVars,
                     queue_cur>>
  BY DEF StartFuzzing
<1>2. /\ favored' \subseteq Queue /\ fs_redundant' \subseteq Queue
      /\ score_changed' \in BOOLEAN
      /\ queued_favored' \in Nat /\ pending_favored' \in 0 .. U32Max
  BY <1>1, CullQueueCorrect DEF IInv, TypeOK
<1>3. TypeOK'
  BY <1>1, <1>2 DEF IInv, TypeOK, CorpusTypeOK, Queue, Phases, mapVars, tableVars,
     ipsmVars, chooseVars, options
<1>4. RefCountExact' /\ WinnerKeepsTrace'
  BY <1>1 DEF IInv, RefCountExact, WinnerKeepsTrace
<1>5. ControlOK' /\ RatedOnce'
  BY <1>1 DEF IInv, ControlOK, RatedOnce, Observing, tableVars
<1> QED
  BY <1>1, <1>3, <1>4, <1>5, MapFrame, TurnFrame, CellFrame, TableFrame, CursorFrame
     DEF IInv, ipsmVars, chooseVars

(* A position in a list, taken around its end, is a position in it.        *)
LEMMA CyclicPosition ==
    ASSUME NEW n \in Nat, n > 0, NEW k \in Nat
    PROVE  k % n \in 0 .. n - 1
OBVIOUS

(* choose_seed returns a seed of the target, and leaves the cursor inside  *)
(* the list.                                                               *)
LEMMA ChooseSeedCorrect ==
    ASSUME IInv, NEW t \in StateIds, NEW pending, NEW fav,
           NEW choice \in ChooseSeed(t, pending, fav)
    PROVE  /\ choice[1] \in Queue \cup {NoEntry}
           /\ choice[1] \in Range1(seeds[t]) \cup {NoEntry}
           /\ choice[2] \in Nat
           /\ seeds[t] # <<>> => choice[2] < Len(seeds[t])
           /\ seeds[t] = <<>> => choice[2] = selected_seed_index[t]
<1> DEFINE list == seeds[t]
           n == Len(list)
           i == selected_seed_index[t]
<1>1. /\ list \in Seq(Queue) /\ n \in Nat /\ i \in Nat
      /\ list # <<>> => n > 0 /\ i < n
  BY LenProperties, EmptySeq DEF IInv, TypeOK, CursorsInRange
<1>2. \A k \in 1 .. n : list[k] \in Queue /\ list[k] \in Range1(list)
  BY <1>1, ElementOfSeq DEF Range1
<1>3. CASE n = 0
  <2>1. choice = <<NoEntry, i>>
    <3>1. ~(n > 0) /\ ~(n > FewSeeds)
      BY <1>3, StateAwareAssumption
    <3> QED
      BY <1>3, <3>1 DEF ChooseSeed
  <2>2. list = <<>> /\ choice[1] = NoEntry /\ choice[2] = i
    BY <1>1, <1>3, <2>1
  <2> QED
    BY <1>1, <2>2
<1>4. CASE n > 0 /\ choice \in {<<list[k + 1], k>> : k \in 0 .. n - 1}
  <2>1. PICK k \in 0 .. n - 1 : choice = <<list[k + 1], k>>
    BY <1>4
  <2>2. choice[1] = list[k + 1] /\ choice[2] = k /\ k + 1 \in 1 .. n
    BY <1>1, <2>1
  <2> QED
    BY <1>1, <1>2, <1>4, <2>2
<1>5. CASE n > 0 /\ choice = <<list[i + 1], Wrap(i, n)>>
  <2>1. choice[1] = list[i + 1] /\ choice[2] = Wrap(i, n)
    BY <1>5
  <2>2. n > 0 /\ list # <<>>
    BY <1>5
  <2>3. i + 1 \in 1 .. n /\ Wrap(i, n) \in Nat /\ Wrap(i, n) < n
    BY <1>1, <2>2 DEF Wrap
  <2> QED
    BY <1>2, <2>1, <2>2, <2>3
<1>6. CASE n > 0 /\ choice \in FavorScan(t, pending, fav)
  <2>1. CASE choice = <<list[n], 0>>
    BY <1>1, <1>2, <1>6, <2>1
  <2>2. CASE \E k \in 0 .. n - 1 :
                 choice = <<list[((i + k) % n) + 1], (i + k + 1) % n>>
    <3>1. PICK k \in 0 .. n - 1 :
                   choice = <<list[((i + k) % n) + 1], (i + k + 1) % n>>
      BY <2>2
    <3> HIDE DEF list, n, i
    <3>2. i + k \in Nat /\ i + k + 1 \in Nat
      BY <1>1, <3>1
    <3>3. (i + k) % n \in 0 .. n - 1 /\ (i + k + 1) % n \in 0 .. n - 1
      BY <1>1, <1>6, <3>2, CyclicPosition
    <3>4. choice[1] = list[((i + k) % n) + 1] /\ choice[2] = (i + k + 1) % n
      BY <3>1
    <3>5. ((i + k) % n) + 1 \in 1 .. n
      BY <1>1, <3>3
    <3>6. choice[2] \in Nat /\ choice[2] < n /\ choice[1] \in Queue /\ choice[1] \in Range1(list)
      BY <1>1, <1>2, <3>3, <3>4, <3>5
    <3> QED
      BY <1>1, <1>6, <3>6 DEF list, n
  <2> QED
    BY <1>6, <2>1, <2>2 DEF FavorScan
<1>7. n > 0 => \/ choice \in {<<list[k + 1], k>> : k \in 0 .. n - 1}
               \/ choice = <<list[i + 1], Wrap(i, n)>>
               \/ choice \in FavorScan(t, pending, fav)
  BY <1>1 DEF ChooseSeed
<1> QED
  BY <1>1, <1>3, <1>4, <1>5, <1>6, <1>7

(* A cull, and a cursor that moves inside the list of the target.         *)
LEMMA SelectSeedIInv == IInv /\ SelectSeed => IInv'
<1> SUFFICES ASSUME IInv, SelectSeed PROVE IInv'
  OBVIOUS
<1>1. PICK t \in StateIds :
          /\ ChooseTargetState(t) /\ CullQueue(t) /\ target_state_id' = t
          /\ \E choice \in ChooseSeed(t, pending_favored', favored') :
                /\ selected_seed_index' = [selected_seed_index EXCEPT ![t] = choice[2]]
                /\ \/ queue_cur' = NoEntry /\ phase' = "select"
                   \/ choice[1] # NoEntry /\ queue_cur' = choice[1] /\ phase' = "fuzz"
  BY DEF SelectSeed
<1>2. PICK choice \in ChooseSeed(t, pending_favored', favored') :
          /\ selected_seed_index' = [selected_seed_index EXCEPT ![t] = choice[2]]
          /\ \/ queue_cur' = NoEntry /\ phase' = "select"
             \/ choice[1] # NoEntry /\ queue_cur' = choice[1] /\ phase' = "fuzz"
  BY <1>1
<1>3. /\ phase = "select"
      /\ UNCHANGED <<queued_paths, entry, was_fuzzed, cal_failed, top_rated, tc_ref,
                     trace_mini, pending_not_fuzzed, state_ids, mapVars, cur,
                     session, pos, khms_states, seeds, ipsmVars, options>>
  BY DEF SelectSeed
<1>4. /\ favored' \subseteq Queue /\ fs_redundant' \subseteq Queue
      /\ score_changed' \in BOOLEAN
      /\ queued_favored' \in Nat /\ pending_favored' \in 0 .. U32Max
  BY <1>1, CullQueueCorrect DEF IInv, TypeOK
<1>5. /\ choice[1] \in Queue \cup {NoEntry} /\ choice[2] \in Nat
      /\ seeds[t] # <<>> => choice[2] < Len(seeds[t])
      /\ seeds[t] = <<>> => choice[2] = selected_seed_index[t]
  BY ChooseSeedCorrect
<1>6. /\ state_ids # <<>> /\ state_ids \in Seq(StateIds) /\ Len(state_ids) \in Nat
      /\ Len(state_ids) > 0
      /\ selected_state_index \in Nat /\ selected_state_index < Len(state_ids)
      /\ state_cycles \in 0 .. WarmupCycles
  BY <1>3, LenProperties, EmptySeq
     DEF IInv, ControlOK, TypeOK, CorpusTypeOK, CursorsInRange
<1>7. /\ t \in Range1(state_ids)
      /\ selected_state_index' \in Nat /\ selected_state_index' < Len(state_ids)
      /\ state_cycles' \in 0 .. WarmupCycles
  <2> DEFINE n == Len(state_ids)
             round_robin == /\ t = state_ids[selected_state_index + 1]
                            /\ selected_state_index' = Wrap(selected_state_index, n)
  <2>1. \/ /\ \E i \in 0 .. n - 1 : t = state_ids[i + 1] /\ selected_state_index' = i
           /\ state_cycles' = state_cycles
        \/ round_robin /\ state_cycles' = state_cycles
        \/ /\ state_cycles < WarmupCycles
           /\ round_robin
           /\ state_cycles' \in {state_cycles, state_cycles + 1}
        \/ /\ t \in Range1(state_ids)
           /\ selected_state_index' = selected_state_index /\ state_cycles' = state_cycles
    BY <1>1 DEF ChooseTargetState, chooseVars
  <2>2. /\ Wrap(selected_state_index, n) \in Nat /\ Wrap(selected_state_index, n) < n
        /\ selected_state_index + 1 \in 1 .. n
    BY <1>6 DEF Wrap
  <2>3. \A k \in 1 .. n : state_ids[k] \in Range1(state_ids)
    BY DEF Range1
  <2>4. \A i \in 0 .. n - 1 : i + 1 \in 1 .. n
    BY <1>6
  <2>5. t \in Range1(state_ids)
    BY <2>1, <2>2, <2>3, <2>4
  <2>6. selected_state_index' \in Nat /\ selected_state_index' < n
    BY <1>6, <2>1, <2>2
  <2>7. state_cycles' \in 0 .. WarmupCycles
    BY <1>6, <2>1, StateAwareAssumption
  <2> QED
    BY <2>5, <2>6, <2>7
<1>8. TypeOK'
  <2>1. CorpusTypeOK'
    BY <1>1, <1>3, <1>4 DEF IInv, TypeOK, CorpusTypeOK, Queue, mapVars
  <2>2. selected_seed_index' \in [StateIds -> Nat]
    BY <1>2, <1>5 DEF IInv, TypeOK
  <2>3. queue_cur' \in Queue \cup {NoEntry} /\ phase' \in Phases
    BY <1>2, <1>5 DEF Phases
  <2> QED
    BY <1>3, <1>7, <2>1, <2>2, <2>3 DEF IInv, TypeOK, Queue, ipsmVars, options
<1>9. RefCountExact' /\ WinnerKeepsTrace'
  BY <1>3 DEF IInv, RefCountExact, WinnerKeepsTrace
<1>10. CursorsInRange' /\ CursorStart'
  <2>1. \A s \in StateIds :
            selected_seed_index'[s] = IF s = t THEN choice[2] ELSE selected_seed_index[s]
    BY <1>2 DEF IInv, TypeOK
  <2> QED
    BY <1>3, <1>5, <1>6, <1>7, <2>1 DEF IInv, CursorsInRange, CursorStart
<1>11. ControlOK' /\ RatedOnce'
  <2>1. target_state_id' \in khms_states'
    BY <1>1, <1>3, <1>7 DEF IInv, TableOK
  <2>2. phase' \in {"select", "fuzz"} /\ (phase' = "fuzz" => queue_cur' # NoEntry)
    BY <1>2
  <2>3. RatedOnce'
    BY <2>2 DEF RatedOnce, Observing
  <2> QED
    BY <1>3, <1>6, <2>1, <2>2, <2>3 DEF IInv, ControlOK, Observing
<1>12. TableOK'
  BY <1>3 DEF IInv, TableOK, InitialStateFirst, Range1, ipsmVars
<1> QED
  BY <1>3, <1>8, <1>9, <1>10, <1>11, <1>12, MapFrame, TurnFrame, CellFrame DEF IInv

(* A step that changes nothing.                                           *)
LEMMA StutterIInv == IInv /\ UNCHANGED vars => IInv'
<1> SUFFICES ASSUME IInv, UNCHANGED vars PROVE IInv'
  OBVIOUS
<1> USE DEF vars, corpusVars, tableVars, ipsmVars, chooseVars
<1>1. TypeOK'
  BY DEF IInv, TypeOK, CorpusTypeOK, Queue, options, ratingVars, favorVars, mapVars
<1>2. ControlOK'
  BY DEF IInv, ControlOK, Observing, Queue
<1>3. RatedOnce'
  BY DEF IInv, RatedOnce, Observing, ratingVars
<1> QED
  BY <1>1, <1>2, <1>3, RatingFrame, MapFrame, TurnFrame, CellFrame, TableFrame, CursorFrame
     DEF IInv

(* Every step of the loop keeps the invariant.                             *)
LEMMA NextIInv == IInv /\ [Next]_vars => IInv'
<1> SUFFICES ASSUME IInv, [Next]_vars PROVE IInv'
  OBVIOUS
<1>1. CASE ReadTestcase
  BY <1>1, ReadTestcaseIInv
<1>2. CASE FinishReading
  BY <1>2, FinishReadingIInv
<1>3. CASE DryRun
  BY <1>3, DryRunIInv
<1>4. CASE ObserveResponse
  BY <1>4, ObserveResponseIInv
<1>5. CASE IpsmStep
  BY <1>5, IpsmStepIInv
<1>6. CASE AnnotateRegions
  BY <1>6, AnnotateRegionsIInv
<1>7. CASE RegionStep
  BY <1>7, RegionStepIInv
<1>8. CASE FinishRegions
  BY <1>8, FinishRegionsIInv
<1>9. CASE StartFuzzing
  BY <1>9, StartFuzzingIInv
<1>10. CASE SelectSeed
  BY <1>10, SelectSeedIInv
<1>11. CASE KeepTestcase
  BY <1>11, KeepTestcaseIInv
<1>12. CASE Calibrate
  BY <1>12, CalibrateIInv
<1>13. CASE FinishFuzzOne
  BY <1>13, FinishFuzzOneIInv
<1>14. CASE Stop
  BY <1>14, StopIInv
<1>15. CASE Exited \/ UNCHANGED vars
  BY <1>15, StutterIInv DEF Exited
<1> QED
  BY <1>1, <1>2, <1>3, <1>4, <1>5, <1>6, <1>7, <1>8, <1>9, <1>10, <1>11, <1>12, <1>13,
     <1>14, <1>15 DEF Next, Progress

(* The invariant holds in every reachable state.                           *)
THEOREM Invariance == Spec => []IInv
<1>1. Init => IInv
  BY InitIInv
<1>2. IInv /\ [Next]_vars => IInv'
  BY NextIInv
<1> QED
  BY <1>1, <1>2, PTL DEF Spec

-----------------------------------------------------------------------------
(* What the invariant says of the reachable states, property by property. *)

(* Every variable of the loop stays in its type, the u32 counters and the *)
(* cells of was_fuzzed_map included.                                      *)
THEOREM TypeCorrect == Spec => []TypeOK
<1>1. IInv => TypeOK
  BY DEF IInv
<1> QED
  BY <1>1, Invariance, PTL

(* update_bitmap_score frees a trace_mini exactly when its entry holds no *)
(* slot any more: tc_ref is the number of its slots.                      *)
THEOREM ReferenceCounting == Spec => []RefCountExact
<1>1. IInv => RefCountExact
  BY DEF IInv
<1> QED
  BY <1>1, Invariance, PTL

(* The trace_mini that cull_queue reads through top_rated is there and has*)
(* the byte of the slot.                                                  *)
THEOREM TracesKept == Spec => []WinnerKeepsTrace
<1>1. IInv => WinnerKeepsTrace
  BY DEF IInv
<1> QED
  BY <1>1, Invariance, PTL

(* was_fuzzed_map has a row per state and a column per entry: the indices *)
(* of cull_queue, choose_seed, fuzz_one and update_state_aware_variables  *)
(* stay inside the allocated cells.                                       *)
THEOREM MapFits == Spec => []MapDimensions
<1>1. IInv => MapDimensions
  BY DEF IInv
<1> QED
  BY <1>1, Invariance, PTL

(* pending_not_fuzzed counts the entries whose turn is not recorded, so it*)
(* never wraps around.                                                    *)
THEOREM PendingCount == Spec => []PendingExact
<1>1. IInv => PendingExact
  BY DEF IInv
<1> QED
  BY <1>1, Invariance, PTL

(* choose_target_state and choose_seed never read past the end of a list. *)
THEOREM CursorsFit == Spec => []CursorsInRange
<1>1. IInv => CursorsInRange
  BY DEF IInv
<1> QED
  BY <1>1, Invariance, PTL

(* Row 0, which update_state_aware_variables writes for state 0 without a *)
(* look at state_ids, is the row of state 0.                              *)
THEOREM InitialStateRow == Spec => []InitialStateFirst
<1>1. IInv => InitialStateFirst
  BY DEF IInv, TableOK
<1> QED
  BY <1>1, Invariance, PTL

(* A trace is freed when its last slot is lost and not before: what        *)
(* cull_queue reads through top_rated is there, and nothing is leaked.     *)
THEOREM TracesAreHeld == Spec => []TracesHeld
<1>1. RefCountExact /\ WinnerKeepsTrace => TracesHeld
  BY DEF TracesHeld
<1> QED
  BY <1>1, ReferenceCounting, TracesKept, PTL

(* All indices of the state-aware mode are inside what they index.         *)
THEOREM IndicesAlwaysFit == Spec => []IndicesFit
<1>1. MapDimensions /\ CursorsInRange /\ InitialStateFirst => IndicesFit
  BY DEF IndicesFit
<1> QED
  BY <1>1, MapFits, CursorsFit, InitialStateRow, PTL

-----------------------------------------------------------------------------
(* The cells of was_fuzzed_map                                             *)

CellsGrow ==
    \A r \in Rows, q \in Entries : was_fuzzed_map[r][q] <= was_fuzzed_map'[r][q]

(* Fuzzed is the largest of the cells, and only Fuzzed is above Reachable. *)
LEMMA CellOrder ==
    ASSUME IInv
    PROVE  \A r \in Rows, q \in Entries :
              /\ was_fuzzed_map[r][q] \in Int /\ was_fuzzed_map[r][q] <= Fuzzed
              /\ was_fuzzed_map[r][q] # Fuzzed => was_fuzzed_map[r][q] <= Reachable
<1>1. \A r \in Rows, q \in Entries : was_fuzzed_map[r][q] \in Cells
  BY IInvMap
<1>2. \A v \in Cells : v \in Int /\ v <= Fuzzed /\ (v # Fuzzed => v <= Reachable)
  BY DEF Cells, Unallocated, Unreachable, Reachable, Fuzzed
<1> QED
  BY <1>1, <1>2

(* A map that is left alone has not shrunk.                                *)
LEMMA CellsKept ==
    ASSUME IInv, UNCHANGED was_fuzzed_map
    PROVE  CellsGrow
<1>1. \A r \in Rows, q \in Entries :
         was_fuzzed_map[r][q] \in Int /\ was_fuzzed_map'[r][q] = was_fuzzed_map[r][q]
  BY CellOrder
<1> QED
  BY <1>1 DEF CellsGrow

(* expand_was_fuzzed_map with rows only.                                   *)
LEMMA ExpandedRows ==
    ASSUME IInv, NEW id \in StateIds
    PROVE  /\ ExpandedMap(NewRows(id), 0) \in [Rows -> [Entries -> Cells]]
           /\ \A r \in Rows, q \in Entries :
                 was_fuzzed_map[r][q] <= ExpandedMap(NewRows(id), 0)[r][q]
<1> DEFINE none == 0
           rows == NewRows(id)
<1>1. none \in Nat /\ rows \in Nat
  BY DEF NewRows
<1>2. fuzzed_map_states \in Nat /\ fuzzed_map_qentries \in Nat
  BY IInvMap, CorpusAssumption
<1> HIDE DEF none, rows
<1>3. /\ ExpandedMap(rows, none) \in [Rows -> [Entries -> Cells]]
      /\ \A r \in Rows, q \in Entries :
            was_fuzzed_map[r][q] <= ExpandedMap(rows, none)[r][q]
  BY <1>1, <1>2, IInvMap, ExpandedMapCorrect
<1> QED
  BY <1>3 DEF none, rows

(* The cell of an entry whose turn is not recorded becomes Reachable.      *)
LEMMA AnnotateGrows == IInv /\ AnnotateRegions => CellsGrow
<1> SUFFICES ASSUME IInv, AnnotateRegions, 0 \in khms_states,
                    NEW r \in Rows, NEW q \in Entries
             PROVE  was_fuzzed_map[r][q] <= was_fuzzed_map'[r][q]
  BY CellsKept DEF AnnotateRegions, CellsGrow
<1>1. was_fuzzed_map' = [was_fuzzed_map EXCEPT ![0][cur] = Reachable]
  BY DEF AnnotateRegions
<1>2. cur \notin was_fuzzed
  BY DEF AnnotateRegions, IInv, RatedOnce, Observing
<1>3. was_fuzzed_map \in [Rows -> [Entries -> Cells]]
  BY IInvMap
<1>4. CASE r = 0 /\ q = cur
  BY <1>1, <1>2, <1>3, <1>4, CellOrder DEF IInv, FuzzedIsRecorded
<1>5. CASE ~(r = 0 /\ q = cur)
  <2>1. was_fuzzed_map'[r][q] = was_fuzzed_map[r][q]
    BY <1>1, <1>3, <1>5
  <2> QED
    BY <2>1, CellOrder
<1> QED
  BY <1>4, <1>5

(* The cell of a new seed of a state becomes Reachable, in a map that may  *)
(* have gained a row before.                                               *)
LEMMA RegionStepGrows == IInv /\ RegionStep => CellsGrow
<1> SUFFICES ASSUME IInv, RegionStep PROVE CellsGrow
  OBVIOUS
<1> DEFINE region == entry[cur].regions[pos]
           id == region.last
<1>1. cur \in Entries /\ cur \notin was_fuzzed /\ pos >= 1 /\ pos \in Nat
  BY DEF RegionStep, IInv, TypeOK, ControlOK, RatedOnce, Observing
<1>2. id \in StateIds
  <2>1. entry[cur].regions \in Seq(Region) /\ pos <= Len(entry[cur].regions)
    BY <1>1 DEF IInv, TypeOK, CorpusTypeOK, Entry, RegionStep
  <2>2. region \in Region
    BY <1>1, <2>1, ElementOfSeq, LenProperties
  <2> QED
    BY <2>2 DEF Region
<1> DEFINE row == StateIndex(id)
           Expanded == ExpandedMap(NewRows(id), 0)
<1>3. \/ was_fuzzed_map' = was_fuzzed_map
      \/ was_fuzzed_map' = [was_fuzzed_map EXCEPT ![row][cur] = Reachable]
      \/ was_fuzzed_map' = [Expanded EXCEPT ![row][cur] = Reachable]
  BY DEF RegionStep
<1>4. was_fuzzed_map \in [Rows -> [Entries -> Cells]]
  BY IInvMap
<1>5. /\ Expanded \in [Rows -> [Entries -> Cells]]
      /\ \A r \in Rows, q \in Entries : was_fuzzed_map[r][q] <= Expanded[r][q]
  BY <1>2, ExpandedRows
<1>6. ASSUME NEW M \in [Rows -> [Entries -> Cells]],
             \A r \in Rows, q \in Entries : was_fuzzed_map[r][q] <= M[r][q],
             was_fuzzed_map' = [M EXCEPT ![row][cur] = Reachable]
      PROVE  CellsGrow
  <2> HIDE DEF id, row, Expanded
  <2> SUFFICES ASSUME NEW r \in Rows, NEW q \in Entries
               PROVE  was_fuzzed_map[r][q] <= was_fuzzed_map'[r][q]
    BY DEF CellsGrow
  <2>1. CASE r = row /\ q = cur
    <3>1. was_fuzzed_map'[r][q] = Reachable
      BY <1>6, <2>1
    <3>2. was_fuzzed_map[r][q] # Fuzzed
      BY <1>1, <2>1 DEF IInv, FuzzedIsRecorded
    <3> QED
      BY <3>1, <3>2, CellOrder
  <2>2. CASE ~(r = row /\ q = cur)
    <3>1. was_fuzzed_map'[r][q] = M[r][q]
      BY <1>6, <2>2
    <3> QED
      BY <1>6, <3>1
  <2> QED
    BY <2>1, <2>2
<1>7. \A r \in Rows, q \in Entries : was_fuzzed_map[r][q] <= was_fuzzed_map[r][q]
  BY CellOrder
<1> HIDE DEF id, row, Expanded
<1>8. CASE was_fuzzed_map' = was_fuzzed_map
  BY <1>8, CellsKept
<1>9. CASE was_fuzzed_map' = [was_fuzzed_map EXCEPT ![row][cur] = Reachable]
  BY <1>4, <1>6, <1>7, <1>9
<1>10. CASE was_fuzzed_map' = [Expanded EXCEPT ![row][cur] = Reachable]
  BY <1>5, <1>6, <1>10
<1> QED
  BY <1>3, <1>8, <1>9, <1>10

(* The state that enters the table brings a row of UNREACHABLE cells.      *)
LEMMA IpsmStepGrows == IInv /\ IpsmStep => CellsGrow
<1> SUFFICES ASSUME IInv, IpsmStep PROVE CellsGrow
  OBVIOUS
<1> DEFINE id == session.codes[pos]
<1>1. id \in StateIds
  <2>1. pos \in 1 .. Len(session.codes)
    BY DEF IpsmStep, IInv, ControlOK
  <2>2. session.codes \in Seq(StateIds)
    BY SessionTyped DEF IInv, TypeOK
  <2> QED
    BY <2>1, <2>2, ElementOfSeq
<1>2. was_fuzzed_map' = was_fuzzed_map \/ was_fuzzed_map' = ExpandedMap(NewRows(id), 0)
  BY DEF IpsmStep
<1> HIDE DEF id
<1>3. CASE was_fuzzed_map' = was_fuzzed_map
  BY <1>3, CellsKept
<1>4. CASE was_fuzzed_map' = ExpandedMap(NewRows(id), 0)
  BY <1>1, <1>4, ExpandedRows DEF CellsGrow
<1> QED
  BY <1>2, <1>3, <1>4

(* A new entry brings a column of UNREACHABLE cells.                       *)
LEMMA AddToQueueGrows == IInv /\ (ReadTestcase \/ KeepTestcase) => CellsGrow
<1> SUFFICES ASSUME IInv, ReadTestcase \/ KeepTestcase PROVE CellsGrow
  OBVIOUS
<1>1. PICK s \in Sessions : AddToQueue(Len(s.regions))
  BY DEF ReadTestcase, KeepTestcase
<1> DEFINE n == Len(s.regions)
<1>2. n \in Nat
  BY SessionTyped, LenProperties
<1>3. CorpusTypeOK /\ MapDimensions /\ PendingExact
  BY DEF IInv, TypeOK
<1>4. AddToQueue(n)
  BY <1>1
<1> HIDE DEF n
<1> QED
  BY <1>2, <1>3, <1>4, AddToQueueCorrect DEF CellsGrow

(* The turn that is recorded makes one cell Fuzzed.                        *)
LEMMA FinishFuzzOneGrows == IInv /\ FinishFuzzOne => CellsGrow
<1> SUFFICES ASSUME IInv, FinishFuzzOne PROVE CellsGrow
  OBVIOUS
<1>1. was_fuzzed_map' = was_fuzzed_map
      \/ was_fuzzed_map' =
            [was_fuzzed_map EXCEPT ![StateIndex(target_state_id)][queue_cur] = Fuzzed]
  BY DEF FinishFuzzOne, AbandonEntry
<1>2. was_fuzzed_map \in [Rows -> [Entries -> Cells]]
  BY IInvMap
<1> SUFFICES ASSUME NEW r \in Rows, NEW q \in Entries
             PROVE  was_fuzzed_map[r][q] <= was_fuzzed_map'[r][q]
  BY DEF CellsGrow
<1>3. was_fuzzed_map'[r][q] \in {was_fuzzed_map[r][q], Fuzzed}
  BY <1>1, <1>2
<1> QED
  BY <1>3, CellOrder

(* No step takes a cell back.                                              *)
LEMMA NextGrows ==
    ASSUME IInv, Next
    PROVE  CellsGrow
<1>1. CASE ReadTestcase \/ KeepTestcase
  BY <1>1, AddToQueueGrows
<1>2. CASE IpsmStep
  BY <1>2, IpsmStepGrows
<1>3. CASE AnnotateRegions
  BY <1>3, AnnotateGrows
<1>4. CASE RegionStep
  BY <1>4, RegionStepGrows
<1>5. CASE FinishFuzzOne
  BY <1>5, FinishFuzzOneGrows
<1>6. CASE Stop
  <2>1. UNCHANGED was_fuzzed_map
    BY <1>6 DEF Stop, AbandonEntry, RecordsTurn
  <2> QED
    BY <2>1, CellsKept
<1>7. CASE \/ FinishReading \/ DryRun \/ ObserveResponse \/ FinishRegions
           \/ StartFuzzing \/ SelectSeed \/ Calibrate \/ Exited
  <2>1. UNCHANGED was_fuzzed_map
    BY <1>7 DEF FinishReading, DryRun, ObserveResponse, FinishRegions, StartFuzzing,
       SelectSeed, Calibrate, Exited, vars, corpusVars, mapVars
  <2> QED
    BY <2>1, CellsKept
<1> QED
  BY <1>1, <1>2, <1>3, <1>4, <1>5, <1>6, <1>7 DEF Next, Progress

(* A cell of was_fuzzed_map goes from unallocated to unreachable, reachable*)
(* and fuzzed and never back, whatever rows and columns                    *)
(* expand_was_fuzzed_map adds around it.                                   *)
THEOREM MapGrows == Spec => MapMonotone
<1>1. IInv /\ [Next]_vars =>
         [\A r \in Rows, q \in Entries : was_fuzzed_map[r][q] <= was_fuzzed_map'[r][q]]_vars
  BY NextGrows DEF CellsGrow
<1> QED
  BY <1>1, Invariance, PTL DEF Spec, MapMonotone

-----------------------------------------------------------------------------
(* A turn that is recorded                                                 *)

(* An entry that is marked fuzzed has a cell that says for which state.    *)
FuzzedSomewhere ==
    \A q \in was_fuzzed : \E r \in Rows : was_fuzzed_map[r][q] = Fuzzed

(* The entries of the queue are the columns of the map.                    *)
LEMMA QueueInEntries == IInv => Queue \subseteq Entries
  BY CorpusAssumption DEF IInv, TypeOK, CorpusTypeOK, Queue, Entries

(* A Fuzzed cell stays Fuzzed.                                             *)
LEMMA FuzzedStays ==
    ASSUME IInv, [Next]_vars, NEW q \in Entries, NEW r \in Rows, was_fuzzed_map[r][q] = Fuzzed
    PROVE  was_fuzzed_map'[r][q] = Fuzzed
<1>1. was_fuzzed_map[r][q] <= was_fuzzed_map'[r][q]
  <2>1. CASE Next
    BY <2>1, NextGrows DEF CellsGrow
  <2>2. CASE UNCHANGED vars
    <3>1. was_fuzzed_map' = was_fuzzed_map
      BY <2>2 DEF vars, corpusVars, mapVars
    <3> QED
      BY <3>1, CellOrder
  <2> QED
    BY <2>1, <2>2
<1>2. was_fuzzed_map'[r][q] \in Cells
  <2>1. IInv'
    BY NextIInv
  <2>2. was_fuzzed_map' \in [Rows -> [Entries -> Cells]]
    BY <2>1 DEF IInv, TypeOK, CorpusTypeOK
  <2> QED
    BY <2>2
<1>3. \A v \in Cells : 1 <= v => v = 1
  BY DEF Cells, Unallocated, Unreachable, Reachable, Fuzzed
<1> QED
  BY <1>1, <1>2, <1>3 DEF Fuzzed

(* The end of a turn that is recorded makes a cell Fuzzed in a row that    *)
(* exists; no other step marks an entry.                                   *)
LEMMA NextFuzzedSomewhere ==
    ASSUME IInv, FuzzedSomewhere, [Next]_vars
    PROVE  FuzzedSomewhere'
<1>0. was_fuzzed \subseteq Entries
  BY QueueInEntries DEF IInv, TypeOK, CorpusTypeOK
<1>1. ASSUME NEW q \in was_fuzzed PROVE \E r \in Rows : was_fuzzed_map'[r][q] = Fuzzed
  <2>1. PICK r \in Rows : was_fuzzed_map[r][q] = Fuzzed
    BY <1>1 DEF FuzzedSomewhere
  <2> QED
    BY <1>0, <1>1, <2>1, FuzzedStays
<1>2. CASE was_fuzzed' = was_fuzzed
  BY <1>1, <1>2 DEF FuzzedSomewhere
<1>3. CASE FinishFuzzOne /\ RecordsTurn(queue_cur, FALSE)
  <2> DEFINE row == StateIndex(target_state_id)
  <2>1. AbandonEntry(queue_cur, FALSE) /\ queue_cur \in Queue /\ queue_cur \in Entries
    BY <1>3, QueueInEntries DEF FinishFuzzOne, IInv, TypeOK, ControlOK
  <2>2. row \in Rows
    <3>1. target_state_id \in Range1(state_ids) /\ state_ids \in Seq(StateIds)
      BY <1>3 DEF FinishFuzzOne, IInv, ControlOK, TableOK, TypeOK, CorpusTypeOK
    <3>2. \E i \in 1 .. Len(state_ids) : state_ids[i] = target_state_id
      BY <3>1 DEF Range1
    <3>3. row \in 0 .. Len(state_ids) /\ row < Len(state_ids) /\ Len(state_ids) \in Nat
      BY <3>1, <3>2, StateIndexCorrect, LenProperties
    <3>4. Len(state_ids) <= MaxRows /\ MaxRows \in Nat
      <4>1. fuzzed_map_states = Len(state_ids) /\ fuzzed_map_states \in 0 .. MaxRows
        BY <3>2 DEF IInv, MapDimensions, TypeOK, CorpusTypeOK
      <4> QED
        BY <4>1, CorpusAssumption
    <3> HIDE DEF row
    <3> QED
      BY <3>3, <3>4 DEF Rows
  <2>3. /\ was_fuzzed' = was_fuzzed \cup {queue_cur}
        /\ was_fuzzed_map' = [was_fuzzed_map EXCEPT ![row][queue_cur] = Fuzzed]
    BY <1>3, <2>1 DEF AbandonEntry
  <2>4. was_fuzzed_map \in [Rows -> [Entries -> Cells]]
    BY IInvMap
  <2> HIDE DEF row
  <2>5. was_fuzzed_map'[row][queue_cur] = Fuzzed
    BY <2>1, <2>2, <2>3, <2>4
  <2> QED
    BY <1>1, <2>2, <2>3, <2>5 DEF FuzzedSomewhere
<1>4. was_fuzzed' = was_fuzzed \/ (FinishFuzzOne /\ RecordsTurn(queue_cur, FALSE))
  <2>1. CASE FinishFuzzOne
    BY <2>1 DEF FinishFuzzOne, AbandonEntry
  <2>2. CASE \/ ReadTestcase \/ FinishReading \/ DryRun \/ ObserveResponse \/ IpsmStep
             \/ AnnotateRegions \/ RegionStep \/ FinishRegions \/ StartFuzzing
             \/ SelectSeed \/ KeepTestcase \/ Calibrate \/ Exited \/ UNCHANGED vars
    BY <2>2 DEF ReadTestcase, FinishReading, DryRun, ObserveResponse, IpsmStep, AnnotateRegions,
       RegionStep, FinishRegions, StartFuzzing, SelectSeed, KeepTestcase, Calibrate, Exited, vars,
       corpusVars
  <2>3. CASE Stop
    BY <2>3 DEF Stop, AbandonEntry, RecordsTurn
  <2> QED
    BY <2>1, <2>2, <2>3 DEF Next, Progress
<1> QED
  BY <1>2, <1>3, <1>4

(* pending_not_fuzzed counts the entries that are not marked was_fuzzed,   *)
(* and an entry is marked exactly if some row of was_fuzzed_map says that  *)
(* it was fuzzed: the decrement, the mark and the cell of abandon_entry    *)
(* never come apart, however the map grows between them.                   *)
THEOREM TurnsAreRecorded == Spec => []TurnsRecorded
<1>1. Init => FuzzedSomewhere
  BY DEF Init, CorpusInit, FuzzedSomewhere
<1>2. IInv /\ FuzzedSomewhere /\ [Next]_vars => FuzzedSomewhere'
  BY NextFuzzedSomewhere
<1>3. IInv /\ FuzzedSomewhere => TurnsRecorded
  BY QueueInEntries DEF IInv, FuzzedIsRecorded, FuzzedSomewhere, FuzzedForSomeState, TurnsRecorded
<1> QED
  BY <1>1, <1>2, <1>3, Invariance, PTL DEF Spec

-----------------------------------------------------------------------------
(* The favored entries                                                     *)

(* What temp_v of cull_queue says of byte b when the loop has come there,  *)
(* given what it says of the bytes before.                                 *)
NotCovered(v, b) == \A c \in 0 .. b - 1 : top_rated[c] # NoEntry /\ v[c] => ~Covers(c, b)

(* The loop of cull_queue defines temp_v for every byte of the bitmap.     *)
LEMMA TempVExists ==
    \E v : v = [b \in Bytes |-> NotCovered(v, b)]
<1> DEFINE Upto(n) == 0 .. n - 1
           Solves(v, n) == \A b \in Upto(n) : v[b] <=> NotCovered(v, b)
           Bad == {n \in Nat : ~\E S \in SUBSET Upto(n) : Solves([b \in Upto(n) |-> b \in S], n)}
<1>1. Bad = {}
  <2> SUFFICES ASSUME Bad # {} PROVE FALSE
    OBVIOUS
  <2>1. Bad \in SUBSET Nat
    OBVIOUS
  <2>2. PICK n \in Bad : \A k \in Bad : n <= k
    <3> HIDE DEF Bad
    <3> QED BY <2>1, LeastElement
  <2>3. n \in Nat /\ ~\E S \in SUBSET Upto(n) : Solves([b \in Upto(n) |-> b \in S], n)
    BY <2>2
  <2>4. n # 0
    <3>1. Upto(0) = {}
      OBVIOUS
    <3>2. Solves([b \in Upto(0) |-> b \in {}], 0)
      BY <3>1
    <3> QED
      BY <2>3, <3>2
  <2>5. n - 1 \in Nat /\ n - 1 \notin Bad
    <3>1. n - 1 \in Nat /\ ~(n <= n - 1)
      BY <2>3, <2>4
    <3> HIDE DEF Bad
    <3> QED
      BY <2>2, <3>1
  <2>6. PICK S \in SUBSET Upto(n - 1) : Solves([b \in Upto(n - 1) |-> b \in S], n - 1)
    BY <2>5
  <2> DEFINE old == [b \in Upto(n - 1) |-> b \in S]
             T == IF NotCovered(old, n - 1) THEN S \cup {n - 1} ELSE S
             new == [b \in Upto(n) |-> b \in T]
  <2>7. T \in SUBSET Upto(n)
    BY <2>3, <2>4
  <2>8. \A b \in Upto(n - 1) : new[b] <=> old[b]
    BY <2>3, <2>4
  <2>9. \A b \in Upto(n) : NotCovered(new, b) <=> NotCovered(old, b)
    <3> HIDE DEF old, new
    <3> SUFFICES ASSUME NEW b \in Upto(n)
                 PROVE  NotCovered(new, b) <=> NotCovered(old, b)
      OBVIOUS
    <3>1. \A c \in 0 .. b - 1 : c \in Upto(n - 1)
      BY <2>3
    <3> QED
      BY <2>8, <3>1, Zenon DEF NotCovered
  <2>10. Solves(new, n)
    <3> SUFFICES ASSUME NEW b \in Upto(n) PROVE new[b] <=> NotCovered(new, b)
      OBVIOUS
    <3>1. CASE b \in Upto(n - 1)
      BY <2>6, <2>8, <2>9, <3>1
    <3>2. CASE b = n - 1
      <4>1. b \in T <=> NotCovered(old, b)
        <5>1. n - 1 \notin S
          BY <2>3, <2>6
        <5> QED
          BY <3>2, <5>1
      <4> QED
        BY <2>9, <4>1
    <3> QED
      BY <2>3, <2>4, <3>1, <3>2
  <2> HIDE DEF T, Solves
  <2> QED
    BY <2>3, <2>7, <2>10
<1>2. MapSize \in Nat /\ Upto(MapSize) = Bytes
  BY CorpusAssumption DEF Bytes
<1>3. PICK S \in SUBSET Bytes : Solves([b \in Bytes |-> b \in S], MapSize)
  BY <1>1, <1>2
<1> DEFINE v == [b \in Bytes |-> b \in S]
<1>4. \A b \in Bytes : v[b] <=> NotCovered(v, b)
  BY <1>2, <1>3
<1>5. \A b \in Bytes : v[b] = NotCovered(v, b)
  <2>1. \A b \in Bytes : v[b] \in BOOLEAN /\ NotCovered(v, b) \in BOOLEAN
    BY DEF NotCovered
  <2> HIDE DEF v
  <2> QED
    BY <1>4, <2>1, Zenon
<1>6. v = [b \in Bytes |-> v[b]]
  OBVIOUS
<1> HIDE DEF v
<1>7. [b \in Bytes |-> v[b]] = [b \in Bytes |-> NotCovered(v, b)]
  BY <1>5, Zenon
<1> QED
  BY <1>6, <1>7, Zenon

(* Every byte that has a winner is in the trace of a winner that is picked.*)
LEMMA PickedCover ==
    ASSUME WinnerKeepsTrace, NEW b \in Bytes, top_rated[b] # NoEntry
    PROVE  \E c \in PickedBytes : b \in trace_mini[top_rated[c]]
<1> DEFINE temp_v[x \in Bytes] ==
               \A c \in 0 .. x - 1 : top_rated[c] # NoEntry /\ temp_v[c] => ~Covers(c, x)
<1>1. temp_v = [x \in Bytes |-> NotCovered(temp_v, x)]
  BY TempVExists DEF NotCovered
<1>2. PickedBytes = {x \in Bytes : top_rated[x] # NoEntry /\ temp_v[x]}
  BY DEF PickedBytes
<1> HIDE DEF temp_v
<1>3. CASE temp_v[b]
  BY <1>2, <1>3 DEF WinnerKeepsTrace
<1>4. CASE ~temp_v[b]
  <2>1. ~NotCovered(temp_v, b)
    BY <1>1, <1>4
  <2>2. PICK c \in 0 .. b - 1 : top_rated[c] # NoEntry /\ temp_v[c] /\ Covers(c, b)
    BY <2>1 DEF NotCovered
  <2>3. c \in Bytes
    BY CorpusAssumption DEF Bytes
  <2> QED
    BY <1>2, <2>2, <2>3 DEF Covers
<1> QED
  BY <1>3, <1>4

(* A step that does not cull and changes no score keeps the cover.         *)
LEMMA CoverFrame ==
    ASSUME FavoredCover, UNCHANGED <<top_rated, trace_mini, score_changed, favored>>
    PROVE  FavoredCover'
  BY DEF FavoredCover

(* cull_queue favors a cover of all winners.                               *)
LEMMA CullCovers ==
    ASSUME IInv, FavoredCover, NEW target, CullQueue(target), UNCHANGED <<top_rated, trace_mini>>
    PROVE  FavoredCover'
<1>1. CASE ~score_changed
  BY <1>1, CoverFrame DEF CullQueue, favorVars
<1>2. CASE score_changed
  <2>1. {top_rated[b] : b \in PickedBytes} \subseteq favored'
    BY <1>2 DEF CullQueue
  <2>2. ASSUME NEW b \in Bytes, top_rated[b] # NoEntry
        PROVE  \E q \in favored' : b \in trace_mini[q]
    <3>1. PICK c \in PickedBytes : b \in trace_mini[top_rated[c]]
      BY <2>2, PickedCover DEF IInv
    <3> QED
      BY <2>1, <3>1
  <2> QED
    BY <2>2 DEF FavoredCover
<1> QED
  BY <1>1, <1>2

(* Rating an entry either wins a slot, and a cull is due, or changes       *)
(* neither winner nor trace.                                               *)
LEMMA CalibrateCovers ==
    ASSUME IInv, FavoredCover, NEW q \in Queue, NEW fields, NEW s, s.trace \subseteq Bytes,
           NEW ok \in BOOLEAN, CalibrateCase(q, fields, s, ok), UNCHANGED favorVars,
           \A b \in Bytes : top_rated[b] # q
    PROVE  FavoredCover'
<1>1. CASE ~ok
  BY <1>1, CoverFrame DEF CalibrateCase, ratingVars, favorVars
<1>2. CASE ok
  <2> DEFINE won == {b \in s.trace : \/ top_rated[b] = NoEntry
                                     \/ ~LeavesSlot(q, s.fav_factor, top_rated[b])}
  <2>1. UpdateBitmapScore(q, s.fav_factor, s.trace)
    BY <1>2 DEF CalibrateCase
  <2>2. /\ top_rated' = [b \in Bytes |-> IF b \in won THEN q ELSE top_rated[b]]
        /\ trace_mini' = [x \in Entries |->
              IF x = q /\ won # {} /\ (IF FreesTrace(x, won) THEN {} ELSE trace_mini[x]) = {}
              THEN s.trace ELSE (IF FreesTrace(x, won) THEN {} ELSE trace_mini[x])]
        /\ score_changed' = (score_changed \/ won # {})
    BY <2>1 DEF UpdateBitmapScore
  <2> HIDE DEF won
  <2>3. CASE won # {}
    BY <2>2, <2>3 DEF FavoredCover
  <2>4. CASE won = {}
    <3>1. \A x : ~FreesTrace(x, won)
      <4>1. \A x : {b \in won : top_rated[b] = x} = {}
        BY <2>4
      <4>2. \A x : SlotsLost(x, won) = 0
        BY <4>1, FS_EmptySet DEF SlotsLost
      <4> QED
        BY <4>2 DEF FreesTrace
    <3>2. top_rated' = top_rated
      BY <2>2, <2>4 DEF IInv, TypeOK, CorpusTypeOK
    <3>3. trace_mini' = trace_mini
      BY <2>2, <2>4, <3>1 DEF IInv, TypeOK, CorpusTypeOK
    <3>4. score_changed' = score_changed
      BY <2>2, <2>4 DEF IInv, TypeOK, CorpusTypeOK
    <3> QED
      BY <3>2, <3>3, <3>4, CoverFrame DEF favorVars
  <2> QED
    BY <2>3, <2>4
<1> QED
  BY <1>1, <1>2

(* Every step keeps the cover.                                             *)
LEMMA NextCovers ==
    ASSUME IInv, FavoredCover, [Next]_vars
    PROVE  FavoredCover'
<1>1. CASE DryRun
  <2>1. PICK s \in Sessions, ok \in BOOLEAN :
            CalibrateCase(cur, [entry[cur] EXCEPT !.is_initial_seed = TRUE], s, ok)
    BY <1>1 DEF DryRun
  <2>2. cur \in Queue /\ UNCHANGED favorVars /\ s.trace \subseteq Bytes
    BY <1>1, SessionTyped DEF DryRun, IInv, ControlOK
  <2>3. \A b \in Bytes : top_rated[b] # cur
    <3>1. \A b \in Bytes : top_rated[b] \in Int /\ cur \in Int /\ top_rated[b] < cur
      BY <1>1, <2>2 DEF DryRun, IInv, TypeOK, CorpusTypeOK, Queue, NoEntry, RatedOnce
    <3> QED
      BY <3>1
  <2> QED
    BY <2>1, <2>2, <2>3, CalibrateCovers
<1>2. CASE Calibrate
  <2>1. PICK ok \in BOOLEAN : CalibrateCase(cur, entry[cur], session, ok)
    BY <1>2 DEF Calibrate
  <2>2. cur \in Queue /\ UNCHANGED favorVars /\ session.trace \subseteq Bytes
    BY <1>2, SessionTyped DEF Calibrate, IInv, ControlOK, TypeOK
  <2>3. \A b \in Bytes : top_rated[b] # cur
    <3>1. \A b \in Bytes : top_rated[b] \in Int /\ cur \in Int /\ top_rated[b] < cur
      BY <1>2, <2>2 DEF Calibrate, IInv, TypeOK, CorpusTypeOK, Queue, NoEntry, RatedOnce
    <3> QED
      BY <3>1
  <2> QED
    BY <2>1, <2>2, <2>3, CalibrateCovers
<1>3. CASE StartFuzzing
  BY <1>3, CullCovers DEF StartFuzzing
<1>4. CASE SelectSeed
  <2>1. PICK t \in StateIds : CullQueue(t)
    BY <1>4 DEF SelectSeed
  <2> QED
    BY <1>4, <2>1, CullCovers DEF SelectSeed
<1>5. CASE \/ ReadTestcase \/ FinishReading \/ ObserveResponse \/ IpsmStep \/ AnnotateRegions
           \/ RegionStep \/ FinishRegions \/ KeepTestcase \/ FinishFuzzOne \/ Stop \/ Exited
           \/ UNCHANGED vars
  <2>1. UNCHANGED <<ratingVars, favorVars>>
    BY <1>5 DEF ReadTestcase, FinishReading, ObserveResponse, IpsmStep, AnnotateRegions,
       RegionStep, FinishRegions, KeepTestcase, FinishFuzzOne, Stop, Exited, vars, corpusVars
  <2> QED
    BY <2>1, CoverFrame DEF ratingVars, favorVars
<1> QED
  BY <1>1, <1>2, <1>3, <1>4, <1>5 DEF Next, Progress

(* When no cull is due, every byte that a calibrated entry has touched is  *)
(* in the trace of a favored one: the loop of cull_queue, which looks at   *)
(* the bytes one by one, picks a cover, and nothing takes it apart.        *)
THEOREM FavoredAlwaysCover == Spec => []FavoredCover
<1>1. Init => FavoredCover
  BY DEF Init, CorpusInit, FavoredCover
<1>2. IInv /\ FavoredCover /\ [Next]_vars => FavoredCover'
  BY NextCovers
<1> QED
  BY <1>1, <1>2, Invariance, PTL DEF Spec

-----------------------------------------------------------------------------
(* Where a state is in state_ids                                           *)

(* get_state_index over any list.                                          *)
IndexIn(ids, id) ==
    LET at == {i \in 1 .. Len(ids) : ids[i] = id}
    IN  IF at = {} THEN Len(ids)
        ELSE (CHOOSE i \in at : \A j \in at : i <= j) - 1

(* StateIndex looks a state up in state_ids.                               *)
LEMMA IndexOfState ==
    ASSUME NEW id
    PROVE  StateIndex(id) = IndexIn(state_ids, id) /\ StateIndex(id)' = IndexIn(state_ids', id)
BY DEF StateIndex, IndexIn

(* The index of a member of the list is that of its first occurrence; one  *)
(* that is absent has the length of the list.                              *)
LEMMA IndexInCorrect ==
    ASSUME NEW ids \in Seq(StateIds), NEW id
    PROVE  /\ id \in Range1(ids) =>
                 /\ IndexIn(ids, id) \in 0 .. Len(ids) - 1
                 /\ ids[IndexIn(ids, id) + 1] = id
                 /\ \A j \in 1 .. IndexIn(ids, id) : ids[j] # id
           /\ id \notin Range1(ids) => IndexIn(ids, id) = Len(ids)
<1> DEFINE at == {i \in 1 .. Len(ids) : ids[i] = id}
           least == CHOOSE i \in at : \A j \in at : i <= j
<1>1. Len(ids) \in Nat
  BY LenProperties
<1>2. IndexIn(ids, id) = IF at = {} THEN Len(ids) ELSE least - 1
  BY DEF IndexIn
<1>3. id \in Range1(ids) <=> at # {}
  BY DEF Range1
<1>4. ASSUME at # {} PROVE least \in at /\ \A j \in at : least <= j
  <2>1. at \in SUBSET Nat
    OBVIOUS
  <2>2. \E m \in at : \A j \in at : m <= j
    BY <1>4, <2>1, LeastElement
  <2> QED
    BY <2>2
<1> HIDE DEF least
<1> QED
  BY <1>1, <1>2, <1>3, <1>4

(* That first occurrence is the only place the index can be.               *)
LEMMA IndexInUnique ==
    ASSUME NEW ids \in Seq(StateIds), NEW id, NEW i \in 0 .. Len(ids) - 1,
           ids[i + 1] = id, \A j \in 1 .. i : ids[j] # id
    PROVE  IndexIn(ids, id) = i
<1> DEFINE k == IndexIn(ids, id)
<1>1. Len(ids) \in Nat /\ i \in Nat /\ i + 1 \in 1 .. Len(ids)
  BY LenProperties
<1>2. id \in Range1(ids)
  BY <1>1 DEF Range1
<1>3. k \in 0 .. Len(ids) - 1 /\ ids[k + 1] = id /\ \A j \in 1 .. k : ids[j] # id
  BY <1>2, IndexInCorrect
<1> HIDE DEF k
<1>4. ~(k < i)
  <2>1. k < i => k + 1 \in 1 .. i
    BY <1>1, <1>3
  <2> QED
    BY <1>3, <2>1
<1>5. ~(i < k)
  <2>1. i < k => i + 1 \in 1 .. k
    BY <1>1, <1>3
  <2> QED
    BY <1>3, <2>1
<1> QED
  BY <1>1, <1>3, <1>4, <1>5 DEF k

(* A state that is appended leaves the indices of the others alone.        *)
LEMMA IndexAppend ==
    ASSUME NEW ids \in Seq(StateIds), NEW x \in StateIds
    PROVE  /\ x \notin Range1(ids) => IndexIn(Append(ids, x), x) = Len(ids)
           /\ \A id \in Range1(ids) : IndexIn(Append(ids, x), id) = IndexIn(ids, id)
<1> DEFINE longer == Append(ids, x)
<1>1. /\ longer \in Seq(StateIds) /\ Len(longer) = Len(ids) + 1 /\ Len(ids) \in Nat
      /\ \A j \in 1 .. Len(ids) : longer[j] = ids[j]
      /\ longer[Len(ids) + 1] = x
  BY AppendProperties, LenProperties
<1> HIDE DEF longer
<1>3. ASSUME x \notin Range1(ids) PROVE IndexIn(longer, x) = Len(ids)
  <2> \A j \in 1 .. Len(ids) : ids[j] # x
    BY <1>3 DEF Range1
  <2>1. Len(ids) \in 0 .. Len(longer) - 1
    BY <1>1
  <2>2. \A j \in 1 .. Len(ids) : longer[j] # x
    BY <1>1
  <2>3. longer \in Seq(StateIds) /\ longer[Len(ids) + 1] = x
    BY <1>1
  <2> QED
    BY ONLY <2>1, <2>2, <2>3, IndexInUnique
<1>4. ASSUME NEW id \in Range1(ids)
      PROVE  IndexIn(longer, id) = IndexIn(ids, id)
  <2> DEFINE i == IndexIn(ids, id)
  <2>1. i \in 0 .. Len(ids) - 1 /\ ids[i + 1] = id /\ \A j \in 1 .. i : ids[j] # id
    BY IndexInCorrect
  <2> HIDE DEF i
  <2>2. i \in 0 .. Len(longer) - 1 /\ i + 1 \in 1 .. Len(ids)
        /\ \A j \in 1 .. i : j \in 1 .. Len(ids)
    BY <1>1, <2>1
  <2>3. longer[i + 1] = id /\ \A j \in 1 .. i : longer[j] # id
    BY <1>1, <2>1, <2>2
  <2>4. longer \in Seq(StateIds) /\ i \in 0 .. Len(longer) - 1
    BY <1>1, <2>2
  <2>5. IndexIn(longer, id) = i
    BY ONLY <2>3, <2>4, IndexInUnique
  <2> QED
    BY <2>5 DEF i
<1> QED
  BY <1>3, <1>4 DEF longer

(* A state of the table has a row of the map, and no other state has it.   *)
LEMMA RowOfState ==
    ASSUME IInv, NEW s \in khms_states
    PROVE  /\ s \in StateIds /\ s \in Range1(state_ids) /\ state_ids # <<>>
           /\ StateIndex(s) \in Rows /\ StateIndex(s) < fuzzed_map_states
           /\ \A t \in khms_states : StateIndex(t) = StateIndex(s) => t = s
<1>1. /\ state_ids \in Seq(StateIds) /\ khms_states \subseteq StateIds
      /\ khms_states = Range1(state_ids) /\ fuzzed_map_states \in 0 .. MaxRows
      /\ state_ids # <<>> => fuzzed_map_states = Len(state_ids)
  BY DEF IInv, TypeOK, CorpusTypeOK, TableOK, MapDimensions
<1>2. \A t \in khms_states : /\ StateIndex(t) \in 0 .. Len(state_ids) - 1
                             /\ state_ids[StateIndex(t) + 1] = t
  BY <1>1, IndexInCorrect, IndexOfState
<1>3. Len(state_ids) \in Nat /\ MaxRows \in Nat
  BY <1>1, LenProperties, CorpusAssumption
<1>4. state_ids # <<>>
  BY <1>2, <1>3
<1>5. StateIndex(s) \in 0 .. MaxRows - 1 /\ StateIndex(s) < fuzzed_map_states
  BY <1>1, <1>2, <1>3, <1>4
<1>6. \A t \in khms_states : StateIndex(t) = StateIndex(s) => t = s
  BY <1>2
<1> QED
  BY <1>1, <1>4, <1>5, <1>6 DEF Rows

-----------------------------------------------------------------------------
(* How often a state is entered                                            *)

(* EnteredOnce and the last conjunct of StatesEntered, over any list.      *)
OnceIn(ids, s) ==
    \A i, j \in 1 .. Len(ids) : ids[i] = s /\ ids[j] = s => i = j

AtMostTwiceIn(ids) ==
    \A i, j, k \in 1 .. Len(ids) :
        ids[i] = ids[j] /\ ids[j] = ids[k] => i = j \/ j = k \/ i = k

(* EnteredOnce looks a state up in state_ids.                              *)
LEMMA OnceOfState ==
    ASSUME NEW s
    PROVE  EnteredOnce(s) = OnceIn(state_ids, s) /\ EnteredOnce(s)' = OnceIn(state_ids', s)
BY DEF EnteredOnce, OnceIn

(* What one more state at the end of the list changes: a state that was    *)
(* absent is there once, one that was there is there twice.                *)
LEMMA OnceAppend ==
    ASSUME NEW ids \in Seq(StateIds), NEW x \in StateIds
    PROVE  /\ \A s : OnceIn(Append(ids, x), s) => OnceIn(ids, s)
           /\ \A s : s # x /\ OnceIn(ids, s) => OnceIn(Append(ids, x), s)
           /\ x \notin Range1(ids) => OnceIn(Append(ids, x), x)
           /\ x \in Range1(ids) => ~OnceIn(Append(ids, x), x)
           /\ AtMostTwiceIn(ids) /\ OnceIn(ids, x) => AtMostTwiceIn(Append(ids, x))
           /\ Range1(Append(ids, x)) = Range1(ids) \cup {x}
<1> DEFINE longer == Append(ids, x)
           n == Len(ids)
<1>1. /\ Len(longer) = n + 1 /\ n \in Nat
      /\ \A j \in 1 .. n : longer[j] = ids[j]
      /\ longer[n + 1] = x
  BY AppendProperties, LenProperties
<1> HIDE DEF longer, n
<1>2. \A j : j \in 1 .. Len(longer) <=> j \in 1 .. n \/ j = n + 1
  BY <1>1
<1>2a. \A j \in 1 .. n : j # n + 1
  BY <1>1
<1>3. \A s : OnceIn(longer, s) => OnceIn(ids, s)
  BY <1>1, <1>2 DEF OnceIn, n
<1>4. ASSUME NEW s, s # x, OnceIn(ids, s) PROVE OnceIn(longer, s)
  BY <1>1, <1>2, <1>4 DEF OnceIn, n
<1>5. ASSUME x \notin Range1(ids) PROVE OnceIn(longer, x)
  <2>1. \A j \in 1 .. n : longer[j] # x
    BY <1>1, <1>5 DEF Range1, n
  <2> QED
    BY <1>2, <2>1 DEF OnceIn
<1>6. ASSUME x \in Range1(ids) PROVE ~OnceIn(longer, x)
  <2>1. PICK j \in 1 .. n : ids[j] = x
    BY <1>6 DEF Range1, n
  <2> QED
    BY <1>1, <1>2, <1>2a, <2>1 DEF OnceIn
<1>7. ASSUME AtMostTwiceIn(ids), OnceIn(ids, x) PROVE AtMostTwiceIn(longer)
  <2> SUFFICES ASSUME NEW i \in 1 .. Len(longer), NEW j \in 1 .. Len(longer),
                      NEW k \in 1 .. Len(longer),
                      longer[i] = longer[j], longer[j] = longer[k]
               PROVE  i = j \/ j = k \/ i = k
    BY DEF AtMostTwiceIn
  <2>1. CASE i \in 1 .. n /\ j \in 1 .. n /\ k \in 1 .. n
    BY <1>1, <1>7, <2>1 DEF AtMostTwiceIn, n
  <2>2. CASE i = n + 1 \/ j = n + 1 \/ k = n + 1
    <3>1. longer[i] = x /\ longer[j] = x /\ longer[k] = x
      BY <1>1, <2>2
    <3>2. \A a, b \in 1 .. n : longer[a] = x /\ longer[b] = x => a = b
      BY <1>1, <1>7 DEF OnceIn, n
    <3> QED
      BY <1>2, <2>2, <3>1, <3>2
  <2> QED
    BY <1>2, <2>1, <2>2
<1>8. Range1(longer) = Range1(ids) \cup {x}
  <2>1. Range1(longer) = {longer[j] : j \in 1 .. Len(longer)} /\ Range1(ids) = {ids[j] : j \in 1 .. n}
    BY DEF Range1, n
  <2>2. \A c : c \in Range1(longer) <=> \E j \in 1 .. Len(longer) : longer[j] = c
    BY <2>1
  <2>3. \A c : c \in Range1(ids) <=> \E j \in 1 .. n : ids[j] = c
    BY <2>1
  <2>4. \A c : c \in Range1(longer) <=> c \in Range1(ids) \/ c = x
    BY <1>1, <1>2, <2>2, <2>3
  <2> QED
    BY <2>4
<1> QED
  BY <1>3, <1>4, <1>5, <1>6, <1>7, <1>8 DEF longer

(* The state of a step of the IPSM loop is a state.                        *)
LEMMA IpsmState ==
    ASSUME IInv, IpsmStep
    PROVE  session.codes[pos] \in StateIds
<1>1. session.codes \in Seq(StateIds) /\ pos \in 1 .. Len(session.codes)
  BY SessionTyped DEF IpsmStep, IInv, TypeOK, ControlOK
<1> QED
  BY <1>1, ElementOfSeq

(* The state of a step of the loop over the regions is one, too, and the   *)
(* entry that is observed is in the queue.                                 *)
LEMMA RegionState ==
    ASSUME IInv, RegionStep
    PROVE  entry[cur].regions[pos].last \in StateIds /\ cur \in Queue
<1>1. cur \in Entries /\ cur \in Queue /\ pos >= 1 /\ pos \in Nat
  BY DEF RegionStep, IInv, TypeOK, ControlOK, Observing
<1>2. entry[cur].regions \in Seq(Region) /\ pos <= Len(entry[cur].regions)
  BY <1>1 DEF IInv, TypeOK, CorpusTypeOK, Entry, RegionStep
<1>3. entry[cur].regions[pos] \in Region
  BY <1>1, <1>2, ElementOfSeq, LenProperties
<1> QED
  BY <1>1, <1>3 DEF Region

(* What a step does to state_ids, the table and the graph.                 *)
GraphEnters(id) ==
    /\ id \notin ipsm /\ ipsm' = ipsm \cup {id}
    /\ khms_states' = khms_states \cup {id} /\ state_ids' = Append(state_ids, id)

RegionEnters(id) ==
    /\ id \notin khms_states /\ ipsm' = ipsm
    /\ khms_states' = khms_states \cup {id} /\ state_ids' = Append(state_ids, id)

NoneEnters == UNCHANGED <<state_ids, khms_states, ipsm>>

(* A state enters through the graph, which did not have it, or through a   *)
(* region, when the table did not have it.                                 *)
LEMMA StepEnters ==
    ASSUME IInv, [Next]_vars
    PROVE  NoneEnters \/ \E id \in StateIds : GraphEnters(id) \/ RegionEnters(id)
<1>1. CASE IpsmStep
  <2> DEFINE id == session.codes[pos]
  <2>1. id \in StateIds
    BY <1>1, IpsmState
  <2>2. \/ NoneEnters
        \/ GraphEnters(id)
    BY <1>1 DEF IpsmStep, IsNode, DiscoverState, tableVars, NoneEnters, GraphEnters
  <2> HIDE DEF id
  <2> QED
    BY <2>1, <2>2
<1>2. CASE RegionStep
  <2> DEFINE id == entry[cur].regions[pos].last
  <2>1. id \in StateIds
    BY <1>2, RegionState
  <2>2. NoneEnters \/ RegionEnters(id)
    BY <1>2 DEF RegionStep, DiscoverState, tableVars, ipsmVars, NoneEnters, RegionEnters
  <2> HIDE DEF id
  <2> QED
    BY <2>1, <2>2
<1>3. CASE \/ ReadTestcase \/ FinishReading \/ DryRun \/ ObserveResponse \/ AnnotateRegions
           \/ FinishRegions \/ StartFuzzing \/ SelectSeed \/ KeepTestcase \/ Calibrate
           \/ FinishFuzzOne \/ Stop \/ Exited \/ UNCHANGED vars
  BY <1>3 DEF ReadTestcase, FinishReading, DryRun, ObserveResponse, AnnotateRegions, FinishRegions,
     StartFuzzing, SelectSeed, KeepTestcase, Calibrate, FinishFuzzOne, Stop, Exited, vars,
     tableVars, ipsmVars, corpusVars, NoneEnters
<1> QED
  BY <1>1, <1>2, <1>3 DEF Next, Progress

(* A state of the table stays one and keeps its row, however many states   *)
(* are entered, itself among them; entered once is entered once before.    *)
LEMMA StatesStay ==
    ASSUME IInv, [Next]_vars
    PROVE  /\ khms_states \subseteq khms_states'
           /\ \A s \in khms_states : StateIndex(s)' = StateIndex(s)
           /\ \A s : EnteredOnce(s)' => EnteredOnce(s)
<1>1. state_ids \in Seq(StateIds) /\ khms_states = Range1(state_ids)
  BY DEF IInv, TypeOK, CorpusTypeOK, TableOK
<1>2. CASE NoneEnters
  <2>1. state_ids' = state_ids /\ khms_states' = khms_states
    BY <1>2 DEF NoneEnters
  <2>2. \A s : StateIndex(s)' = StateIndex(s)
    BY <2>1, IndexOfState
  <2>3. \A s : EnteredOnce(s)' = EnteredOnce(s)
    BY <2>1, OnceOfState
  <2> QED
    BY <2>1, <2>2, <2>3
<1>3. ASSUME NEW id \in StateIds, GraphEnters(id) \/ RegionEnters(id)
      PROVE  /\ khms_states \subseteq khms_states'
             /\ \A s \in khms_states : StateIndex(s)' = StateIndex(s)
             /\ \A s : EnteredOnce(s)' => EnteredOnce(s)
  <2>1. state_ids' = Append(state_ids, id) /\ khms_states \subseteq khms_states'
    BY <1>3 DEF GraphEnters, RegionEnters
  <2>2. \A s \in Range1(state_ids) : IndexIn(state_ids', s) = IndexIn(state_ids, s)
    BY <1>1, <2>1, IndexAppend
  <2>3. \A s : OnceIn(state_ids', s) => OnceIn(state_ids, s)
    BY <1>1, <2>1, OnceAppend
  <2>4. \A s \in khms_states : StateIndex(s)' = StateIndex(s)
    BY <1>1, <2>2, IndexOfState
  <2>5. \A s : EnteredOnce(s)' => EnteredOnce(s)
    BY <2>3, OnceOfState
  <2> QED
    BY <2>1, <2>4, <2>5
<1> QED
  BY <1>2, <1>3, StepEnters

(* The table, state_ids and the graph stay in step.                        *)
LEMMA NextEntered ==
    ASSUME IInv, StatesEntered, [Next]_vars
    PROVE  StatesEntered'
<1>0. /\ state_ids \in Seq(StateIds)
      /\ khms_states = Range1(state_ids) /\ ipsm \subseteq khms_states
      /\ \A s \in khms_states \ ipsm : OnceIn(state_ids, s)
      /\ AtMostTwiceIn(state_ids)
  BY OnceOfState DEF StatesEntered, IInv, TypeOK, CorpusTypeOK, AtMostTwiceIn
<1>1. SUFFICES /\ khms_states' = Range1(state_ids') /\ ipsm' \subseteq khms_states'
               /\ \A s \in khms_states' \ ipsm' : OnceIn(state_ids', s)
               /\ AtMostTwiceIn(state_ids')
  <2>1. StatesEntered' <=>
           /\ khms_states' = Range1(state_ids') /\ ipsm' \subseteq khms_states'
           /\ \A s \in khms_states' \ ipsm' : OnceIn(state_ids', s)
           /\ AtMostTwiceIn(state_ids')
    BY DEF StatesEntered, EnteredOnce, OnceIn, AtMostTwiceIn, Range1
  <2> QED
    BY <2>1
<1>2. CASE NoneEnters
  BY <1>0, <1>2 DEF NoneEnters
<1>3. ASSUME NEW id \in StateIds, GraphEnters(id)
      PROVE  /\ khms_states' = Range1(state_ids') /\ ipsm' \subseteq khms_states'
             /\ \A s \in khms_states' \ ipsm' : OnceIn(state_ids', s)
             /\ AtMostTwiceIn(state_ids')
  <2>1. /\ id \notin ipsm /\ ipsm' = ipsm \cup {id}
        /\ khms_states' = khms_states \cup {id} /\ state_ids' = Append(state_ids, id)
    BY <1>3 DEF GraphEnters
  <2>2. OnceIn(state_ids, id)
    <3>1. CASE id \in khms_states
      BY <1>0, <2>1, <3>1
    <3>2. CASE id \notin khms_states
      BY <1>0, <3>2 DEF OnceIn, Range1
    <3> QED
      BY <3>1, <3>2
  <2>3. /\ Range1(state_ids') = Range1(state_ids) \cup {id} /\ AtMostTwiceIn(state_ids')
        /\ \A s : s # id /\ OnceIn(state_ids, s) => OnceIn(state_ids', s)
    BY <1>0, <2>1, <2>2, OnceAppend
  <2> QED
    BY <1>0, <2>1, <2>3
<1>4. ASSUME NEW id \in StateIds, RegionEnters(id)
      PROVE  /\ khms_states' = Range1(state_ids') /\ ipsm' \subseteq khms_states'
             /\ \A s \in khms_states' \ ipsm' : OnceIn(state_ids', s)
             /\ AtMostTwiceIn(state_ids')
  <2>1. /\ id \notin khms_states /\ ipsm' = ipsm
        /\ khms_states' = khms_states \cup {id} /\ state_ids' = Append(state_ids, id)
    BY <1>4 DEF RegionEnters
  <2>2. OnceIn(state_ids, id)
    BY <1>0, <2>1 DEF OnceIn, Range1
  <2>3. /\ Range1(state_ids') = Range1(state_ids) \cup {id} /\ AtMostTwiceIn(state_ids')
        /\ \A s : s # id /\ OnceIn(state_ids, s) => OnceIn(state_ids', s)
        /\ OnceIn(state_ids', id)
    BY <1>0, <2>1, <2>2, OnceAppend
  <2> QED
    BY <1>0, <2>1, <2>3
<1> QED
  BY <1>2, <1>3, <1>4, StepEnters

-----------------------------------------------------------------------------
(* The lists of seeds and the map                                          *)

(* No entry reaches a state before there is one.                           *)
NoRowBefore ==
    state_ids = <<>> =>
        \A r \in Rows, q \in Entries : was_fuzzed_map[r][q] \in {Unallocated, Unreachable}

(* new is old, but for cells that were allocated.                          *)
OnlyAllocates(old, new) ==
    \A r \in Rows, q \in Entries :
        \/ new[r][q] = old[r][q]
        \/ old[r][q] = Unallocated /\ new[r][q] = Unreachable

(* expand_was_fuzzed_map only allocates.                                   *)
LEMMA ExpandedAllocates ==
    ASSUME IInv, NEW states, NEW qentries
    PROVE  OnlyAllocates(was_fuzzed_map, ExpandedMap(states, qentries))
<1> SUFFICES ASSUME NEW r \in Rows, NEW q \in Entries
             PROVE  \/ ExpandedMap(states, qentries)[r][q] = was_fuzzed_map[r][q]
                    \/ /\ was_fuzzed_map[r][q] = Unallocated
                       /\ ExpandedMap(states, qentries)[r][q] = Unreachable
  BY DEF OnlyAllocates
<1>1. ExpandedMap(states, qentries)[r][q] = Unreachable =>
         r >= fuzzed_map_states \/ q >= fuzzed_map_qentries
         \/ ExpandedMap(states, qentries)[r][q] = was_fuzzed_map[r][q]
  BY DEF ExpandedMap
<1>2. \/ ExpandedMap(states, qentries)[r][q] = was_fuzzed_map[r][q]
      \/ ExpandedMap(states, qentries)[r][q] = Unreachable
  BY DEF ExpandedMap
<1> QED
  BY <1>1, <1>2, IInvMap DEF AllocatedExactly

(* The cell of entry q in the row of state s tells that q reaches s.       *)
ReachedIn(row, q) == was_fuzzed_map[row][q] \in {Reachable, Fuzzed}

(* A row that a new state will get has no reached cell yet.                *)
LEMMA FreshRow ==
    ASSUME IInv, NoRowBefore, Len(state_ids) \in Rows
    PROVE  \A q \in Entries : ~ReachedIn(Len(state_ids), q)
<1> DEFINE row == Len(state_ids)
<1>1. /\ Unreachable \notin {Reachable, Fuzzed} /\ Unallocated \notin {Reachable, Fuzzed}
  BY DEF Unreachable, Unallocated, Reachable, Fuzzed
<1>2. CASE state_ids = <<>>
  BY <1>1, <1>2 DEF NoRowBefore, ReachedIn
<1>3. CASE state_ids # <<>>
  <2>1. /\ fuzzed_map_states = row
        /\ \A r \in Rows, q \in Entries : (was_fuzzed_map[r][q] = Unallocated) <=>
              (r >= fuzzed_map_states \/ q >= fuzzed_map_qentries)
    BY <1>3 DEF IInv, MapDimensions
  <2>2. row \in Rows /\ row >= row
    BY CorpusAssumption DEF Rows
  <2> HIDE DEF row
  <2>3. \A q \in Entries : was_fuzzed_map[row][q] = Unallocated
    BY <2>1, <2>2
  <2>4. \A q \in Entries : ~ReachedIn(row, q)
    BY <1>1, <2>3 DEF ReachedIn
  <2> QED
    BY <2>4 DEF row
<1> QED
  BY <1>2, <1>3

(* Of an entry that is not in the queue yet, neither record says anything. *)
LEMMA NotYetSeed ==
    ASSUME IInv, NEW s \in khms_states, NEW q \in Entries \ Queue
    PROVE  q \notin Range1(seeds[s]) /\ ~ReachedIn(StateIndex(s), q)
<1>1. StateIndex(s) \in Rows /\ StateIndex(s) < fuzzed_map_states /\ s \in StateIds
  BY RowOfState
<1>2. q \notin Range1(seeds[s])
  <2>1. seeds[s] \in Seq(Queue)
    BY <1>1 DEF IInv, TypeOK
  <2> QED
    BY <2>1, ElementOfSeq DEF Range1
<1>3. was_fuzzed_map[StateIndex(s)][q] = Unallocated
  <2>1. /\ fuzzed_map_qentries = queued_paths /\ queued_paths \in Nat
        /\ \A r \in Rows : (was_fuzzed_map[r][q] = Unallocated) <=>
                              (r >= fuzzed_map_states \/ q >= fuzzed_map_qentries)
    BY DEF IInv, MapDimensions, TypeOK, CorpusTypeOK
  <2>2. q \in Int /\ q >= queued_paths
    BY <2>1, CorpusAssumption DEF Queue, Entries
  <2> QED
    BY <1>1, <2>1, <2>2
<1> QED
  BY <1>2, <1>3 DEF ReachedIn, Unallocated, Reachable, Fuzzed

(* Both records, of every state of the table and every entry, whether the  *)
(* entry is in the queue or still to come.                                 *)
LEMMA SeedsMatchAll ==
    ASSUME IInv, SeedsMatchMap, NEW s \in khms_states, NEW q \in Entries
    PROVE  /\ q \in Range1(seeds[s]) => ReachedIn(StateIndex(s), q)
           /\ EnteredOnce(s) /\ ReachedIn(StateIndex(s), q) => q \in Range1(seeds[s])
<1>1. CASE q \in Queue
  BY <1>1 DEF SeedsMatchMap, ReachedIn
<1>2. CASE q \notin Queue
  BY <1>2, NotYetSeed
<1> QED
  BY <1>1, <1>2

(* When cells are only allocated, states keep their index and their seeds  *)
(* or, entered again, lose them all; a new state starts without a seed and *)
(* a new entry without a state.                                            *)
LEMMA SeedsMatchGrow ==
    ASSUME IInv, SeedsMatchMap, NoRowBefore,
           Queue' \subseteq Entries,
           OnlyAllocates(was_fuzzed_map, was_fuzzed_map'),
           \A s \in khms_states :
              /\ StateIndex(s)' = StateIndex(s) /\ (EnteredOnce(s)' => EnteredOnce(s))
              /\ seeds'[s] = seeds[s] \/ (seeds'[s] = <<>> /\ ~EnteredOnce(s)'),
           \A s \in khms_states' \ khms_states :
              /\ seeds'[s] = <<>> /\ StateIndex(s)' = Len(state_ids) /\ Len(state_ids) \in Rows
    PROVE  SeedsMatchMap'
<1> SUFFICES ASSUME NEW s \in khms_states', NEW q \in Queue'
             PROVE  /\ q \in Range1(seeds'[s]) =>
                          was_fuzzed_map'[StateIndex(s)'][q] \in {Reachable, Fuzzed}
                    /\ EnteredOnce(s)' /\ was_fuzzed_map'[StateIndex(s)'][q] \in {Reachable, Fuzzed}
                          => q \in Range1(seeds'[s])
  BY DEF SeedsMatchMap, Range1
<1>1. \A r \in Rows : was_fuzzed_map'[r][q] \in {Reachable, Fuzzed} <=> ReachedIn(r, q)
  BY DEF OnlyAllocates, ReachedIn, Unallocated, Unreachable, Reachable, Fuzzed
<1>2. Range1(<<>>) = {}
  BY DEF Range1
<1>3. CASE s \in khms_states
  <2>1. StateIndex(s) \in Rows
    BY <1>3, RowOfState
  <2>2. /\ q \in Range1(seeds[s]) => ReachedIn(StateIndex(s), q)
        /\ EnteredOnce(s) /\ ReachedIn(StateIndex(s), q) => q \in Range1(seeds[s])
    BY <1>3, SeedsMatchAll
  <2> QED
    BY <1>1, <1>2, <1>3, <2>1, <2>2
<1>4. CASE s \notin khms_states
  <2> DEFINE row == Len(state_ids)
  <2>1. seeds'[s] = <<>> /\ StateIndex(s)' = row /\ row \in Rows
    BY <1>4
  <2>2. ~ReachedIn(row, q)
    BY <2>1, FreshRow
  <2> HIDE DEF row
  <2> QED
    BY <1>1, <1>2, <2>1, <2>2
<1> QED
  BY <1>3, <1>4

(* The entry becomes a seed of a state and reachable in its row.           *)
LEMMA SeedsMatchReached ==
    ASSUME IInv, SeedsMatchMap, NEW id \in khms_states, cur \in Queue,
           UNCHANGED <<queued_paths, khms_states, state_ids>>,
           seeds' = [seeds EXCEPT ![id] = Append(@, cur)],
           was_fuzzed_map' = [was_fuzzed_map EXCEPT ![StateIndex(id)][cur] = Reachable]
    PROVE  SeedsMatchMap'
<1> SUFFICES ASSUME NEW s \in khms_states, NEW q \in Queue
             PROVE  /\ q \in Range1(seeds'[s]) =>
                          was_fuzzed_map'[StateIndex(s)'][q] \in {Reachable, Fuzzed}
                    /\ EnteredOnce(s)' /\ was_fuzzed_map'[StateIndex(s)'][q] \in {Reachable, Fuzzed}
                          => q \in Range1(seeds'[s])
  BY DEF SeedsMatchMap, Range1, Queue
<1>1. /\ was_fuzzed_map \in [Rows -> [Entries -> Cells]] /\ seeds \in [StateIds -> Seq(Queue)]
      /\ Queue \subseteq Entries
  BY IInvMap, QueueInEntries DEF IInv, TypeOK
<1>2. StateIndex(s)' = StateIndex(s) /\ EnteredOnce(s)' = EnteredOnce(s)
  BY IndexOfState, OnceOfState
<1>3. /\ id \in StateIds /\ s \in StateIds /\ StateIndex(id) \in Rows /\ StateIndex(s) \in Rows
      /\ (StateIndex(s) = StateIndex(id) => s = id)
  BY RowOfState
<1>4. /\ q \in Range1(seeds[s]) => was_fuzzed_map[StateIndex(s)][q] \in {Reachable, Fuzzed}
      /\ EnteredOnce(s) /\ was_fuzzed_map[StateIndex(s)][q] \in {Reachable, Fuzzed}
            => q \in Range1(seeds[s])
  BY DEF SeedsMatchMap
<1>5. q \in Range1(seeds'[s]) <=> q \in Range1(seeds[s]) \/ (s = id /\ q = cur)
  <2>1. CASE s = id
    <3>1. seeds'[s] = Append(seeds[s], cur) /\ seeds[s] \in Seq(Queue)
      BY <1>1, <1>3, <2>1
    <3>2. /\ Len(seeds'[s]) = Len(seeds[s]) + 1 /\ Len(seeds[s]) \in Nat
          /\ \A i \in 1 .. Len(seeds[s]) : seeds'[s][i] = seeds[s][i]
          /\ seeds'[s][Len(seeds[s]) + 1] = cur
      BY <3>1, AppendProperties, LenProperties
    <3>3. \A i \in 1 .. Len(seeds'[s]) : i \in 1 .. Len(seeds[s]) \/ i = Len(seeds[s]) + 1
      BY <3>2
    <3>4. /\ \A i \in 1 .. Len(seeds[s]) : i \in 1 .. Len(seeds'[s])
          /\ Len(seeds[s]) + 1 \in 1 .. Len(seeds'[s])
      BY <3>2
    <3> QED
      BY <2>1, <3>2, <3>3, <3>4 DEF Range1
  <2>2. CASE s # id
    BY <1>1, <1>3, <2>2
  <2> QED
    BY <2>1, <2>2
<1>6. was_fuzzed_map'[StateIndex(s)][q] =
         IF s = id /\ q = cur THEN Reachable ELSE was_fuzzed_map[StateIndex(s)][q]
  BY <1>1, <1>3
<1> QED
  BY <1>2, <1>4, <1>5, <1>6

(* A region enters a state: the entry is its first seed, and reachable in  *)
(* the row the state brings.                                               *)
LEMMA SeedsMatchEntered ==
    ASSUME IInv, SeedsMatchMap, NoRowBefore, [Next]_vars,
           NEW id \in StateIds, id \notin khms_states, cur \in Queue,
           NEW M \in [Rows -> [Entries -> Cells]], OnlyAllocates(was_fuzzed_map, M),
           Len(state_ids) < MaxRows, queued_paths' = queued_paths,
           khms_states' = khms_states \cup {id}, state_ids' = Append(state_ids, id),
           seeds' = [seeds EXCEPT ![id] = <<cur>>],
           was_fuzzed_map' = [M EXCEPT ![StateIndex(id)][cur] = Reachable]
    PROVE  SeedsMatchMap'
<1> DEFINE row == Len(state_ids)
<1>0. /\ state_ids \in Seq(StateIds) /\ khms_states = Range1(state_ids)
      /\ seeds \in [StateIds -> Seq(Queue)] /\ khms_states \subseteq StateIds
      /\ Queue \subseteq Entries /\ Queue' = Queue
  BY QueueInEntries DEF IInv, TypeOK, CorpusTypeOK, TableOK, Queue
<1>1. row \in Rows
  BY <1>0, LenProperties, CorpusAssumption DEF Rows
<1>2. StateIndex(id) = row /\ StateIndex(id)' = row
  BY <1>0, IndexInCorrect, IndexAppend, IndexOfState
<1>3. \A q \in Entries : ~ReachedIn(row, q)
  BY <1>1, FreshRow
<1>4. \A s \in khms_states : /\ StateIndex(s)' = StateIndex(s)
                             /\ EnteredOnce(s)' => EnteredOnce(s)
  BY StatesStay
<1>5. \A s \in khms_states : StateIndex(s) \in Rows /\ StateIndex(s) # row
  <2>1. \A s \in khms_states : StateIndex(s) \in 0 .. Len(state_ids) - 1
    BY <1>0, IndexInCorrect, IndexOfState
  <2>2. Len(state_ids) \in Nat
    BY <1>0, LenProperties
  <2> QED
    BY <2>1, <2>2, RowOfState
<1> HIDE DEF row
<1>6. \A r \in Rows, q \in Entries :
         was_fuzzed_map'[r][q] = IF r = row /\ q = cur THEN Reachable ELSE M[r][q]
  BY <1>0, <1>1, <1>2
<1>7. \A r \in Rows, q \in Entries : M[r][q] \in {Reachable, Fuzzed} <=> ReachedIn(r, q)
  BY DEF OnlyAllocates, ReachedIn, Unallocated, Unreachable, Reachable, Fuzzed
<1>8. seeds'[id] = <<cur>> /\ \A s \in khms_states : seeds'[s] = seeds[s]
  BY <1>0
<1>9. Range1(<<cur>>) = {cur}
  <2>1. Len(<<cur>>) = 1 /\ <<cur>>[1] = cur
    OBVIOUS
  <2>2. 1 .. 1 = {1}
    OBVIOUS
  <2> QED
    BY <2>1, <2>2 DEF Range1
<1> SUFFICES ASSUME NEW s \in khms_states', NEW q \in Queue'
             PROVE  /\ q \in Range1(seeds'[s]) =>
                          was_fuzzed_map'[StateIndex(s)'][q] \in {Reachable, Fuzzed}
                    /\ EnteredOnce(s)' /\ was_fuzzed_map'[StateIndex(s)'][q] \in {Reachable, Fuzzed}
                          => q \in Range1(seeds'[s])
  BY DEF SeedsMatchMap, Range1
<1>10. q \in Entries
  BY <1>0
<1>11. CASE s = id
  BY <1>1, <1>2, <1>3, <1>6, <1>7, <1>8, <1>9, <1>10, <1>11
<1>12. CASE s \in khms_states
  <2>1. was_fuzzed_map'[StateIndex(s)][q] \in {Reachable, Fuzzed} <=> ReachedIn(StateIndex(s), q)
    BY <1>5, <1>6, <1>7, <1>10, <1>12
  <2>2. /\ q \in Range1(seeds[s]) => ReachedIn(StateIndex(s), q)
        /\ EnteredOnce(s) /\ ReachedIn(StateIndex(s), q) => q \in Range1(seeds[s])
    BY <1>10, <1>12, SeedsMatchAll
  <2> QED
    BY <1>4, <1>8, <1>12, <2>1, <2>2
<1> QED
  BY <1>11, <1>12

(* Frame: the lists of seeds, the indices of the states and the map.       *)
LEMMA SeedsMatchFrame ==
    ASSUME SeedsMatchMap, NoRowBefore,
           UNCHANGED <<queued_paths, khms_states, seeds, state_ids, was_fuzzed_map>>
    PROVE  SeedsMatchMap' /\ NoRowBefore'
<1>1. \A s \in khms_states : StateIndex(s)' = StateIndex(s) /\ EnteredOnce(s)' = EnteredOnce(s)
  BY IndexOfState, OnceOfState
<1>2. SeedsMatchMap'
  BY <1>1 DEF SeedsMatchMap, Range1, Queue
<1> QED
  BY <1>2 DEF NoRowBefore

(* Every step keeps the two records of who reaches which state in step,    *)
(* given that the entry whose turn ends is recorded as reaching the target.*)
LEMMA NextSeedsMatch ==
    ASSUME IInv, StatesEntered, SeedsMatchMap, NoRowBefore, [Next]_vars,
           queue_cur # NoEntry => ReachedIn(StateIndex(target_state_id), queue_cur)
    PROVE  SeedsMatchMap' /\ NoRowBefore'
<1>0. IInv'
  BY NextIInv
<1>00. Queue \subseteq Entries /\ Queue' \subseteq Entries
  <2>1. queued_paths' \in Nat /\ queued_paths' <= MaxPaths /\ MaxPaths \in Nat
    BY <1>0, CorpusAssumption DEF IInv, TypeOK, CorpusTypeOK
  <2>2. \A n \in Nat : n <= MaxPaths => 0 .. n - 1 \subseteq 0 .. MaxPaths - 1
    BY <2>1
  <2>3. Queue' \subseteq Entries
    BY <2>1, <2>2 DEF Queue, Entries
  <2> QED
    BY <2>3, QueueInEntries
<1>1. CASE ReadTestcase \/ KeepTestcase
  <2>1. PICK s \in Sessions : AddToQueue(Len(s.regions))
    BY <1>1 DEF ReadTestcase, KeepTestcase
  <2>2. UNCHANGED <<state_ids, tableVars>>
    BY <1>1 DEF ReadTestcase, KeepTestcase
  <2>3. PICK n : was_fuzzed_map' = ExpandedMap(n, 1)
    BY <2>1 DEF AddToQueue
  <2>4. OnlyAllocates(was_fuzzed_map, was_fuzzed_map')
    BY <2>3, ExpandedAllocates
  <2>6. \A t \in khms_states : /\ StateIndex(t)' = StateIndex(t)
                               /\ EnteredOnce(t)' => EnteredOnce(t)
    BY StatesStay
  <2>7. SeedsMatchMap'
    BY <1>00, <2>2, <2>4, <2>6, SeedsMatchGrow DEF tableVars
  <2>8. NoRowBefore'
    BY <2>2, <2>4 DEF NoRowBefore, OnlyAllocates
  <2> QED
    BY <2>7, <2>8
<1>2. CASE IpsmStep
  <2> DEFINE id == session.codes[pos]
  <2>1. queued_paths' = queued_paths
    BY <1>2 DEF IpsmStep
  <2>2. CASE IsNode(id)
    <3>1. UNCHANGED <<tableVars, state_ids, was_fuzzed_map>>
      BY <1>2, <2>2 DEF IpsmStep
    <3> QED
      BY <2>1, <3>1, SeedsMatchFrame DEF tableVars
  <2>3. CASE ~IsNode(id)
    <3>1. /\ khms_states' = khms_states \cup {id} /\ state_ids' = Append(state_ids, id)
          /\ seeds' = [seeds EXCEPT ![id] = <<>>] /\ Len(state_ids) < MaxRows
          /\ was_fuzzed_map' = ExpandedMap(NewRows(id), 0)
      BY <1>2, <2>3 DEF IpsmStep, DiscoverState
    <3>2. id \in StateIds /\ state_ids \in Seq(StateIds) /\ Len(state_ids) \in Nat
          /\ khms_states = Range1(state_ids)
      BY <1>2, IpsmState, LenProperties DEF IInv, TypeOK, CorpusTypeOK, TableOK
    <3> HIDE DEF id
    <3>3. OnlyAllocates(was_fuzzed_map, was_fuzzed_map')
      BY <3>1, ExpandedAllocates
    <3>4. \A s \in khms_states : /\ StateIndex(s)' = StateIndex(s)
                                 /\ EnteredOnce(s)' => EnteredOnce(s)
      BY StatesStay
    <3>5. \A s \in {id} : s \notin khms_states => StateIndex(s)' = Len(state_ids)
      <4>1. id \notin khms_states => IndexIn(state_ids', id) = Len(state_ids)
        BY <3>1, <3>2, IndexAppend
      <4> QED
        BY <4>1, IndexOfState
    <3>6. \A s \in {id} : s \in khms_states => ~EnteredOnce(s)'
      <4>1. id \in khms_states => ~OnceIn(state_ids', id)
        BY <3>1, <3>2, OnceAppend
      <4> QED
        BY <4>1, OnceOfState
    <3>7. seeds'[id] = <<>> /\ \A s \in khms_states : s # id => seeds'[s] = seeds[s]
      BY <3>1, <3>2 DEF IInv, TypeOK
    <3>8. Len(state_ids) \in Rows
      BY <3>1, <3>2, CorpusAssumption DEF Rows
    <3>9. SeedsMatchMap'
      <4>1. \A s \in khms_states' \ khms_states :
               /\ seeds'[s] = <<>> /\ StateIndex(s)' = Len(state_ids) /\ Len(state_ids) \in Rows
        <5>1. \A s \in khms_states' \ khms_states : s = id
          BY <3>1
        <5> QED
          BY <3>5, <3>7, <3>8, <5>1
      <4>2. \A s \in khms_states :
               /\ StateIndex(s)' = StateIndex(s) /\ (EnteredOnce(s)' => EnteredOnce(s))
               /\ seeds'[s] = seeds[s] \/ (seeds'[s] = <<>> /\ ~EnteredOnce(s)')
        BY <3>4, <3>6, <3>7
      <4> QED
        BY <1>00, <3>3, <4>1, <4>2, SeedsMatchGrow
    <3>10. state_ids' # <<>>
      BY <3>1, <3>2, AppendProperties, EmptySeq
    <3> QED
      BY <3>9, <3>10 DEF NoRowBefore
  <2> QED
    BY <2>2, <2>3
<1>3. CASE AnnotateRegions \/ RegionStep
  <2>1. cur \in Queue /\ queued_paths' = queued_paths
    BY <1>3 DEF AnnotateRegions, RegionStep, IInv, ControlOK, Observing
  <2>2. \/ UNCHANGED <<tableVars, state_ids, was_fuzzed_map>>
        \/ SeedsMatchMap' /\ state_ids' # <<>>
        \/ \E id \in khms_states :
              /\ UNCHANGED <<khms_states, state_ids>>
              /\ seeds' = [seeds EXCEPT ![id] = Append(@, cur)]
              /\ was_fuzzed_map' = [was_fuzzed_map EXCEPT ![StateIndex(id)][cur] = Reachable]
    <3>1. CASE AnnotateRegions
      <4>1. CASE 0 \in khms_states
        <5>1. state_ids \in Seq(StateIds) /\ state_ids # <<>> /\ state_ids[1] = 0
          <6>1. state_ids # <<>>
            BY <4>1, RowOfState
          <6> QED
            BY <6>1 DEF IInv, TypeOK, CorpusTypeOK, TableOK, InitialStateFirst
        <5>2. StateIndex(0) = 0
          <6>1. Len(state_ids) \in Nat \ {0}
            BY <5>1, EmptySeq
          <6>2. 0 \in 0 .. Len(state_ids) - 1 /\ state_ids[0 + 1] = 0
            BY <5>1, <6>1
          <6>3. IndexIn(state_ids, 0) = 0
            BY <5>1, <6>2, IndexInUnique
          <6> QED
            BY <6>3, IndexOfState
        <5>3. /\ UNCHANGED <<khms_states, state_ids>>
              /\ seeds' = [seeds EXCEPT ![0] = Append(@, cur)]
              /\ was_fuzzed_map' = [was_fuzzed_map EXCEPT ![0][cur] = Reachable]
          BY <3>1, <4>1 DEF AnnotateRegions
        <5> QED
          BY <4>1, <5>2, <5>3
      <4>2. CASE 0 \notin khms_states
        BY <3>1, <4>2 DEF AnnotateRegions, tableVars
      <4> QED
        BY <4>1, <4>2
    <3>2. CASE RegionStep
      <4> DEFINE region == entry[cur].regions[pos]
      <4>1. CASE region.state_count = 0
        BY <3>2, <4>1 DEF RegionStep
      <4>2. CASE region.state_count # 0 /\ region.last \in khms_states
        <5>1. /\ seeds' = [seeds EXCEPT ![region.last] = Append(@, cur)]
              /\ was_fuzzed_map' = [was_fuzzed_map EXCEPT ![StateIndex(region.last)][cur] = Reachable]
              /\ UNCHANGED <<khms_states, state_ids>>
          BY <3>2, <4>2 DEF RegionStep
        <5> QED
          BY <4>2, <5>1
      <4>3. CASE region.state_count # 0 /\ region.last \notin khms_states
        <5> DEFINE id == region.last
                   M == ExpandedMap(NewRows(id), 0)
        <5>1. /\ khms_states' = khms_states \cup {id} /\ state_ids' = Append(state_ids, id)
              /\ seeds' = [seeds EXCEPT ![id] = <<cur>>] /\ Len(state_ids) < MaxRows
              /\ was_fuzzed_map' = [M EXCEPT ![StateIndex(id)][cur] = Reachable]
          BY <3>2, <4>3 DEF RegionStep, DiscoverState
        <5>2. id \in StateIds /\ id \notin khms_states
          BY <3>2, <4>3, RegionState
        <5>3. M \in [Rows -> [Entries -> Cells]] /\ OnlyAllocates(was_fuzzed_map, M)
          BY <5>2, ExpandedRows, ExpandedAllocates
        <5> HIDE DEF id, M
        <5>4. SeedsMatchMap'
          BY <2>1, <5>1, <5>2, <5>3, SeedsMatchEntered
        <5>5. state_ids' # <<>>
          <6>1. state_ids \in Seq(StateIds)
            BY DEF IInv, TypeOK, CorpusTypeOK
          <6> QED
            BY <5>1, <5>2, <6>1, AppendProperties, EmptySeq, LenProperties
        <5> QED
          BY <5>4, <5>5
      <4> QED
        BY <4>1, <4>2, <4>3
    <3> QED
      BY <1>3, <3>1, <3>2
  <2>3. CASE UNCHANGED <<tableVars, state_ids, was_fuzzed_map>>
    BY <2>1, <2>3, SeedsMatchFrame DEF tableVars
  <2>4. ASSUME NEW id \in khms_states, UNCHANGED <<khms_states, state_ids>>,
               seeds' = [seeds EXCEPT ![id] = Append(@, cur)],
               was_fuzzed_map' = [was_fuzzed_map EXCEPT ![StateIndex(id)][cur] = Reachable]
        PROVE  SeedsMatchMap' /\ NoRowBefore'
    <3>1. SeedsMatchMap'
      BY <2>1, <2>4, SeedsMatchReached
    <3>2. state_ids' # <<>>
      BY <2>4, RowOfState
    <3> QED
      BY <3>1, <3>2 DEF NoRowBefore
  <2>5. CASE SeedsMatchMap' /\ state_ids' # <<>>
    BY <2>5 DEF NoRowBefore
  <2> QED
    BY <2>2, <2>3, <2>4, <2>5
<1>4. CASE FinishFuzzOne
  <2> DEFINE row == StateIndex(target_state_id)
  <2>1. /\ queue_cur # NoEntry /\ queue_cur \in Queue /\ target_state_id \in khms_states
        /\ UNCHANGED <<queued_paths, tableVars, state_ids>>
        /\ \/ was_fuzzed_map' = was_fuzzed_map
           \/ was_fuzzed_map' = [was_fuzzed_map EXCEPT ![row][queue_cur] = Fuzzed]
    BY <1>4 DEF FinishFuzzOne, AbandonEntry, IInv, ControlOK, TypeOK
  <2>2. state_ids # <<>> /\ row \in Rows
    BY <2>1, RowOfState
  <2>3. was_fuzzed_map[row][queue_cur] \in {Reachable, Fuzzed}
    BY <2>1 DEF ReachedIn
  <2>4. \A r \in Rows, q \in Entries :
           was_fuzzed_map'[r][q] \in {Reachable, Fuzzed} <=>
              was_fuzzed_map[r][q] \in {Reachable, Fuzzed}
    <3>1. was_fuzzed_map \in [Rows -> [Entries -> Cells]]
      BY IInvMap
    <3> HIDE DEF row
    <3> QED
      BY <2>1, <2>3, <3>1
  <2>5. \A s \in khms_states : /\ StateIndex(s)' = StateIndex(s) /\ StateIndex(s) \in Rows
                               /\ EnteredOnce(s)' = EnteredOnce(s)
    BY <2>1, IndexOfState, RowOfState, OnceOfState
  <2>6. SeedsMatchMap'
    <3> SUFFICES ASSUME NEW s \in khms_states, NEW q \in Queue
                 PROVE  /\ q \in Range1(seeds[s]) =>
                              was_fuzzed_map'[StateIndex(s)'][q] \in {Reachable, Fuzzed}
                        /\ EnteredOnce(s)' /\ was_fuzzed_map'[StateIndex(s)'][q] \in {Reachable, Fuzzed}
                              => q \in Range1(seeds[s])
      BY <2>1 DEF SeedsMatchMap, tableVars, Queue, Range1
    <3> QED
      BY <1>00, <2>4, <2>5 DEF SeedsMatchMap
  <2> QED
    BY <2>1, <2>2, <2>6 DEF NoRowBefore
<1>5. CASE \/ FinishReading \/ DryRun \/ ObserveResponse \/ FinishRegions \/ StartFuzzing
           \/ SelectSeed \/ Calibrate \/ Stop \/ Exited \/ UNCHANGED vars
  <2>1. UNCHANGED <<queued_paths, khms_states, seeds, state_ids, was_fuzzed_map>>
    BY <1>5 DEF FinishReading, DryRun, ObserveResponse, FinishRegions, StartFuzzing, SelectSeed,
       Calibrate, Stop, AbandonEntry, RecordsTurn, Exited, vars, corpusVars, tableVars, mapVars
  <2> QED
    BY <2>1, SeedsMatchFrame
<1> QED
  BY <1>1, <1>2, <1>3, <1>4, <1>5 DEF Next, Progress

-----------------------------------------------------------------------------
(* A turn has something to mutate                                          *)

(* M2 over the regions of an entry.                                        *)
M2Of(regions, t) ==
    LET n == Len(regions)
        reaching == {i \in 1 .. n : regions[i].state_count > 0 /\ regions[i].last = t}
        blank == {i \in 1 .. n : regions[i].state_count = 0}
        first == CHOOSE i \in reaching : \A j \in reaching : i <= j
        start == IF t = 0 THEN 0 ELSE first
        alike(k) == \A i \in start + 1 .. start + k :
                        regions[i].state_count = regions[start + 1].state_count
    IN  IF t # 0 /\ (reaching = {} \/ \E i \in blank : i < first)
        THEN [start |-> n, count |-> 0]
        ELSE [start |-> start,
              count |-> CHOOSE k \in 0 .. n - start :
                            alike(k) /\ (k < n - start => ~alike(k + 1))]

(* Only the regions of the entry and the target tell M2.                   *)
LEMMA M2OfEntry ==
    ASSUME NEW q, NEW t
    PROVE  /\ M2(q, t) = M2Of(entry[q].regions, t)
           /\ M2(q, t)' = M2Of(entry'[q].regions, t)
BY DEF M2, M2Of

(* M2 that starts inside the list of regions has at least one region.      *)
LEMMA M2NotEmpty ==
    ASSUME NEW regions \in Seq(Region), NEW t, M2Of(regions, t).start < Len(regions)
    PROVE  M2Of(regions, t).count > 0
<1> DEFINE n == Len(regions)
           reaching == {i \in 1 .. n : regions[i].state_count > 0 /\ regions[i].last = t}
           blank == {i \in 1 .. n : regions[i].state_count = 0}
           first == CHOOSE i \in reaching : \A j \in reaching : i <= j
           start == IF t = 0 THEN 0 ELSE first
           alike(k) == \A i \in start + 1 .. start + k :
                           regions[i].state_count = regions[start + 1].state_count
           skipped == t # 0 /\ (reaching = {} \/ \E i \in blank : i < first)
           ends(k) == alike(k) /\ (k < n - start => ~alike(k + 1))
           count == CHOOSE k \in 0 .. n - start : ends(k)
<1>1. n \in Nat
  BY LenProperties
<1>2. M2Of(regions, t) = IF skipped THEN [start |-> n, count |-> 0]
                         ELSE [start |-> start, count |-> count]
  BY DEF M2Of
<1>3. ~skipped
  <2> HIDE DEF skipped, start, count, n
  <2>1. skipped => M2Of(regions, t).start = n
    BY <1>2
  <2> QED
    BY <1>1, <2>1 DEF n
<1>4. M2Of(regions, t).start = start /\ M2Of(regions, t).count = count
  <2> HIDE DEF skipped, start, count
  <2> QED
    BY <1>2, <1>3
<1>5. start \in Nat /\ start < n
  <2>1. CASE t = 0
    BY <1>4, <2>1
  <2>2. CASE t # 0
    <3>1. reaching # {} /\ reaching \in SUBSET Nat
      BY <1>3, <2>2
    <3>2. first \in reaching
      BY <3>1, LeastElement
    <3> QED
      BY <1>4, <2>2, <3>1, <3>2
  <2> QED
    BY <2>1, <2>2
<1> HIDE DEF start, first, reaching, blank
<1>6. \E k \in 0 .. n - start : ends(k)
  <2> DEFINE B == {k \in 0 .. n - start : k = n - start \/ ~alike(k + 1)}
  <2>1. B \in SUBSET Nat /\ n - start \in B
    BY <1>1, <1>5
  <2>2. PICK k \in B : \A j \in B : k <= j
    BY <2>1, LeastElement
  <2>3. k \in 0 .. n - start /\ (k < n - start => ~alike(k + 1))
    BY <1>1, <1>5, <2>2
  <2>4. alike(k)
    <3>1. CASE k = 0
      BY <1>5, <3>1
    <3>2. CASE k # 0
      <4>1. k - 1 \in 0 .. n - start /\ k - 1 \notin B /\ (k - 1) + 1 = k
        <5>1. k - 1 \in 0 .. n - start /\ (k - 1) + 1 = k /\ ~(k <= k - 1)
          BY <1>1, <1>5, <2>3, <3>2
        <5> QED
          BY <2>2, <5>1
      <4>2. alike((k - 1) + 1)
        BY <4>1
      <4> HIDE DEF alike
      <4> QED
        BY <4>1, <4>2
    <3> QED
      BY <3>1, <3>2
  <2> HIDE DEF alike, B
  <2> QED
    BY <2>3, <2>4
<1>7. count \in 0 .. n - start /\ ends(count)
  <2> HIDE DEF ends
  <2> QED
    BY <1>6
<1> HIDE DEF count
<1>8. alike(0 + 1)
  BY <1>5
<1>9. count # 0
  <2>1. count = 0 => ends(0)
    BY <1>7
  <2>2. 0 < n - start
    BY <1>1, <1>5
  <2> HIDE DEF alike
  <2> QED
    BY <1>8, <2>1, <2>2
<1> QED
  BY <1>1, <1>4, <1>5, <1>7, <1>9

(* The turn in progress: the entry reaches the target, it has an M2, and   *)
(* the entry that is being observed is another one.                        *)
TurnHeld ==
    queue_cur # NoEntry =>
        /\ phase \in {"fuzz", "calibrate", "fatal"} \cup Observing
        /\ phase \in Observing => ~entry[cur].is_initial_seed
        /\ phase \in Observing \cup {"calibrate"} => cur # queue_cur
        /\ ReachedIn(StateIndex(target_state_id), queue_cur)
        /\ M2(queue_cur, target_state_id).count > 0

(* A turn begins with a seed of the target that has an M2.                 *)
LEMMA SelectSeedHeld ==
    ASSUME IInv, SeedsMatchMap, TurnHeld, SelectSeed
    PROVE  TurnHeld'
<1>1. PICK t \in StateIds :
          /\ target_state_id' = t
          /\ \E choice \in ChooseSeed(t, pending_favored', favored') :
                \/ queue_cur' = NoEntry
                \/ /\ choice[1] # NoEntry /\ queue_cur' = choice[1] /\ phase' = "fuzz"
                   /\ M2(choice[1], t).start < Len(entry[choice[1]].regions)
  BY DEF SelectSeed
<1>2. UNCHANGED <<entry, seeds, queued_paths, state_ids, khms_states, was_fuzzed_map>>
  BY DEF SelectSeed, mapVars
<1>3. PICK choice \in ChooseSeed(t, pending_favored', favored') :
          \/ queue_cur' = NoEntry
          \/ /\ choice[1] # NoEntry /\ queue_cur' = choice[1] /\ phase' = "fuzz"
             /\ M2(choice[1], t).start < Len(entry[choice[1]].regions)
  BY <1>1
<1> DEFINE q == choice[1]
<1>4. q \in Range1(seeds[t]) \cup {NoEntry} /\ q \in Queue \cup {NoEntry}
  BY ChooseSeedCorrect
<1> HIDE DEF q
<1>5. CASE queue_cur' = NoEntry
  BY <1>5 DEF TurnHeld
<1>6. CASE queue_cur' # NoEntry
  <2>1. /\ q # NoEntry /\ queue_cur' = q /\ phase' = "fuzz" /\ target_state_id' = t
        /\ M2(q, t).start < Len(entry[q].regions)
    BY <1>1, <1>3, <1>6 DEF q
  <2>2. entry[q].regions \in Seq(Region)
    <3>1. q \in Entries
      BY <1>4, <2>1, QueueInEntries
    <3>2. entry[q] \in Entry
      BY <3>1 DEF IInv, TypeOK, CorpusTypeOK
    <3> QED
      BY <3>2 DEF Entry
  <2>3. M2Of(entry[q].regions, t).count > 0
    BY <2>1, <2>2, M2OfEntry, M2NotEmpty
  <2>4. q \in Range1(seeds[t])
    BY <1>4, <2>1
  <2>5. M2(queue_cur, target_state_id)' = M2Of(entry'[queue_cur'].regions, target_state_id')
    BY DEF M2, M2Of
  <2>6. (M2(queue_cur, target_state_id).count > 0)'
    BY <1>2, <2>1, <2>3, <2>5
  <2>7. (ReachedIn(StateIndex(target_state_id), queue_cur))'
    <3>1. IInv'
      BY NextIInv DEF Next, Progress
    <3>2. t \in khms_states
      BY <1>2, <1>6, <2>1, <3>1 DEF IInv, ControlOK
    <3>3. ReachedIn(StateIndex(t), q)
      BY <1>4, <2>1, <2>4, <3>2, QueueInEntries, SeedsMatchAll
    <3>4. StateIndex(target_state_id)' = StateIndex(t)
      BY <1>2, <2>1 DEF StateIndex
    <3> QED
      BY <1>2, <2>1, <3>3, <3>4 DEF ReachedIn
  <2>8. phase' \notin Observing \cup {"calibrate"}
    BY <2>1 DEF Observing
  <2> QED
    BY <2>1, <2>6, <2>7, <2>8 DEF TurnHeld
<1> QED
  BY <1>5, <1>6

(* The observation and the calibration of an entry a turn has kept touch   *)
(* nothing of the turn.                                                    *)
LEMMA TurnStays ==
    ASSUME IInv, [Next]_vars, TurnHeld,
           UNCHANGED <<queue_cur, target_state_id>>,
           queue_cur # NoEntry =>
              /\ entry'[queue_cur].regions = entry[queue_cur].regions
              /\ phase' \in {"fuzz", "calibrate", "fatal"} \cup Observing
              /\ phase' \in Observing => ~entry'[cur'].is_initial_seed
              /\ phase' \in Observing \cup {"calibrate"} => cur' # queue_cur
    PROVE  TurnHeld'
<1> SUFFICES ASSUME queue_cur # NoEntry PROVE TurnHeld'
  BY DEF TurnHeld
<1>1. target_state_id \in khms_states
  BY DEF IInv, ControlOK
<1>2. was_fuzzed_map'[StateIndex(target_state_id)][queue_cur] \in {Reachable, Fuzzed}
  <2> DEFINE row == StateIndex(target_state_id)
  <2>1. row \in Rows
    BY <1>1, RowOfState
  <2>2. queue_cur \in Entries
    BY QueueInEntries DEF IInv, TypeOK
  <2>3. was_fuzzed_map[row][queue_cur] \in {Reachable, Fuzzed}
    BY DEF TurnHeld, ReachedIn
  <2> HIDE DEF row
  <2>4. was_fuzzed_map[row][queue_cur] <= was_fuzzed_map'[row][queue_cur]
    <3>1. CASE Next
      BY <2>1, <2>2, <3>1, NextGrows DEF CellsGrow
    <3>2. CASE UNCHANGED vars
      <4>1. was_fuzzed_map' = was_fuzzed_map
        BY <3>2 DEF vars, corpusVars, mapVars
      <4> QED
        BY <2>1, <2>2, <4>1, CellOrder
    <3> QED
      BY <3>1, <3>2
  <2>5. was_fuzzed_map'[row][queue_cur] \in Cells
    <3>1. IInv'
      BY NextIInv
    <3>2. was_fuzzed_map' \in [Rows -> [Entries -> Cells]]
      BY <3>1 DEF IInv, TypeOK, CorpusTypeOK
    <3> QED
      BY <2>1, <2>2, <3>2
  <2>6. \A v \in {Reachable, Fuzzed} : \A w \in Cells : v <= w => w \in {Reachable, Fuzzed}
    BY DEF Cells, Unallocated, Unreachable, Reachable, Fuzzed
  <2>7. was_fuzzed_map'[row][queue_cur] \in {Reachable, Fuzzed}
    BY <2>3, <2>4, <2>5, <2>6
  <2> QED
    BY <2>7 DEF row
<1>3. M2Of(entry'[queue_cur].regions, target_state_id).count > 0
  BY M2OfEntry DEF TurnHeld
<1>4. M2(queue_cur, target_state_id)' = M2Of(entry'[queue_cur'].regions, target_state_id')
  BY DEF M2, M2Of
<1>5. (M2(queue_cur, target_state_id).count > 0)'
  BY <1>3, <1>4
<1>6. (ReachedIn(StateIndex(target_state_id), queue_cur))'
  <2>1. \A s \in khms_states : StateIndex(s)' = StateIndex(s)
    BY StatesStay
  <2>2. StateIndex(target_state_id)' = StateIndex(target_state_id)
    <3>1. StateIndex(target_state_id)' = IndexIn(state_ids', target_state_id')
      BY DEF StateIndex, IndexIn
    <3>2. IndexIn(state_ids', target_state_id) = StateIndex(target_state_id)
      BY <1>1, <2>1, IndexOfState
    <3> QED
      BY <3>1, <3>2
  <2> QED
    BY <1>2, <2>2 DEF ReachedIn
<1> QED
  BY <1>5, <1>6 DEF TurnHeld

(* Every step keeps what a turn is about.                                  *)
LEMMA NextTurnHeld ==
    ASSUME IInv, SeedsMatchMap, [Next]_vars, TurnHeld
    PROVE  TurnHeld'
<1>0. /\ queue_cur \in Queue \cup {NoEntry} /\ Queue \subseteq Entries
      /\ entry \in [Entries -> Entry] /\ cur \in Entries
  BY QueueInEntries DEF IInv, TypeOK, CorpusTypeOK
<1>1. CASE SelectSeed
  BY <1>1, SelectSeedHeld
<1>2. CASE FinishFuzzOne \/ Stop
  BY <1>2 DEF FinishFuzzOne, Stop, TurnHeld
<1>3. CASE \/ ReadTestcase \/ FinishReading \/ DryRun \/ StartFuzzing
  <2>1. phase \notin {"fuzz", "calibrate", "fatal"} \cup Observing /\ queue_cur' = queue_cur
    BY <1>3 DEF ReadTestcase, FinishReading, DryRun, StartFuzzing, Observing
  <2> QED
    BY <2>1 DEF TurnHeld
<1>4. CASE ObserveResponse
  <2>1. /\ phase = "observe" /\ UNCHANGED <<queue_cur, target_state_id>>
        /\ \/ UNCHANGED entry /\ Observed
           \/ /\ \E n : entry' = [entry EXCEPT ![cur].unique_state_count = n]
              /\ phase' \in {"ipsm", "annotate"} /\ UNCHANGED cur
    BY <1>4 DEF ObserveResponse
  <2>2. ASSUME queue_cur # NoEntry
        PROVE  /\ entry'[queue_cur].regions = entry[queue_cur].regions
               /\ entry'[cur].is_initial_seed = entry[cur].is_initial_seed
    BY <1>0, <2>1, <2>2, ZenonT(30) DEF Entry
  <2>3. ASSUME queue_cur # NoEntry PROVE ~entry[cur].is_initial_seed /\ cur # queue_cur
    BY <2>1, <2>3 DEF TurnHeld, Observing
  <2> QED
    BY <2>1, <2>2, <2>3, TurnStays DEF Observed, Observing
<1>5. CASE IpsmStep \/ RegionStep
  <2>1. /\ phase \in Observing /\ phase' \in Observing
        /\ UNCHANGED <<queue_cur, target_state_id, entry, cur>>
    BY <1>5 DEF IpsmStep, RegionStep, Observing
  <2> QED
    BY <2>1, TurnStays DEF TurnHeld
<1>6. CASE AnnotateRegions
  <2>1. /\ phase = "annotate" /\ phase' \in {"regions", "fatal"}
        /\ UNCHANGED <<queue_cur, target_state_id, cur>>
        /\ entry' = [entry EXCEPT ![cur].regions = session.regions]
    BY <1>6 DEF AnnotateRegions
  <2>2. ASSUME queue_cur # NoEntry PROVE ~entry[cur].is_initial_seed /\ cur # queue_cur
    BY <2>1, <2>2 DEF TurnHeld, Observing
  <2>3. ASSUME queue_cur # NoEntry
        PROVE  /\ entry'[queue_cur].regions = entry[queue_cur].regions
               /\ entry'[cur].is_initial_seed = entry[cur].is_initial_seed
    BY <1>0, <2>1, <2>2, <2>3 DEF Entry
  <2> QED
    BY <2>1, <2>2, <2>3, TurnStays DEF Observing
<1>7. CASE FinishRegions
  <2>1. phase = "regions" /\ Observed /\ UNCHANGED <<queue_cur, target_state_id, entry>>
    BY <1>7 DEF FinishRegions, corpusVars
  <2>2. ASSUME queue_cur # NoEntry PROVE ~entry[cur].is_initial_seed /\ cur # queue_cur
    BY <2>1, <2>2 DEF TurnHeld, Observing
  <2> QED
    BY <2>1, <2>2, TurnStays DEF Observed, Observing
<1>8. CASE KeepTestcase
  <2>1. PICK s \in Sessions : AddToQueue(Len(s.regions))
    BY <1>8 DEF KeepTestcase
  <2> DEFINE n == Len(s.regions)
  <2>2. cur' = queued_paths /\ phase' = "observe" /\ UNCHANGED <<queue_cur, target_state_id>>
    BY <1>8 DEF KeepTestcase
  <2>3. n \in Nat /\ AddToQueue(n)
    BY <2>1, SessionTyped, LenProperties
  <2> HIDE DEF n
  <2>4. queued_paths \in Entries /\ entry'[queued_paths].is_initial_seed = FALSE
    BY <2>3, AddToQueueCorrect DEF IInv, TypeOK
  <2>5. ASSUME queue_cur # NoEntry
        PROVE  queue_cur \in Entries /\ queue_cur # queued_paths
    BY <1>0, <2>4, <2>5 DEF Queue, Entries
  <2>6. ASSUME queue_cur # NoEntry
        PROVE  entry'[queue_cur].regions = entry[queue_cur].regions
    BY <1>0, <2>3, <2>5, <2>6 DEF AddToQueue
  <2> QED
    BY <2>2, <2>4, <2>5, <2>6, TurnStays DEF Observing
<1>9. CASE Calibrate
  <2>1. PICK ok \in BOOLEAN : CalibrateCase(cur, entry[cur], session, ok)
    BY <1>9 DEF Calibrate
  <2>2. /\ phase = "calibrate" /\ UNCHANGED <<queue_cur, target_state_id>>
        /\ queue_cur # NoEntry => phase' = "fuzz"
    BY <1>9 DEF Calibrate
  <2>3. ASSUME queue_cur # NoEntry PROVE cur # queue_cur /\ queue_cur \in Entries
    BY <1>0, <2>2, <2>3 DEF TurnHeld
  <2>4. ASSUME queue_cur # NoEntry
        PROVE  entry'[queue_cur].regions = entry[queue_cur].regions
    BY <1>0, <2>1, <2>3, <2>4 DEF CalibrateCase
  <2> QED
    BY <2>2, <2>4, TurnStays DEF Observing
<1>10. CASE Exited \/ UNCHANGED vars
  <2>1. UNCHANGED <<queue_cur, target_state_id, entry, phase, cur>>
    BY <1>10 DEF Exited, vars, corpusVars
  <2> QED
    BY <2>1, TurnStays DEF TurnHeld
<1> QED
  BY <1>1, <1>2, <1>3, <1>4, <1>5, <1>6, <1>7, <1>8, <1>9, <1>10 DEF Next, Progress

(* What the next two theorems rest on beyond the invariant of the loop.    *)
SelectionInv == StatesEntered /\ SeedsMatchMap /\ NoRowBefore /\ TurnHeld

(* Every behaviour keeps the table, the graph, the map and the turn in     *)
(* step.                                                                   *)
LEMMA SelectionInvariance == Spec => []SelectionInv
<1>1. Init => SelectionInv
  <2> SUFFICES ASSUME Init PROVE SelectionInv
    OBVIOUS
  <2>1. StatesEntered
    BY DEF Init, CorpusInit, StatesEntered, Range1
  <2>2. SeedsMatchMap
    BY DEF Init, SeedsMatchMap
  <2>3. NoRowBefore
    BY DEF Init, CorpusInit, NoRowBefore
  <2>4. TurnHeld
    BY DEF Init, TurnHeld
  <2> QED
    BY <2>1, <2>2, <2>3, <2>4 DEF SelectionInv
<1>2. IInv /\ SelectionInv /\ [Next]_vars => SelectionInv'
  <2> SUFFICES ASSUME IInv, SelectionInv, [Next]_vars PROVE SelectionInv'
    OBVIOUS
  <2>1. StatesEntered /\ SeedsMatchMap /\ NoRowBefore /\ TurnHeld
    BY DEF SelectionInv
  <2>2. StatesEntered'
    BY <2>1, NextEntered
  <2>3. SeedsMatchMap' /\ NoRowBefore'
    BY <2>1, NextSeedsMatch DEF TurnHeld
  <2>4. TurnHeld'
    BY <2>1, NextTurnHeld
  <2> QED
    BY <2>2, <2>3, <2>4 DEF SelectionInv
<1> QED
  BY <1>1, <1>2, Invariance, PTL DEF Spec

(* The table of states, state_ids, the graph, the lists of seeds and       *)
(* was_fuzzed_map agree on which states there are and on who reaches them, *)
(* for every set of sessions: also when a region shows a state that the    *)
(* whole response does not, and the graph meets it later.                  *)
THEOREM StatesAreSound == Spec => []StatesSound
<1>1. IInv /\ SelectionInv => StatesSound
  BY DEF SelectionInv, StatesSound
<1> QED
  BY <1>1, Invariance, SelectionInvariance, PTL

(* A turn works on a non-empty M2 of an entry that reaches the target, in  *)
(* a row of was_fuzzed_map that is there; the entry leaves the seeds of    *)
(* the target during its turn only if the target is entered again.         *)
THEOREM TurnsAreMeaningful == Spec => []TurnIsMeaningful
<1>1. IInv /\ SelectionInv => TurnIsMeaningful
  <2> SUFFICES ASSUME IInv, SelectionInv, queue_cur # NoEntry
               PROVE  /\ StateIndex(target_state_id) < fuzzed_map_states
                      /\ was_fuzzed_map[StateIndex(target_state_id)][queue_cur] \in {Reachable, Fuzzed}
                      /\ EnteredOnce(target_state_id) => queue_cur \in Range1(seeds[target_state_id])
                      /\ M2(queue_cur, target_state_id).count > 0
    BY DEF TurnIsMeaningful
  <2>1. target_state_id \in khms_states /\ queue_cur \in Queue
    BY DEF IInv, ControlOK, TypeOK
  <2>2. /\ was_fuzzed_map[StateIndex(target_state_id)][queue_cur] \in {Reachable, Fuzzed}
        /\ M2(queue_cur, target_state_id).count > 0
    BY DEF SelectionInv, TurnHeld, ReachedIn
  <2>3. EnteredOnce(target_state_id) => queue_cur \in Range1(seeds[target_state_id])
    BY <2>1, <2>2 DEF SelectionInv, SeedsMatchMap
  <2>4. StateIndex(target_state_id) < fuzzed_map_states
    BY <2>1, RowOfState
  <2> QED
    BY <2>2, <2>3, <2>4
<1> QED
  BY <1>1, Invariance, SelectionInvariance, PTL

-----------------------------------------------------------------------------
(* The state sequences that went to the IPSM                               *)

(* The key of a sequence has the codes of the sequence: a run is shortened *)
(* to its first two.                                                       *)
LEMMA TrimmedRange ==
    ASSUME NEW seq \in Seq(StateIds)
    PROVE  Range1(Trimmed(seq)) = Range1(seq)
<1> DEFINE kept == {i \in 1 .. Len(seq) :
                       ~(i > 2 /\ seq[i] = seq[i-1] /\ seq[i] = seq[i-2])}
           upto(i) == {j \in kept : j <= i}
           nth(n) == CHOOSE i \in kept : Cardinality(upto(i)) = n
           N == Cardinality(kept)
<1>1. Trimmed(seq) = [n \in 1 .. N |-> seq[nth(n)]]
  BY DEF Trimmed
<1>2. Len(seq) \in Nat /\ kept \subseteq 1 .. Len(seq)
  BY LenProperties
<1>3. IsFiniteSet(kept) /\ N \in Nat
  <2>1. IsFiniteSet(1 .. Len(seq))
    BY <1>2, FS_Interval
  <2> QED
    BY <1>2, <2>1, FS_Subset, FS_CardinalityType
<1>4. \A i \in Nat : IsFiniteSet(upto(i)) /\ Cardinality(upto(i)) \in 0 .. N
  <2>1. \A i \in Nat : upto(i) \subseteq kept
    OBVIOUS
  <2> HIDE DEF upto, kept
  <2>2. \A T \in SUBSET kept : IsFiniteSet(T) /\ Cardinality(T) \in Nat /\ Cardinality(T) <= N
    BY <1>3, FS_Subset, FS_CardinalityType
  <2> QED
    BY <1>3, <2>1, <2>2
<1>5. ASSUME NEW i \in kept PROVE Cardinality(upto(i)) \in 1 .. N
  <2>1. i \in upto(i) /\ i \in Nat
    BY <1>2
  <2>2. upto(i) # {}
    BY <2>1
  <2>3. Cardinality(upto(i)) # 0
    BY <1>4, <2>1, <2>2, FS_EmptySet
  <2> QED
    BY <1>4, <2>1, <2>3
<1>6. ASSUME NEW i \in kept, NEW k \in kept, i < k
      PROVE  Cardinality(upto(i)) < Cardinality(upto(k))
  <2>1. i \in Nat /\ k \in Nat
    BY <1>2
  <2>2. upto(i) \subseteq upto(k) /\ k \in upto(k) /\ k \notin upto(i)
    BY <1>6, <2>1, <1>2
  <2>3. IsFiniteSet(upto(k)) /\ upto(i) # upto(k)
    BY <1>4, <2>1, <2>2
  <2> HIDE DEF upto, kept
  <2>4. Cardinality(upto(i)) <= Cardinality(upto(k))
        /\ Cardinality(upto(i)) # Cardinality(upto(k))
    BY <2>2, <2>3, FS_Subset
  <2> QED
    BY <1>4, <2>1, <2>4
<1>7. ASSUME NEW n \in 1 .. N PROVE \E i \in kept : Cardinality(upto(i)) = n
  <2> DEFINE T == {i \in kept : Cardinality(upto(i)) >= n}
  <2>1. T # {}
    <3>1. upto(Len(seq)) = kept
      BY <1>2
    <3>2. kept # {}
      <4>1. kept = {} => N = 0
        BY FS_EmptySet
      <4> QED
        BY <4>1
    <3>3. PICK top \in kept : \A j \in kept : j <= top
      <4>1. kept \subseteq Int /\ \A j \in kept : j <= Len(seq)
        BY <1>2
      <4> DEFINE gaps == {Len(seq) - j : j \in kept}
      <4>2. gaps \in SUBSET Nat /\ gaps # {}
        <5>1. \A j \in kept : Len(seq) - j \in Nat
          BY <1>2
        <5> HIDE DEF kept
        <5> QED
          BY <3>2, <5>1
      <4>3. PICK m \in gaps : \A k \in gaps : m <= k
        BY <4>2, LeastElement
      <4>4. PICK top \in kept : m = Len(seq) - top
        OBVIOUS
      <4>5. \A j \in kept : m <= Len(seq) - j
        BY <4>3
      <4>6. \A j \in kept : j \in Int
        BY <1>2
      <4> HIDE DEF kept, gaps
      <4>7. \A j \in kept : j <= top
        BY <1>2, <4>4, <4>5, <4>6
      <4> QED
        BY <4>7
    <3>4. upto(top) = kept
      BY <3>3
    <3> HIDE DEF upto, kept
    <3> QED
      BY <1>3, <3>4
  <2>2. T \in SUBSET Nat
    BY <1>2
  <2>3. PICK i \in T : \A k \in T : i <= k
    BY <2>1, <2>2, LeastElement
  <2>4. i \in kept /\ i \in Nat /\ Cardinality(upto(i)) >= n
    BY <2>2, <2>3
  <2>5. Cardinality(upto(i)) <= n
    <3> DEFINE below == {j \in kept : j < i}
    <3>1. upto(i) = below \cup {i} /\ i \notin below
      BY <1>2, <2>4
    <3>2. IsFiniteSet(below)
      <4>1. below \subseteq kept
        OBVIOUS
      <4> QED
        BY <1>3, <4>1, FS_Subset
    <3>3. Cardinality(below) \in Nat /\ Cardinality(upto(i)) = Cardinality(below) + 1
      <4> HIDE DEF below
      <4> QED
        BY <3>1, <3>2, FS_CardinalityType, FS_AddElement
    <3>4. Cardinality(below) < n
      <4>1. CASE below = {}
        <5>1. Cardinality(below) = 0
          BY <4>1, FS_EmptySet
        <5> HIDE DEF below, upto, kept
        <5> QED
          BY <1>3, <5>1
      <4>2. CASE below # {}
        <5> DEFINE gaps == {i - j : j \in below}
        <5>1. \A j \in below : j \in Int /\ i - j \in Nat /\ j < i /\ j \in kept
          BY <1>2, <2>4
        <5>2. gaps \in SUBSET Nat /\ gaps # {}
          <6> HIDE DEF below
          <6> QED
            BY <4>2, <5>1
        <5>3. PICK m \in gaps : \A k \in gaps : m <= k
          BY <5>2, LeastElement
        <5>4. PICK top \in below : m = i - top
          OBVIOUS
        <5>5. \A j \in below : m <= i - j
          BY <5>3
        <5>6. \A j \in below : j <= top
          <6> HIDE DEF below, gaps, kept
          <6> QED
            BY <2>4, <5>1, <5>4, <5>5
        <5>7. upto(top) = below
          <6>1. \A j \in kept : j \in Int /\ (j < i <=> j \in below)
            BY <1>2
          <6>2. \A j \in kept : j <= top <=> j \in below
            <7> HIDE DEF below, kept
            <7> QED
              BY <2>4, <5>1, <5>6, <6>1
          <6> QED
            BY <6>2
        <5>8. top \notin T
          BY <2>3, <2>4, <5>1
        <5>9. top \in kept /\ top \in Nat
          BY <1>2
        <5>10. Cardinality(upto(top)) \in Nat
          <6> HIDE DEF upto, kept
          <6> QED
            BY <1>3, <1>4, <5>9
        <5>11. ~(Cardinality(upto(top)) >= n)
          <6> HIDE DEF upto, kept
          <6> QED
            BY <5>8, <5>9
        <5> HIDE DEF upto, kept, below
        <5> QED
          BY <5>7, <5>10, <5>11
      <4> QED
        BY <4>1, <4>2
    <3> HIDE DEF below, upto, kept
    <3> QED
      BY <3>3, <3>4
  <2> HIDE DEF upto, kept
  <2>6. Cardinality(upto(i)) \in Nat
    BY <1>3, <1>4, <2>4
  <2> QED
    BY <2>4, <2>5, <2>6
<1>8. \A n \in 1 .. N : nth(n) \in kept /\ Cardinality(upto(nth(n))) = n
  <2> HIDE DEF upto, kept
  <2> QED
    BY <1>7
<1>9. ASSUME NEW i \in kept PROVE nth(Cardinality(upto(i))) = i
  <2> DEFINE n == Cardinality(upto(i))
             k == nth(n)
  <2>1. n \in 1 .. N
    BY <1>5
  <2>2. k \in kept /\ Cardinality(upto(k)) = n
    BY <1>8, <2>1
  <2>3. i \in Nat /\ k \in Nat
    BY <1>2, <2>2
  <2>4. ~(i < k) /\ ~(k < i)
    <3>1. n = Cardinality(upto(i))
      OBVIOUS
    <3> HIDE DEF k, kept, upto, n
    <3>2. Cardinality(upto(i)) \in Int
      BY <2>1, <3>1, <1>3
    <3> QED
      BY <1>6, <2>2, <3>1, <3>2
  <2> HIDE DEF k, kept
  <2> QED
    BY <2>3, <2>4 DEF k
<1>10. \A n \in 1 .. N : seq[nth(n)] \in Range1(seq)
  BY <1>2, <1>8 DEF Range1
<1>11. ASSUME NEW c \in Range1(seq) PROVE \E i \in kept : seq[i] = c
  <2> DEFINE at == {i \in 1 .. Len(seq) : seq[i] = c}
  <2>1. at \in SUBSET Nat /\ at # {}
    BY DEF Range1
  <2>2. PICK i \in at : \A j \in at : i <= j
    BY <2>1, LeastElement
  <2>3. i \in kept
    <3>1. i \in 1 .. Len(seq) /\ seq[i] = c
      BY <2>2
    <3>2. i > 2 => i - 1 \in 1 .. Len(seq) /\ ~(i <= i - 1)
      BY <1>2, <3>1
    <3>3. i > 2 => seq[i - 1] # c
      BY <2>2, <3>2
    <3> QED
      BY <3>1, <3>3
  <2> QED
    BY <2>2, <2>3
<1>12. Range1(Trimmed(seq)) = {seq[nth(n)] : n \in 1 .. N}
  <2> DEFINE F == [n \in 1 .. N |-> seq[nth(n)]]
  <2>1. F \in Seq(StateIds) /\ Len(F) = N
    <3>1. \A n \in 1 .. N : seq[nth(n)] \in StateIds
      BY <1>2, <1>8, ElementOfSeq
    <3> HIDE DEF nth, N
    <3>2. F \in [1 .. N -> StateIds]
      BY <3>1
    <3> HIDE DEF F
    <3> QED
      BY <1>3, <3>2, LenProperties
  <2>2. \A n \in 1 .. N : F[n] = seq[nth(n)]
    OBVIOUS
  <2> HIDE DEF F, N, nth
  <2>3. Range1(F) = {seq[nth(n)] : n \in 1 .. N}
    BY <2>1, <2>2 DEF Range1
  <2> QED
    BY <1>1, <2>3 DEF F
<1>13. \A i \in kept : seq[i] \in {seq[nth(n)] : n \in 1 .. N}
  <2> HIDE DEF nth, N, kept, upto
  <2> QED
    BY <1>5, <1>9
<1> HIDE DEF nth, N, kept
<1> QED
  BY <1>10, <1>11, <1>12, <1>13

(* What the table, the IPSM and the keys of khs_ipsm_paths know of the     *)
(* response that is being observed.                                        *)
KnownStates ==
    /\ khms_states = ipsm
    /\ phase = "ipsm" => \A i \in 1 .. pos - 1 : session.codes[i] \in ipsm
    /\ phase \in {"annotate", "regions"} => Range1(session.codes) \subseteq ipsm \cup {0}
    /\ \A key \in khs_ipsm_paths : \A c \in Range1(key) :
          c \in ipsm \cup {0} \/ (phase = "ipsm" /\ c \in Range1(session.codes))
    /\ phase = "regions" => entry[cur].regions = session.regions

(* A response that is empty, of one code or of a sequence seen before      *)
(* has no state the IPSM does not know.                                    *)
LEMMA ObserveResponseKnown ==
    ASSUME IInv, KnownStates, ObserveResponse
    PROVE  KnownStates'
<1>1. /\ phase = "observe"
      /\ UNCHANGED <<state_ids, khms_states, ipsm>>
  BY DEF ObserveResponse, tableVars
<1>2. session.codes \in Seq(StateIds) /\ (session.codes # <<>> => session.codes[1] = 0)
  BY SessionTyped DEF IInv, TypeOK
<1>3. CASE session.codes = <<>>
  <2>1. UNCHANGED khs_ipsm_paths /\ phase' \in {"dry_run", "start", "calibrate"}
    BY <1>3 DEF ObserveResponse, Observed
  <2> QED
    BY <1>1, <2>1 DEF KnownStates
<1>4. CASE session.codes # <<>>
  <2> DEFINE key == Trimmed(session.codes)
  <2>1. /\ khs_ipsm_paths' = khs_ipsm_paths \cup {key} /\ UNCHANGED session /\ pos' = FirstCode
        /\ phase' = IF key \notin khs_ipsm_paths /\ Len(session.codes) > 1 THEN "ipsm" ELSE "annotate"
    BY <1>4 DEF ObserveResponse
  <2>2. Range1(key) = Range1(session.codes)
    BY <1>2, TrimmedRange
  <2> HIDE DEF key
  <2>3. CASE phase' = "ipsm"
    <3>1. \A i \in 1 .. pos' - 1 : FALSE
      BY <2>1 DEF FirstCode
    <3>2. \A k \in khs_ipsm_paths' : \A c \in Range1(k) :
             c \in ipsm \cup {0} \/ c \in Range1(session.codes)
      BY <1>1, <2>1, <2>2 DEF KnownStates
    <3> QED
      BY <1>1, <2>1, <2>3, <3>1, <3>2 DEF KnownStates
  <2>4. CASE phase' = "annotate"
    <3>1. \A k \in khs_ipsm_paths : Range1(k) \subseteq ipsm \cup {0}
      BY <1>1 DEF KnownStates
    <3>2. Range1(session.codes) \subseteq ipsm \cup {0}
      <4>1. CASE key \in khs_ipsm_paths
        BY <2>2, <3>1, <4>1
      <4>2. CASE ~(Len(session.codes) > 1)
        <5>1. Len(session.codes) \in Nat
          BY <1>2, LenProperties
        <5>2. \A i \in 1 .. Len(session.codes) : session.codes[i] = 0
          BY <1>2, <1>4, <4>2, <5>1
        <5> QED
          BY <5>2 DEF Range1
      <4> QED
        BY <2>1, <2>4, <4>1, <4>2
    <3>3. \A k \in khs_ipsm_paths' : Range1(k) \subseteq ipsm \cup {0}
      BY <2>1, <2>2, <3>1, <3>2
    <3> QED
      BY <1>1, <2>1, <2>4, <3>2, <3>3 DEF KnownStates
  <2> QED
    BY <2>1, <2>3, <2>4
<1> QED
  BY <1>3, <1>4

(* The IPSM learns the codes one by one; a node that is new becomes a new  *)
(* state of the table.                                                     *)
LEMMA IpsmStepKnown ==
    ASSUME IInv, KnownStates, IpsmStep
    PROVE  KnownStates'
<1> DEFINE id == session.codes[pos]
<1>1. /\ phase = "ipsm" /\ UNCHANGED <<session, khs_ipsm_paths>>
      /\ pos' = IF pos = Len(session.codes) THEN 1 ELSE pos + 1
      /\ phase' = IF pos = Len(session.codes) THEN "annotate" ELSE "ipsm"
  BY DEF IpsmStep
<1>2. session.codes \in Seq(StateIds) /\ Len(session.codes) \in Nat /\ pos \in 1 .. Len(session.codes)
  BY <1>1, SessionTyped, LenProperties DEF IInv, TypeOK, ControlOK
<1>3. ipsm' = ipsm \cup {id} /\ khms_states' = ipsm'
  BY DEF IpsmStep, DiscoverState, tableVars, IsNode, KnownStates
<1>4. \A i \in 1 .. pos : session.codes[i] \in ipsm'
  <2>1. \A i \in 1 .. pos : i \in 1 .. pos - 1 \/ i = pos
    BY <1>2
  <2>2. \A i \in 1 .. pos - 1 : session.codes[i] \in ipsm
    BY <1>1 DEF KnownStates
  <2> QED
    BY <1>3, <2>1, <2>2
<1> HIDE DEF id
<1>5. \A key \in khs_ipsm_paths : \A c \in Range1(key) :
         c \in ipsm' \cup {0} \/ c \in Range1(session.codes)
  BY <1>1, <1>3 DEF KnownStates
<1>6. CASE pos = Len(session.codes)
  <2>1. Range1(session.codes) \subseteq ipsm'
    BY <1>4, <1>6 DEF Range1
  <2> QED
    BY <1>1, <1>3, <1>5, <1>6, <2>1 DEF KnownStates
<1>7. CASE pos # Len(session.codes)
  <2>1. phase' = "ipsm" /\ pos' - 1 = pos
    BY <1>1, <1>2, <1>7
  <2> QED
    BY <1>1, <1>3, <1>4, <1>5, <2>1 DEF KnownStates
<1> QED
  BY <1>6, <1>7

(* The last state a region reaches is one the table has.                   *)
LEMMA RegionKnown ==
    ASSUME AnnotationsInResponse, IInv, KnownStates, RegionStep,
           entry[cur].regions[pos].state_count # 0
    PROVE  entry[cur].regions[pos].last \in khms_states
<1> DEFINE n == Len(session.regions)
           region == session.regions[pos]
<1>1. /\ phase = "regions" /\ entry[cur].regions = session.regions /\ pos <= n
      /\ state_ids # <<>> /\ pos \in Nat /\ pos >= 1
  BY DEF RegionStep, KnownStates, IInv, ControlOK, TypeOK
<1>2. session.regions \in Seq(Region) /\ n \in Nat /\ session.codes \in Seq(StateIds)
  BY SessionTyped, LenProperties DEF IInv, TypeOK
<1>3. pos \in 1 .. n
  BY <1>1, <1>2
<1>4. session \in Sessions
  <2>1. NoSession.regions = <<>>
    BY DEF NoSession
  <2>2. session # NoSession
    BY <1>3, <2>1, EmptySeq
  <2> QED
    BY <2>2 DEF IInv, TypeOK
<1>5. region.state_count > 0
  <2>1. region \in Region
    BY <1>2, <1>3, ElementOfSeq
  <2>2. region.state_count \in Nat
    BY <2>1 DEF Region
  <2> QED
    BY <1>1, <2>2
<1>6. \E k \in 1 .. Len(session.codes) : session.codes[k] = region.last
  BY <1>3, <1>4, <1>5 DEF AnnotationsInResponse
<1>7. region.last \in Range1(session.codes)
  BY <1>6 DEF Range1
<1>8. region.last \in ipsm \cup {0}
  BY <1>1, <1>7 DEF KnownStates
<1>9. 0 \in khms_states
  BY <1>1 DEF IInv, TableOK, InitialStateFirst
<1> QED
  BY <1>1, <1>8, <1>9 DEF KnownStates

(* Every step keeps what is known of the response.                         *)
LEMMA NextKnown ==
    ASSUME AnnotationsInResponse, IInv, KnownStates, [Next]_vars
    PROVE  KnownStates'
<1>1. CASE ObserveResponse
  BY <1>1, ObserveResponseKnown
<1>2. CASE IpsmStep
  BY <1>2, IpsmStepKnown
<1>3. CASE AnnotateRegions
  <2>1. /\ phase = "annotate" /\ phase' \in {"regions", "fatal"}
        /\ UNCHANGED <<state_ids, khms_states, ipsm, khs_ipsm_paths, session, cur>>
        /\ entry' = [entry EXCEPT ![cur].regions = session.regions]
    BY <1>3 DEF AnnotateRegions, ipsmVars
  <2>2. entry'[cur].regions = session.regions
    BY <2>1 DEF IInv, TypeOK, CorpusTypeOK, Entry
  <2> QED
    BY <2>1, <2>2 DEF KnownStates
<1>4. CASE RegionStep
  <2>1. UNCHANGED <<state_ids, khms_states>>
    <3>1. CASE entry[cur].regions[pos].state_count = 0
      BY <1>4, <3>1 DEF RegionStep, tableVars
    <3>2. CASE entry[cur].regions[pos].state_count # 0
      BY <1>4, <3>2, RegionKnown DEF RegionStep
    <3> QED
      BY <3>1, <3>2
  <2>2. phase = "regions" /\ UNCHANGED <<ipsm, khs_ipsm_paths, session, phase, entry, cur>>
    BY <1>4 DEF RegionStep, ipsmVars
  <2> QED
    BY <2>1, <2>2 DEF KnownStates
<1>5. CASE \/ ReadTestcase \/ FinishReading \/ DryRun \/ FinishRegions \/ StartFuzzing \/ SelectSeed
           \/ KeepTestcase \/ Calibrate \/ FinishFuzzOne \/ Stop
  <2>1. /\ phase # "ipsm" /\ phase' \notin {"ipsm", "annotate", "regions"}
        /\ UNCHANGED <<state_ids, khms_states, ipsm, khs_ipsm_paths>>
    BY <1>5 DEF ReadTestcase, FinishReading, DryRun, FinishRegions, Observed, StartFuzzing,
       SelectSeed, KeepTestcase, Calibrate, FinishFuzzOne, Stop, tableVars, ipsmVars, corpusVars
  <2> QED
    BY <2>1 DEF KnownStates
<1>6. CASE Exited \/ UNCHANGED vars
  <2>1. UNCHANGED <<state_ids, khms_states, ipsm, khs_ipsm_paths, session, phase, pos, entry, cur>>
    BY <1>6 DEF Exited, vars, corpusVars, tableVars, ipsmVars
  <2> QED
    BY <2>1 DEF KnownStates
<1> QED
  BY <1>1, <1>2, <1>3, <1>4, <1>5, <1>6 DEF Next, Progress


(* An entry stays a seed of the states it is a seed of.                    *)
LEMMA SeedsStay ==
    ASSUME IInv, KnownStates, AnnotationsInResponse, [Next]_vars
    PROVE  \A s \in khms_states : Range1(seeds[s]) \subseteq Range1(seeds'[s])
<1>1. seeds \in [StateIds -> Seq(Queue)] /\ khms_states \subseteq StateIds
  BY DEF IInv, TypeOK
<1>2. ASSUME NEW list \in Seq(Queue), NEW x \in Queue
      PROVE  Range1(list) \subseteq Range1(Append(list, x))
  <2>1. /\ Len(Append(list, x)) = Len(list) + 1 /\ Len(list) \in Nat
        /\ \A i \in 1 .. Len(list) : Append(list, x)[i] = list[i]
    BY AppendProperties, LenProperties
  <2>2. \A i \in 1 .. Len(list) : i \in 1 .. Len(Append(list, x))
    BY <2>1
  <2> QED
    BY <2>1, <2>2 DEF Range1
<1>3. ASSUME NEW id \in khms_states, cur \in Queue, seeds' = [seeds EXCEPT ![id] = Append(@, cur)]
      PROVE  \A s \in khms_states : Range1(seeds[s]) \subseteq Range1(seeds'[s])
  <2>1. \A s \in khms_states : seeds'[s] = seeds[s] \/ seeds'[s] = Append(seeds[s], cur)
    BY <1>1, <1>3
  <2>2. \A s \in khms_states : seeds[s] \in Seq(Queue)
    BY <1>1
  <2> QED
    BY <1>2, <1>3, <2>1, <2>2
<1>4. CASE IpsmStep
  <2> DEFINE id == session.codes[pos]
  <2>1. CASE IsNode(id)
    BY <1>4, <2>1 DEF IpsmStep, tableVars
  <2>2. CASE ~IsNode(id)
    <3>1. id \notin khms_states /\ seeds' = [seeds EXCEPT ![id] = <<>>]
      BY <1>4, <2>2 DEF IpsmStep, DiscoverState, IsNode, KnownStates
    <3> HIDE DEF id
    <3> QED
      BY <1>1, <3>1
  <2> QED
    BY <2>1, <2>2
<1>5. CASE AnnotateRegions
  <2>1. cur \in Queue
    BY <1>5 DEF AnnotateRegions, IInv, ControlOK, Observing
  <2>2. seeds' = seeds \/ (0 \in khms_states /\ seeds' = [seeds EXCEPT ![0] = Append(@, cur)])
    BY <1>5 DEF AnnotateRegions
  <2> QED
    BY <1>3, <2>1, <2>2
<1>6. CASE RegionStep
  <2> DEFINE id == entry[cur].regions[pos].last
  <2>1. cur \in Queue
    BY <1>6 DEF RegionStep, IInv, ControlOK, Observing
  <2>2. seeds' = seeds \/ (id \in khms_states /\ seeds' = [seeds EXCEPT ![id] = Append(@, cur)])
    <3>1. CASE entry[cur].regions[pos].state_count = 0
      BY <1>6, <3>1 DEF RegionStep, tableVars
    <3>2. CASE entry[cur].regions[pos].state_count # 0
      BY <1>6, <3>2, RegionKnown DEF RegionStep
    <3> QED
      BY <3>1, <3>2
  <2> HIDE DEF id
  <2> QED
    BY <1>3, <2>1, <2>2
<1>7. CASE \/ ReadTestcase \/ FinishReading \/ DryRun \/ ObserveResponse \/ FinishRegions
           \/ StartFuzzing \/ SelectSeed \/ KeepTestcase \/ Calibrate \/ FinishFuzzOne \/ Stop
           \/ Exited \/ UNCHANGED vars
  <2>1. UNCHANGED seeds
    BY <1>7 DEF ReadTestcase, FinishReading, DryRun, ObserveResponse, FinishRegions, StartFuzzing,
       SelectSeed, KeepTestcase, Calibrate, FinishFuzzOne, Stop, Exited, vars, tableVars
  <2> QED
    BY <2>1
<1> QED
  BY <1>4, <1>5, <1>6, <1>7 DEF Next, Progress

(* When the annotation of a region always names a state of the response,   *)
(* an entry stays a seed of every state it is a seed of: it is only the    *)
(* states that a region brought which lose their lists.                    *)
THEOREM SeedsAreKept ==
    ASSUME AnnotationsInResponse
    PROVE  Spec => SeedsKept
<1>1. Init => KnownStates
  BY DEF Init, CorpusInit, KnownStates
<1>2. IInv /\ KnownStates /\ [Next]_vars => KnownStates'
  BY NextKnown
<1>3. IInv /\ KnownStates /\ [Next]_vars =>
         [\A s \in khms_states : Range1(seeds[s]) \subseteq Range1(seeds'[s])]_vars
  BY SeedsStay
<1> QED
  BY <1>1, <1>2, <1>3, Invariance, PTL DEF Spec, SeedsKept
=============================================================================
