---------------------------- MODULE Tools_proofs -----------------------------
(***************************************************************************)
(* Theorems about the programs and parts of Tools, for every value of      *)
(* their constants.  Each has an inductive invariant of its own over the   *)
(* shared variables; since no program touches the variables of another,    *)
(* only the steps of the one that runs have to be looked at.               *)
(***************************************************************************)
EXTENDS Tools, FiniteSets, FiniteSetTheorems, SequenceTheorems, WellFoundedInduction, TLAPS

-----------------------------------------------------------------------------
(* Whatever runs goes on running, and only its own steps are taken.        *)

LEMMA Steps ==
    ASSUME [Next]_vars
    PROVE  /\ running' = running
           /\ running = "tmin" => Minimizer!Next \/ UNCHANGED vars
           /\ running = "run" => ToolRun!Next \/ UNCHANGED vars
           /\ running = "analyze" => Analyzer!Next \/ UNCHANGED vars
           /\ running = "dislocator" => Dislocator!Next \/ UNCHANGED vars
           /\ running = "alloc" => AllocInl!Next \/ UNCHANGED vars
           /\ running = "as" => Assembler!Next \/ UNCHANGED vars
           /\ running = "cc" => Toolchain!Next \/ UNCHANGED vars
           /\ running = "start" => Startup!Next \/ UNCHANGED vars
           /\ running = "target" => TargetStart!Next \/ UNCHANGED vars
           /\ running = "net" => Network!Next \/ UNCHANGED vars
           /\ running = "loop" => ClassicLoop!Next \/ UNCHANGED vars
           /\ running = "scores" => Scores!Next \/ UNCHANGED vars
<1>1. UNCHANGED vars => running' = running
  BY DEF vars
<1>2. Next => running' = running
  BY DEF Next, Minimize, StopMinimizing, RunStep, RunTargetEnds, RunTimeout, RunStopSig,
         AnalyzerStep, DislocatorStep, AllocInlStep, AssemblerStep, ToolchainStep, StartupStep,
         TargetStartStep, NetworkStep, ClassicLoopStep, ScoresStep, MinimizerOthers, ToolRunOthers,
         AnalyzerOthers, DislocatorOthers, AllocInlOthers, AssemblerOthers, ToolchainOthers,
         StartupOthers, TargetStartOthers, NetworkOthers, ClassicLoopOthers, ScoresOthers
<1> QED
  BY <1>1, <1>2 DEF Next, Minimize, StopMinimizing, RunStep, RunTargetEnds, RunTimeout, RunStopSig,
         AnalyzerStep, DislocatorStep, AllocInlStep, AssemblerStep, ToolchainStep, StartupStep,
         TargetStartStep, NetworkStep, ClassicLoopStep, ScoresStep, Minimizer!Next, ToolRun!Next

-----------------------------------------------------------------------------
(* The classic loop                                                        *)

LoopPlaces == {"start", "ready", "head", "fuzz", "skipped", "fuzzed", "ended"}

LoopTypes ==
    /\ queued_paths \in Nat \ {0} /\ queue_cycle \in Nat /\ current_entry \in Nat
    /\ seek_to \in Nat /\ queue_cur \in Nat \cup {-1} /\ cur_path \in Int
    /\ sync_interval_cnt \in Nat /\ fuzzed_since \in Nat
    /\ sync_id \in BOOLEAN /\ stop_soon \in BOOLEAN /\ place \in LoopPlaces

\* The entry and its index go together, and what was visited lies before them.
Walk ==
    /\ seek_to < queued_paths
    /\ queue_cur # -1 => queue_cur = current_entry /\ queue_cur < queued_paths
    /\ place \in {"fuzz", "skipped", "fuzzed"} => queue_cur # -1
    /\ place = "fuzz" \/ (place = "head" /\ queue_cur # -1) => visited = 0 .. queue_cur - 1
    /\ place \in {"skipped", "fuzzed"} => visited = 0 .. queue_cur
    /\ place = "head" /\ queue_cur = -1 /\ queue_cycle > 0 => visited = 0 .. queued_paths - 1

\* How many entries can have been fuzzed since the import, by the counter that is not reset.
Due == IF sync_interval_cnt = 0 THEN 0 ELSE (sync_interval_cnt - 1) % SYNC_INTERVAL

Counted ==
    sync_id /\ ~stop_soon =>
      IF place = "fuzzed" THEN fuzzed_since <= Due + 1 ELSE fuzzed_since <= Due

\* What fuzzer_stats says of a session that has begun is where it was.
Shown ==
    /\ place \in {"start", "ready"} => queue_cycle = 0 /\ queue_cur = -1
    /\ queue_cycle > 0 =>
         /\ cur_path \in 0 .. queued_paths - 1
         /\ queue_cycle = 1 => cur_path \in visited \cup {queue_cur}
         /\ place = "ended" => cur_path = queue_cur

LoopInv == running = "loop" => LoopTypes /\ Walk /\ Counted /\ Shown

(* The loop begins in order.                                               *)
LEMMA LoopInit == Init => LoopInv
<1> SUFFICES ASSUME Init, running = "loop" PROVE LoopTypes /\ Walk /\ Counted /\ Shown
  BY DEF LoopInv
<1>1. ClassicLoop!Init
  BY DEF Init
<1>2. stop_soon \in BOOLEAN
  BY <1>1, Zenon DEF ClassicLoop!Init
<1>3. LoopTypes
  BY <1>1, <1>2 DEF ClassicLoop!Init, ClassicLoop!NULL, LoopTypes, LoopPlaces
<1>4. Walk
  BY <1>1 DEF ClassicLoop!Init, ClassicLoop!NULL, Walk
<1>5. Counted
  BY <1>1 DEF ClassicLoop!Init, Counted, Due
<1>6. Shown
  BY <1>1 DEF ClassicLoop!Init, ClassicLoop!NULL, Shown
<1> QED
  BY <1>3, <1>4, <1>5, <1>6

(* The remainder of a count that is no multiple is one more than that of   *)
(* the count before.                                                       *)
LEMMA NextRemainder ==
    ASSUME NEW c \in Nat, NEW s \in Nat \ {0}, c # 0, c % s # 0
    PROVE  ((c - 1) % s) + 1 = c % s
<1>1. PICK q \in Int, r \in 0 .. s - 1 : c = s * q + r /\ r = c % s
  OBVIOUS
<1>2. PICK p \in Int, o \in 0 .. s - 1 : c - 1 = s * p + o /\ o = (c - 1) % s
  OBVIOUS
<1>3. \A x, y \in Int : x > y => s * x >= s * y + s
  OBVIOUS
<1>4. q = p
  <2>1. (q > p => s * q >= s * p + s) /\ (p > q => s * p >= s * q + s)
    BY <1>3
  <2> DEFINE sq == s * q
             sp == s * p
  <2>2. sq \in Int /\ sp \in Int
    OBVIOUS
  <2>3. c = sq + r /\ c - 1 = sp + o /\ (q > p => sq >= sp + s) /\ (p > q => sp >= sq + s)
    BY <1>1, <1>2, <2>1
  <2> HIDE DEF sq, sp
  <2> QED
    BY <1>1, <2>2, <2>3
<1> QED
  BY <1>1, <1>2, <1>4

(* Every step of the loop keeps the places, the counts of visits and the   *)
(* imports in order.                                                       *)
LEMMA LoopSteps ==
    ASSUME running = "loop", LoopTypes, Walk, Counted, Shown, ClassicLoop!Next
    PROVE  LoopTypes' /\ Walk' /\ Counted' /\ Shown'
<1> USE LoopAssumption DEF ClassicLoop!NULL, LoopPlaces
<1>1. CASE ClassicLoop!NextCycle
  <2> USE <1>1 DEF ClassicLoop!NextCycle, ClassicLoop!EntryAtStart
  <2>1. LoopTypes'
    BY DEF LoopTypes, ClassicLoop!SyncFuzzers, ClassicLoop!Grow
  <2>2. Walk'
    BY DEF Walk, LoopTypes, ClassicLoop!SyncFuzzers, ClassicLoop!Grow
  <2>3. Counted'
    <3>1. Due' = Due
      BY DEF Due
    <3>2. Due \in Nat
      BY DEF Due, LoopTypes
    <3>3. fuzzed_since' = fuzzed_since \/ fuzzed_since' = 0
      BY DEF ClassicLoop!SyncFuzzers
    <3>4. sync_id' = sync_id /\ stop_soon' = stop_soon
      OBVIOUS
    <3> HIDE DEF ClassicLoop!NextCycle
    <3> QED
      BY <3>1, <3>2, <3>3, <3>4 DEF Counted, LoopTypes, ClassicLoop!NextCycle
  <2>4. Shown'
    BY DEF Shown, Walk, LoopTypes, ClassicLoop!SyncFuzzers, ClassicLoop!Grow
  <2> QED BY <2>1, <2>2, <2>3, <2>4
<1>2. CASE ClassicLoop!Head
  <2> USE <1>2 DEF ClassicLoop!Head, ClassicLoop!cycle, ClassicLoop!position, ClassicLoop!sync
  <2>1. LoopTypes'
    BY DEF LoopTypes
  <2>2. Walk'
    BY DEF Walk, LoopTypes
  <2>3. Counted'
    BY DEF Counted, Due, LoopTypes
  <2>4. Shown'
    BY DEF Shown, Walk, LoopTypes
  <2> QED BY <2>1, <2>2, <2>3, <2>4
<1>3. CASE ClassicLoop!FuzzOne
  <2> USE <1>3 DEF ClassicLoop!FuzzOne, ClassicLoop!MayShow, ClassicLoop!cycle, ClassicLoop!Grow
  <2>1. LoopTypes'
    BY DEF LoopTypes
  <2>2. Walk'
    BY DEF Walk, LoopTypes
  <2>3. Counted'
    BY DEF Counted, Due, LoopTypes
  <2>4. Shown'
    BY DEF Shown, Walk, LoopTypes, ClassicLoop!MayShow
  <2> QED BY <2>1, <2>2, <2>3, <2>4
<1>4. CASE ClassicLoop!Advance
  <2> USE <1>4 DEF ClassicLoop!Advance
  <2>1. queued_paths' \in Nat \ {0} /\ queued_paths <= queued_paths' /\ fuzzed_since' \in Nat
    BY DEF LoopTypes, ClassicLoop!SyncFuzzers, ClassicLoop!Grow
  <2>2. LoopTypes'
    BY <2>1 DEF LoopTypes, ClassicLoop!cycle, ClassicLoop!MayShow
  <2>3. Walk'
    BY <2>1, <2>2 DEF Walk, LoopTypes, ClassicLoop!cycle
  <2>4. Counted'
    <3> SUFFICES ASSUME sync_id, ~stop_soon
                 PROVE  fuzzed_since' <= Due' /\ place' = "head"
      BY DEF Counted, ClassicLoop!cycle
    <3>1. CASE place = "skipped"
      BY <3>1 DEF ClassicLoop!CountsEntry, Counted, Due
    <3>2. CASE place = "fuzzed" /\ sync_interval_cnt % SYNC_INTERVAL = 0
      <4>0. ClassicLoop!CountsEntry
        BY <3>2 DEF ClassicLoop!CountsEntry
      <4>1. sync_interval_cnt' = sync_interval_cnt + 1 /\ ClassicLoop!SyncFuzzers
        BY ONLY <3>2, <4>0, <1>4 DEF ClassicLoop!Advance
      <4>2. fuzzed_since' = 0
        BY ONLY <4>1 DEF ClassicLoop!SyncFuzzers
      <4>3. Due' \in Nat
        <5>1. sync_interval_cnt' \in Nat
          BY <2>2 DEF LoopTypes
        <5>2. \A c \in Nat : c # 0 => (c - 1) % SYNC_INTERVAL \in Nat
          BY ONLY LoopAssumption
        <5> QED
          BY ONLY <5>1, <5>2 DEF Due
      <4> QED
        BY <3>2, <4>1, <4>2, <4>3 DEF LoopTypes
    <3>3. CASE place = "fuzzed" /\ sync_interval_cnt % SYNC_INTERVAL # 0
      <4>1. fuzzed_since' = fuzzed_since /\ sync_interval_cnt' = sync_interval_cnt + 1
        BY <3>3 DEF ClassicLoop!CountsEntry
      <4>2. fuzzed_since <= Due + 1
        BY <3>3 DEF Counted
      <4>3. sync_interval_cnt # 0 /\ sync_interval_cnt \in Nat
        BY <3>3 DEF LoopTypes
      <4>4. Due' = sync_interval_cnt % SYNC_INTERVAL
        BY <4>1, <4>3 DEF Due
      <4>5. Due = (sync_interval_cnt - 1) % SYNC_INTERVAL
        BY <4>3 DEF Due
      <4>6. ((sync_interval_cnt - 1) % SYNC_INTERVAL) + 1 = sync_interval_cnt % SYNC_INTERVAL
        BY <3>3, <4>3, NextRemainder
      <4> QED
        BY <3>3, <4>1, <4>2, <4>4, <4>5, <4>6
    <3> QED
      BY <3>1, <3>2, <3>3
  <2>5. Shown'
    <3>1. /\ queue_cycle' = queue_cycle /\ visited' = visited /\ visited = 0 .. queue_cur
          /\ current_entry = queue_cur /\ queue_cur \in 0 .. queued_paths - 1
      BY DEF Walk, LoopTypes, ClassicLoop!cycle
    <3>2. place' \in {"head", "ended"} /\ cur_path' \in {cur_path, current_entry}
      BY DEF ClassicLoop!MayShow
    <3>3. place' = "ended" => cur_path' = current_entry /\ queue_cur' = queue_cur
      OBVIOUS
    <3>4. queue_cycle \in Nat /\ queued_paths \in Nat /\ queued_paths' \in Nat
      BY <2>1 DEF LoopTypes
    <3> HIDE <1>4 DEF ClassicLoop!Advance
    <3> QED
      BY <2>1, <3>1, <3>2, <3>3, <3>4 DEF Shown
  <2> QED BY <2>2, <2>3, <2>4, <2>5
<1>5. CASE ClassicLoop!Stop
  <2> USE <1>5 DEF ClassicLoop!Stop, ClassicLoop!cycle, ClassicLoop!position, ClassicLoop!sync, ClassicLoop!queue
  <2>1. LoopTypes'
    BY DEF LoopTypes
  <2>2. Walk'
    BY DEF Walk, LoopTypes
  <2>3. Counted'
    BY DEF Counted, Due, LoopTypes
  <2>4. Shown'
    BY DEF Shown, Walk, LoopTypes
  <2> QED BY <2>1, <2>2, <2>3, <2>4
<1>6. CASE ClassicLoop!Resume
  <2> USE <1>6 DEF ClassicLoop!Resume, ClassicLoop!find_start_position
  <2>0. stop_soon' \in BOOLEAN
    BY <1>6, Zenon
  <2>1. LoopTypes'
    BY <2>0 DEF LoopTypes
  <2>2. Walk'
    BY DEF Walk, LoopTypes
  <2>3. Counted'
    BY DEF Counted, Due, LoopTypes
  <2>4. Shown'
    BY DEF Shown, Walk, LoopTypes
  <2> QED BY <2>1, <2>2, <2>3, <2>4
<1>7. CASE ClassicLoop!write_stats_file
  <2> USE <1>7 DEF ClassicLoop!write_stats_file, ClassicLoop!cycle, ClassicLoop!position, ClassicLoop!sync, ClassicLoop!queue
  <2>1. LoopTypes'
    BY DEF LoopTypes
  <2>2. Walk'
    BY DEF Walk, LoopTypes
  <2>3. Counted'
    BY DEF Counted, Due, LoopTypes
  <2>4. Shown'
    BY DEF Shown, LoopTypes
  <2> QED BY <2>1, <2>2, <2>3, <2>4
<1>8. CASE ClassicLoop!Enter
  <2> USE <1>8 DEF ClassicLoop!Enter, ClassicLoop!cycle, ClassicLoop!position, ClassicLoop!sync, ClassicLoop!queue
  <2>1. LoopTypes'
    BY DEF LoopTypes
  <2>2. Walk'
    BY DEF Walk, Shown, LoopTypes
  <2>3. Counted'
    BY DEF Counted, Due, LoopTypes
  <2>4. Shown'
    BY DEF Shown, LoopTypes
  <2> QED BY <2>1, <2>2, <2>3, <2>4
<1> QED
  BY <1>1, <1>2, <1>3, <1>4, <1>5, <1>6, <1>7, <1>8 DEF ClassicLoop!Next

(* Every cycle of the classic loop is complete, cur_path is a position it  *)
(* has come to, and imports come in time, for every bound and every        *)
(* SYNC_INTERVAL.                                                          *)
LEMMA ClassicLoopSound == Spec => [](running = "loop" => ClassicLoop!LoopTrue)
<1>1. LoopInv /\ [Next]_vars => LoopInv'
  <2> SUFFICES ASSUME LoopInv, [Next]_vars, running' = "loop"
               PROVE  LoopTypes' /\ Walk' /\ Counted' /\ Shown'
    BY DEF LoopInv
  <2>1. running = "loop" /\ (ClassicLoop!Next \/ UNCHANGED vars)
    BY Steps
  <2>2. CASE ClassicLoop!Next
    BY <2>1, <2>2, LoopSteps DEF LoopInv
  <2>3. CASE UNCHANGED vars
    <3>1. UNCHANGED <<loopVars, sharedVars>>
      BY <2>3 DEF vars
    <3> QED
      BY <2>1, <3>1 DEF LoopInv, loopVars, sharedVars, LoopTypes, Walk, Counted, Due, Shown
  <2> QED
    BY <2>1, <2>2, <2>3
<1>2. LoopInv => (running = "loop" => ClassicLoop!LoopTrue)
  <2> SUFFICES ASSUME LoopTypes, Walk, Counted, Shown PROVE ClassicLoop!LoopTrue
    BY DEF LoopInv
  <2>1. ClassicLoop!CycleComplete
    BY DEF ClassicLoop!CycleComplete, ClassicLoop!NULL, Walk
  <2>2. Due < SYNC_INTERVAL
    BY LoopAssumption DEF LoopTypes, Due
  <2>3. ClassicLoop!ImportsInTime
    BY <2>2, LoopAssumption DEF ClassicLoop!ImportsInTime, Counted, LoopTypes, Due
  <2>4. ClassicLoop!PositionReached
    BY DEF ClassicLoop!PositionReached, Shown
  <2> QED
    BY <2>1, <2>3, <2>4 DEF ClassicLoop!LoopTrue
<1> QED
  BY LoopInit, <1>1, <1>2, PTL DEF Spec

-----------------------------------------------------------------------------
(* The choice of a state by score                                          *)

(* Every set of numbers that is not empty has a least one.                 *)
LEMMA LeastElement ==
    ASSUME NEW T \in SUBSET Nat, T # {}
    PROVE  \E low \in T : \A k \in T : low <= k
<1> DEFINE R == {ss \in Nat \X Nat : ss[1] < ss[2]}
<1>1. IsWellFoundedOn(R, Nat)
  BY NatLessThanWellFounded DEF OpToRel
<1> HIDE DEF R
<1>2. PICK low \in T : \A k \in T : ~(<<k, low>> \in R)
  BY <1>1, WFMin
<1>3. \A k \in T : ~(k < low)
  BY <1>2 DEF R
<1>4. \A k \in T : k \in Nat
  OBVIOUS
<1>5. \A k \in T : low <= k
  BY <1>3, <1>4
<1> QED
  BY <1>5

\* Sums to which every state adds something.
IsSums(sums, n) ==
    /\ sums \in [1 .. n -> Nat]
    /\ \A k \in 1 .. n : Scores!Score(sums, k) \in Nat \ {0}

(* Such sums grow from one state to the next.                              *)
LEMMA SumsGrow ==
    ASSUME NEW n \in Nat \ {0}, NEW A, IsSums(A, n), NEW j \in 1 .. n, NEW k \in 1 .. n, j < k
    PROVE  A[j] <= A[k - 1]
<1> DEFINE Bad == {p \in Nat : p \in j .. n /\ A[p] < A[j]}
<1>1. \A p \in 1 .. n : A[p] \in Nat
  BY DEF IsSums
<1>2. Bad = {}
  <2> SUFFICES ASSUME Bad # {} PROVE FALSE
    OBVIOUS
  <2>1. PICK p \in Bad : \A q \in Bad : p <= q
    BY LeastElement
  <2>2. p \in Nat /\ p \in j .. n /\ A[p] < A[j] /\ p # j
    BY <1>1, <2>1
  <2>3. p - 1 \in Nat /\ p - 1 \in j .. n /\ ~(p <= p - 1) /\ p \in 1 .. n /\ p - 1 \in 1 .. n
    BY <2>2
  <2>4. ~(A[p - 1] < A[j])
    BY <2>1, <2>3
  <2>5. A[p] - A[p - 1] \in Nat \ {0}
    BY <2>2, <2>3 DEF IsSums, Scores!Score
  <2> QED
    BY <1>1, <2>2, <2>3, <2>4, <2>5
<1>3. k - 1 \in Nat /\ k - 1 \in j .. n /\ k - 1 \in 1 .. n
  OBVIOUS
<1>4. ~(A[k - 1] < A[j])
  BY <1>2, <1>3
<1> QED
  BY <1>1, <1>3, <1>4

(* A number that is not above the last sum finds the first that reaches    *)
(* it.                                                                     *)
LEMMA IndexFound ==
    ASSUME NEW n \in Nat \ {0}, NEW A \in [1 .. n -> Nat], NEW r \in Nat, r <= A[n],
           NEW x, x = Scores!index_search(A, r) + 1
    PROVE  x \in 1 .. n /\ r <= A[x] /\ \A k \in 1 .. n : r <= A[k] => x <= k
<1> DEFINE at == {k \in DOMAIN A : r <= A[k]}
           first == CHOOSE k \in at : \A j \in at : k <= j
<1>1. at \in SUBSET Nat /\ n \in at /\ DOMAIN A = 1 .. n
  OBVIOUS
<1>2. \E k \in at : \A j \in at : k <= j
  BY <1>1, LeastElement
<1>3. first \in at /\ \A j \in at : first <= j
  BY <1>2
<1>4. x = (first - 1) + 1
  BY <1>1 DEF Scores!index_search
<1>5. x = first
  <2> HIDE DEF first
  <2> QED BY <1>1, <1>3, <1>4
<1> QED
  BY <1>1, <1>3, <1>5

ScoreTypes ==
    /\ state_ids \in Seq(States) \ {<<>>}
    /\ fuzzs \in [States -> Nat] /\ executions \in Nat
    /\ \A s \in States : fuzzs[s] <= executions
    /\ state_scores # <<>> => IsSums(state_scores, Len(state_ids)) /\ target_state_id \in Scores!ToSet(state_ids)

ScoreInv == running = "scores" => ScoreTypes

(* The tables of scores begin as the run gives them.                       *)
LEMMA ScoreInit == Init => ScoreInv
<1> SUFFICES ASSUME Init, running = "scores" PROVE ScoreTypes
  BY DEF ScoreInv
<1>1. Scores!Init
  BY DEF Init
<1> QED
  BY <1>1, ScoresAssumption DEF Scores!Init, ScoreTypes

(* What an execution counts and what is drawn stays among the states of    *)
(* the table.                                                              *)
LEMMA ScoreSteps == ASSUME ScoreTypes, Scores!Next PROVE ScoreTypes'
<1>1. CASE Scores!update_fuzzs
  <2>1. PICK seen : fuzzs' = [s \in States |-> IF s \in Scores!ToSet(state_ids) THEN fuzzs[s] + Scores!Once(seen, s)
                                                   ELSE fuzzs[s]]
    BY <1>1 DEF Scores!update_fuzzs
  <2>2. \A s \in States : Scores!Once(seen, s) \in 0 .. 1
    BY DEF Scores!Once
  <2>3. fuzzs' \in [States -> Nat] /\ \A s \in States : fuzzs'[s] <= fuzzs[s] + 1
    <3>1. \A s \in States : fuzzs[s] \in Nat
      BY DEF ScoreTypes
    <3>2. \A s \in States : fuzzs'[s] = fuzzs[s] + Scores!Once(seen, s) \/ fuzzs'[s] = fuzzs[s]
      BY <2>1
    <3>3. \A s \in States : fuzzs'[s] \in Nat /\ fuzzs'[s] <= fuzzs[s] + 1
      BY <2>2, <3>1, <3>2
    <3> QED
      BY <2>1, <3>3
  <2>4. executions' = executions + 1 /\ state_scores' = <<>> /\ UNCHANGED <<state_ids, target_state_id>>
    BY <1>1 DEF Scores!update_fuzzs
  <2> QED
    BY <2>3, <2>4 DEF ScoreTypes
<1>2. CASE Scores!SelectNextState
  <2> DEFINE n == Len(state_ids)
  <2>1. n \in Nat \ {0} /\ DOMAIN state_ids = 1 .. n
    BY DEF ScoreTypes
  <2>2. UNCHANGED <<state_ids, fuzzs, executions>> /\ randV' \in 0 .. state_scores'[n] - 1
        /\ target_state_id' = state_ids[Scores!index_search(state_scores', randV') + 1]
        /\ state_scores' \in [1 .. n -> 1 .. MaxScore * n]
        /\ \A k \in 1 .. n : Scores!Score(state_scores', k) \in 1 .. MaxScore
    BY <1>2, <2>1 DEF Scores!SelectNextState
  <2> HIDE DEF n
  <2>3. state_scores' \in [1 .. n -> Nat]
    <3>1. 1 .. MaxScore * n \subseteq Nat
      BY <2>1, ScoresAssumption
    <3> QED BY <2>2, <3>1
  <2>4. IsSums(state_scores', n)
    BY <2>2, <2>3, ScoresAssumption DEF IsSums
  <2>5. PICK x : x = Scores!index_search(state_scores', randV') + 1
    OBVIOUS
  <2>6. randV' \in Nat /\ randV' <= state_scores'[n]
    BY <2>1, <2>2, <2>3
  <2>7. x \in 1 .. n
    BY <2>1, <2>3, <2>5, <2>6, IndexFound
  <2>8. target_state_id' \in Scores!ToSet(state_ids)
    BY <2>1, <2>2, <2>5, <2>7 DEF Scores!ToSet
  <2> QED
    BY <2>2, <2>4, <2>8 DEF ScoreTypes, n
<1> QED
  BY <1>1, <1>2 DEF Scores!Next

(* A state counts once at most for an execution, one of the table is       *)
(* drawn, and each of a score of two or more can be, for every table,      *)
(* every score and any number of executions.                               *)
LEMMA ScoresAreSound == Spec => [](running = "scores" => Scores!ScoresSound)
<1>1. ScoreInv /\ [Next]_vars => ScoreInv'
  <2> SUFFICES ASSUME ScoreInv, [Next]_vars, running' = "scores" PROVE ScoreTypes'
    BY DEF ScoreInv
  <2>1. running = "scores" /\ (Scores!Next \/ UNCHANGED vars)
    BY Steps
  <2>2. CASE UNCHANGED vars
    <3>1. UNCHANGED scoreVars
      BY <2>2 DEF vars
    <3> QED
      BY <2>1, <3>1 DEF ScoreInv, scoreVars, ScoreTypes
  <2> QED
    BY <2>1, <2>2, ScoreSteps DEF ScoreInv
<1>2. ScoreInv => (running = "scores" => Scores!ScoresSound)
  <2> SUFFICES ASSUME ScoreTypes PROVE Scores!ScoresSound
    BY DEF ScoreInv
  <2> SUFFICES ASSUME state_scores # <<>>
               PROVE  /\ {Scores!index_search(state_scores, r) + 1 : r \in 0 .. state_scores[Len(state_ids)] - 1}
                            \subseteq DOMAIN state_ids
                      /\ \A k \in DOMAIN state_ids : Scores!Score(state_scores, k) > 1 =>
                           \E r \in 0 .. state_scores[Len(state_ids)] - 1 : k = Scores!index_search(state_scores, r) + 1
    BY DEF ScoreTypes, Scores!ScoresSound
  <2> DEFINE n == Len(state_ids)
             A == state_scores
  <2>1. n \in Nat \ {0} /\ DOMAIN state_ids = 1 .. n /\ IsSums(A, n)
    BY DEF ScoreTypes
  <2> HIDE DEF n, A
  <2>2. A \in [1 .. n -> Nat]
    BY <2>1 DEF IsSums
  <2>3. ASSUME NEW r \in 0 .. A[n] - 1 PROVE Scores!index_search(A, r) + 1 \in 1 .. n
    <3>1. PICK x : x = Scores!index_search(A, r) + 1
      OBVIOUS
    <3>2. r \in Nat /\ r <= A[n]
      BY <2>1, <2>2
    <3> QED
      BY <2>1, <2>2, <3>1, <3>2, IndexFound
  <2>4. ASSUME NEW k \in 1 .. n, Scores!Score(A, k) > 1
        PROVE  \E r \in 0 .. A[n] - 1 : k = Scores!index_search(A, r) + 1
    <3>1. \A p \in 1 .. n : A[p] \in Nat
      BY <2>2
    <3>2. A[k] <= A[n]
      <4>1. CASE k = n
        BY <3>1, <4>1
      <4>2. CASE k # n
        <5>1. n \in 1 .. n /\ n - 1 \in 1 .. n /\ k < n
          BY <2>1, <4>2
        <5>2. A[k] <= A[n - 1]
          BY <2>1, <5>1, SumsGrow
        <5>3. A[n] - A[n - 1] \in Nat \ {0}
          BY <2>1, <5>1 DEF IsSums, Scores!Score
        <5> QED
          BY <3>1, <5>1, <5>2, <5>3
      <4> QED BY <4>1, <4>2
    <3>3. A[k] > 1
      <4>1. CASE k = 1
        BY <2>4, <4>1 DEF Scores!Score
      <4>2. CASE k # 1
        <5>1. k - 1 \in 1 .. n
          BY <2>1, <4>2
        <5> QED
          BY <2>4, <3>1, <4>2, <5>1 DEF Scores!Score
      <4> QED BY <4>1, <4>2
    <3>4. PICK r \in Nat : r = A[k] - 1 /\ r \in 0 .. A[n] - 1
      BY <2>1, <3>1, <3>2, <3>3
    <3>5. PICK x : x = Scores!index_search(A, r) + 1
      OBVIOUS
    <3>6. n \in 1 .. n /\ r <= A[n]
      BY <2>1, <3>1, <3>4
    <3>7. x \in 1 .. n /\ r <= A[x] /\ (r <= A[k] => x <= k)
      BY <2>1, <2>2, <3>5, <3>6, IndexFound
    <3>8. r <= A[k]
      BY <3>1, <3>4
    <3>9. ~(x < k)
      <4> SUFFICES ASSUME x < k PROVE FALSE
        OBVIOUS
      <4>1. A[x] <= A[k - 1]
        BY <2>1, <3>7, SumsGrow
      <4>2. k # 1 /\ k - 1 \in 1 .. n
        BY <2>1, <3>7
      <4>3. A[k] - A[k - 1] > 1
        BY <2>4, <4>2 DEF Scores!Score
      <4> QED
        BY <3>1, <3>4, <3>7, <4>1, <4>2, <4>3
    <3>10. x = k
      BY <3>7, <3>8, <3>9
    <3> QED
      BY <3>4, <3>5, <3>10
  <2> QED
    BY <2>1, <2>3, <2>4 DEF n, A
<1> QED
  BY ScoreInit, <1>1, <1>2, PTL DEF Spec

(* The classic loop takes every entry into every cycle, leaves in          *)
(* fuzzer_stats (cur_path) only entries it has come to, and imports in     *)
(* time; and the draw of a state by score is right: for all values of the  *)
(* constants.                                                              *)
THEOREM LoopIsTrue == Spec => []LoopTrue
  BY ClassicLoopSound, ScoresAreSound, PTL DEF LoopTrue
-----------------------------------------------------------------------------
(* The heap of libdislocator                                               *)

(* Where a quotient lies.                                                  *)
LEMMA QuotientWithin ==
    ASSUME NEW s \in Nat \ {0}, NEW x \in Int, NEW y \in Int, NEW a \in Int, s * x <= a, a < s * y
    PROVE  a \div s \in x .. y - 1
<1>1. PICK q \in Int, r \in 0 .. s - 1 : a = s * q + r /\ q = a \div s
  OBVIOUS
<1>2. \A u, v \in Int : u < v => s * u + s <= s * v
  OBVIOUS
<1>3. (q < x => s * q + s <= s * x) /\ (y <= q => s * y <= s * q)
  BY <1>2
<1> DEFINE sq == s * q
           sx == s * x
           sy == s * y
<1>4. sq \in Int /\ sx \in Int /\ sy \in Int
  OBVIOUS
<1>5. a = sq + r /\ sx <= a /\ a < sy /\ (q < x => sq + s <= sx) /\ (y <= q => sy <= sq)
  BY <1>1, <1>3
<1> HIDE DEF sq, sx, sy
<1>6. x <= q /\ q <= y - 1
  BY <1>1, <1>4, <1>5
<1> QED
  BY <1>1, <1>6

(* A quotient is known by the multiples around it.                         *)
LEMMA QuotientOf ==
    ASSUME NEW s \in Nat \ {0}, NEW x \in Int, NEW a \in Int, a = s * x
    PROVE  a \div s = x /\ a % s = 0
<1>1. a < s * (x + 1)
  OBVIOUS
<1>2. a \div s \in x .. (x + 1) - 1
  BY <1>1, QuotientWithin
<1>3. a = s * (a \div s) + (a % s) /\ a % s \in Nat
  OBVIOUS
<1>4. a \div s = x
  BY <1>2
<1> QED
  BY <1>3, <1>4

(* The pages that l bytes take.                                            *)
LEMMA PagesNeeded ==
    ASSUME NEW l \in Nat \ {0}, NEW n, n = Dislocator!PG_COUNT(l)
    PROVE  n \in Nat \ {0} /\ PAGE_SIZE * (n - 1) < l /\ l <= PAGE_SIZE * n
<1> DEFINE s == PAGE_SIZE
<1>1. s \in Nat \ {0}
  BY DislocatorAssumption
<1>2. n = (l + s - 1) \div s
  BY DEF Dislocator!PG_COUNT
<1> HIDE DEF s
<1>3. PICK r \in 0 .. s - 1 : l + s - 1 = s * n + r /\ n \in Int
  BY <1>1, <1>2
<1>4. n >= 1
  <2>1. s * 1 <= l + s - 1
    BY <1>1
  <2>2. PICK y \in Int : y = l + s
    BY <1>1
  <2>3. l + s - 1 < s * y
    BY <1>1, <2>2
  <2>4. l + s - 1 \in Int
    BY <1>1
  <2>5. (l + s - 1) \div s \in 1 .. y - 1
    BY <1>1, <2>1, <2>2, <2>3, <2>4, QuotientWithin
  <2> QED
    BY <1>2, <2>5
<1>5. s * (n - 1) = s * n - s
  BY <1>1, <1>3
<1> DEFINE sn == s * n
           so == s * (n - 1)
<1>6. sn \in Int
  BY <1>1, <1>3
<1>7. l + s - 1 = sn + r /\ so = sn - s
  BY <1>3, <1>5
<1> HIDE DEF sn, so
<1>8. so < l /\ l <= sn
  BY <1>1, <1>3, <1>6, <1>7
<1> QED
  BY <1>3, <1>4, <1>8 DEF sn, so, s

Block == [ret : Int, len : Nat, live : BOOLEAN, asked : Nat]

\* The page behind a block, and its own.
FencePage(b) == (b.ret + b.len) \div PAGE_SIZE
PageCount(b) == Dislocator!PG_COUNT(b.len + Header)
OwnPages(b)  == FencePage(b) - PageCount(b) .. FencePage(b) - 1

\* A block ends at its fence and lies in the first n pages.
Placed(b, n) ==
    /\ b.ret + b.len = PAGE_SIZE * FencePage(b)
    /\ FencePage(b) \in 0 .. n - 1 /\ FencePage(b) - PageCount(b) \in Nat

\* n pages are mapped; those of a block in use are accessible, and those of no other.
HeapOK(B, prot, n) ==
    /\ n \in Nat /\ prot \in [0 .. n - 1 -> {"rw", "none"}]
    /\ B \subseteq Block
    /\ \A b \in B : Placed(b, n) /\ (b.live => b.len = b.asked)
    /\ \A b \in B : \A p \in OwnPages(b) : prot[p] = IF b.live THEN "rw" ELSE "none"
    /\ \A b \in B : prot[FencePage(b)] = "none"
    /\ \A b, c \in B : \A p \in Int :
         p \in OwnPages(b) \cup {FencePage(b)} /\ p \in OwnPages(c) \cup {FencePage(c)} => b = c
    /\ \A p \in 0 .. n - 1 : prot[p] = "rw" => \E b \in B : b.live /\ p \in OwnPages(b)

(* The numbers that describe a block.                                      *)
LEMMA BlockNumbers ==
    ASSUME NEW b \in Block
    PROVE  /\ FencePage(b) \in Int /\ PageCount(b) \in Nat \ {0} /\ b.len + Header \in Nat \ {0}
           /\ PAGE_SIZE * (PageCount(b) - 1) < b.len + Header /\ b.len + Header <= PAGE_SIZE * PageCount(b)
<1>1. b.len \in Nat /\ b.ret \in Int /\ b.len + Header \in Nat \ {0}
  BY DislocatorAssumption DEF Block
<1>2. PageCount(b) \in Nat \ {0} /\ PAGE_SIZE * (PageCount(b) - 1) < b.len + Header
        /\ b.len + Header <= PAGE_SIZE * PageCount(b)
  BY <1>1, PagesNeeded DEF PageCount
<1>3. \A x \in Int : x \div PAGE_SIZE \in Int
  BY DislocatorAssumption
<1> QED
  BY <1>1, <1>2, <1>3 DEF FencePage

(* free finds the pages of a block from its length.                        *)
LEMMA PagesFound ==
    ASSUME NEW b \in Block, NEW n \in Nat, Placed(b, n)
    PROVE  Dislocator!PagesOf(b) = OwnPages(b)
<1> DEFINE s == PAGE_SIZE
           f == FencePage(b)
           k == PageCount(b)
           first == (b.ret - s * k + b.len) \div s
<1>1. s \in Nat \ {0} /\ f \in Int /\ k \in Nat \ {0} /\ b.ret \in Int /\ b.len \in Nat /\ b.ret + b.len = s * f
  BY DislocatorAssumption, BlockNumbers DEF Placed, Block
<1>2. Dislocator!PagesOf(b) = first .. first + k - 1
  BY DEF Dislocator!PagesOf, Dislocator!Pages, PageCount
<1>3. OwnPages(b) = f - k .. f - 1
  BY DEF OwnPages
<1> HIDE DEF s, f, k
<1>4. s * (f - k) = s * f - s * k
  BY <1>1
<1>5. b.ret - s * k + b.len = s * (f - k) /\ b.ret - s * k + b.len \in Int /\ f - k \in Int
  BY <1>1, <1>4
<1>6. first = f - k
  BY <1>1, <1>5, QuotientOf
<1>7. first + k - 1 = f - 1
  BY <1>1, <1>6
<1> QED
  BY <1>2, <1>3, <1>6, <1>7

(* A header and a buffer lie in the pages of their block.                  *)
LEMMA AddressesOwn ==
    ASSUME NEW b \in Block, NEW n \in Nat, Placed(b, n), NEW a \in b.ret - Header .. b.ret + b.len - 1
    PROVE  a \div PAGE_SIZE \in OwnPages(b)
<1> DEFINE s == PAGE_SIZE
           f == FencePage(b)
           k == PageCount(b)
<1>1. s \in Nat \ {0} /\ f \in Int /\ k \in Nat \ {0} /\ b.ret \in Int /\ b.len \in Nat /\ b.ret + b.len = s * f
        /\ b.len + Header <= s * k /\ Header \in Nat
  BY DislocatorAssumption, BlockNumbers DEF Placed, Block
<1>2. OwnPages(b) = f - k .. f - 1
  BY DEF OwnPages
<1> HIDE DEF s, f, k
<1>3. s * (f - k) = s * f - s * k
  BY <1>1
<1> DEFINE sf == s * f
           sk == s * k
<1>4. sf \in Int /\ sk \in Int
  BY <1>1
<1>5. b.ret + b.len = sf /\ b.len + Header <= sk /\ s * (f - k) = sf - sk
  BY <1>1, <1>3
<1> HIDE DEF sf, sk
<1>6. a \in Int /\ sf - sk <= a /\ a < sf
  BY <1>1, <1>4, <1>5
<1>7. s * (f - k) <= a /\ a < s * f /\ f - k \in Int
  BY <1>1, <1>5, <1>6 DEF sf
<1>8. a \div s \in f - k .. f - 1
  BY <1>1, <1>6, <1>7, QuotientWithin
<1> QED
  BY <1>2, <1>8 DEF s

(* The component's own name of the number of elements.                     *)
LEMMA SameCardinality == ASSUME NEW S PROVE Dislocator!Cardinality(S) = Cardinality(S)
  BY DEF Dislocator!Cardinality, Cardinality

(* A new block takes the pages behind all others.                          *)
LEMMA AddBlock ==
    ASSUME NEW n, HeapOK(blocks, protection, n), NEW len \in Nat, NEW asked \in Nat, len = asked,
           NEW b, b = Dislocator!NewBlock(len, asked)
    PROVE  /\ n = Cardinality(DOMAIN protection) /\ b \in Block /\ FencePage(b) >= n
           /\ HeapOK(blocks \cup {b}, Dislocator!Mapped(len), n + PageCount(b) + 1)
<1>1. n \in Nat /\ protection \in [0 .. n - 1 -> {"rw", "none"}] /\ DOMAIN protection = 0 .. n - 1
  BY DEF HeapOK
<1>2. Cardinality(0 .. n - 1) = n
  <2>1. 0 \in Int /\ n - 1 \in Int
    BY <1>1
  <2>2. Cardinality(0 .. n - 1) = IF 0 > n - 1 THEN 0 ELSE (n - 1) - 0 + 1
    BY <2>1, FS_Interval
  <2> QED
    BY <1>1, <2>2
<1> DEFINE s == PAGE_SIZE
           k == Dislocator!PG_COUNT(len + Header)
           prot == Dislocator!Mapped(len)
<1>3. s \in Nat \ {0} /\ Header \in Nat \ {0} /\ k \in Nat \ {0} /\ len + Header <= s * k
  BY DislocatorAssumption, PagesNeeded
<1> DEFINE base == Cardinality(DOMAIN protection)
<1>0. base = n
  BY <1>1, <1>2
<1>4. b = [ret |-> s * (n + k) - len, len |-> len, live |-> TRUE, asked |-> asked]
  <2>1. b = [ret |-> s * (base + k) - len, len |-> len, live |-> TRUE, asked |-> asked]
    BY SameCardinality DEF Dislocator!NewBlock
  <2> HIDE DEF base
  <2> QED
    BY <1>0, <2>1
<1>5. prot = [p \in 0 .. n + k |-> IF p < n THEN protection[p] ELSE IF p < n + k THEN "rw" ELSE "none"]
  <2>1. prot = [p \in 0 .. base + k |-> IF p < base THEN protection[p] ELSE IF p < base + k THEN "rw" ELSE "none"]
    BY SameCardinality DEF Dislocator!Mapped
  <2> HIDE DEF base
  <2> QED
    BY <1>0, <2>1
<1>6. PageCount(b) = k /\ b.len = len /\ b.asked = asked /\ b.live
  BY <1>4 DEF PageCount
<1> HIDE DEF s, k, prot
<1>7. s * (n + k) \in Int /\ b.ret = s * (n + k) - len /\ b.ret \in Int /\ b.ret + b.len = s * (n + k)
  <2>1. s * (n + k) \in Int
    BY <1>1, <1>3
  <2>2. PICK t \in Int : t = s * (n + k)
    BY <2>1
  <2>3. b.ret = t - len
    BY <1>4, <2>2
  <2> QED
    BY <1>6, <2>2, <2>3
<1>8. b \in Block
  <2>1. s * (n + k) - len \in Int
    BY <1>7
  <2>2. TRUE \in BOOLEAN
    BY Zenon
  <2> QED
    BY <1>4, <2>1, <2>2 DEF Block
<1>9. FencePage(b) = n + k
  <2>1. n + k \in Int /\ b.ret + b.len \in Int
    BY <1>1, <1>3, <1>7
  <2>2. (b.ret + b.len) \div s = n + k
    BY <1>3, <1>7, <2>1, QuotientOf
  <2> QED
    BY <2>2 DEF FencePage, s
<1>10. OwnPages(b) = n .. n + k - 1
  <2>1. (n + k) - k = n /\ (n + k) - 1 = n + k - 1
    BY <1>1, <1>3
  <2> QED
    BY <1>6, <1>9, <2>1 DEF OwnPages
<1>11. Placed(b, n + k + 1)
  <2>1. (n + k) - k \in Nat /\ n + k \in 0 .. (n + k + 1) - 1
    BY <1>1, <1>3
  <2> QED
    BY <1>6, <1>7, <1>9, <2>1 DEF Placed, s
<1>12. prot \in [0 .. (n + k + 1) - 1 -> {"rw", "none"}]
  <2>1. (n + k + 1) - 1 = n + k
    BY <1>1, <1>3
  <2>2. \A p \in 0 .. n + k : p < n => protection[p] \in {"rw", "none"}
    BY <1>1
  <2> QED
    BY <1>5, <2>1, <2>2
<1>13. ASSUME NEW c \in blocks
       PROVE  /\ c \in Block /\ Placed(c, n) /\ FencePage(c) \in 0 .. n - 1
              /\ \A p \in OwnPages(c) : p \in 0 .. n - 1
  <2>1. c \in Block /\ Placed(c, n)
    BY DEF HeapOK
  <2>2. FencePage(c) \in 0 .. n - 1 /\ FencePage(c) - PageCount(c) \in Nat
    BY <2>1 DEF Placed
  <2> QED
    BY <1>1, <2>1, <2>2 DEF OwnPages
<1>14. \A p \in 0 .. n - 1 : prot[p] = protection[p]
  BY <1>1, <1>3, <1>5
<1>15. \A p \in n .. n + k - 1 : prot[p] = "rw"
  BY <1>1, <1>3, <1>5
<1>16. prot[n + k] = "none"
  BY <1>1, <1>3, <1>5
<1> DEFINE B == blocks \cup {b}
           d == n + k + 1
<1>17. \A c \in B : Placed(c, d) /\ (c.live => c.len = c.asked) /\ c \in Block
  <2>1. \A c \in blocks : Placed(c, d)
    BY <1>1, <1>3, <1>13 DEF Placed
  <2>2. \A c \in blocks : c.live => c.len = c.asked
    BY DEF HeapOK
  <2> QED
    BY <1>6, <1>8, <1>11, <1>13, <2>1, <2>2
<1>18. \A c \in B : \A p \in OwnPages(c) : prot[p] = IF c.live THEN "rw" ELSE "none"
  <2>1. ASSUME NEW c \in blocks, NEW p \in OwnPages(c) PROVE prot[p] = IF c.live THEN "rw" ELSE "none"
    <3>1. protection[p] = IF c.live THEN "rw" ELSE "none"
      BY DEF HeapOK
    <3> QED
      BY <1>13, <1>14, <3>1
  <2>2. \A p \in OwnPages(b) : prot[p] = IF b.live THEN "rw" ELSE "none"
    BY <1>6, <1>10, <1>15
  <2> QED
    BY <2>1, <2>2
<1>19. \A c \in B : prot[FencePage(c)] = "none"
  <2>1. \A c \in blocks : protection[FencePage(c)] = "none"
    BY DEF HeapOK
  <2> QED
    BY <1>9, <1>13, <1>14, <1>16, <2>1
<1>20. \A c, e \in B : \A p \in Int :
         p \in OwnPages(c) \cup {FencePage(c)} /\ p \in OwnPages(e) \cup {FencePage(e)} => c = e
  <2>1. \A c, e \in blocks : \A p \in Int :
         p \in OwnPages(c) \cup {FencePage(c)} /\ p \in OwnPages(e) \cup {FencePage(e)} => c = e
    BY DEF HeapOK
  <2>2. \A p \in Int : p \in OwnPages(b) \cup {FencePage(b)} => p >= n
    BY <1>1, <1>3, <1>9, <1>10
  <2>3. \A c \in blocks : \A p \in Int : p \in OwnPages(c) \cup {FencePage(c)} => p < n
    BY <1>1, <1>13
  <2>4. \A p \in Int : ~(p >= n /\ p < n)
    BY <1>1
  <2> QED
    BY <2>1, <2>2, <2>3, <2>4
<1>21. \A p \in 0 .. d - 1 : prot[p] = "rw" => \E c \in B : c.live /\ p \in OwnPages(c)
  <2> SUFFICES ASSUME NEW p \in 0 .. d - 1, prot[p] = "rw" PROVE \E c \in B : c.live /\ p \in OwnPages(c)
    OBVIOUS
  <2>1. p \in 0 .. n - 1 \/ p \in n .. n + k - 1 \/ p = n + k
    BY <1>1, <1>3
  <2>2. CASE p \in 0 .. n - 1
    <3>1. protection[p] = "rw"
      BY <1>14, <2>2
    <3>2. \E c \in blocks : c.live /\ p \in OwnPages(c)
      BY <2>2, <3>1 DEF HeapOK
    <3> QED
      BY <3>2
  <2>3. CASE p \in n .. n + k - 1
    BY <1>6, <1>10, <2>3
  <2> QED
    BY <1>16, <2>1, <2>2, <2>3
<1>22. HeapOK(B, prot, d)
  <2>1. d \in Nat /\ B \subseteq Block
    BY <1>1, <1>3, <1>17
  <2> HIDE DEF B, d
  <2> QED
    BY <2>1, <1>12, <1>17, <1>18, <1>19, <1>20, <1>21 DEF HeapOK, d
<1> QED
  BY <1>1, <1>2, <1>3, <1>6, <1>8, <1>9, <1>22 DEF prot

(* A block that is freed leaves no accessible page.                        *)
LEMMA FreeBlock ==
    ASSUME NEW B, NEW prot, NEW n, HeapOK(B, prot, n), NEW b \in B, b.live,
           NEW f, f = [b EXCEPT !.live = FALSE]
    PROVE  HeapOK((B \ {b}) \cup {f},
                  [p \in DOMAIN prot |-> IF p \in Dislocator!PagesOf(b) THEN "none" ELSE prot[p]], n)
<1>1. n \in Nat /\ prot \in [0 .. n - 1 -> {"rw", "none"}] /\ b \in Block /\ Placed(b, n)
  BY DEF HeapOK
<1>2. Dislocator!PagesOf(b) = OwnPages(b)
  BY <1>1, PagesFound
<1> DEFINE C == (B \ {b}) \cup {f}
           after == [p \in DOMAIN prot |-> IF p \in OwnPages(b) THEN "none" ELSE prot[p]]
<1>3. f.ret = b.ret /\ f.len = b.len /\ ~f.live /\ f \in Block
  <2>1. FALSE \in BOOLEAN
    BY Zenon
  <2> QED
    BY <1>1, <2>1 DEF Block
<1>4. FencePage(f) = FencePage(b) /\ PageCount(f) = PageCount(b) /\ OwnPages(f) = OwnPages(b)
  BY <1>3 DEF FencePage, PageCount, OwnPages
<1>5. Placed(f, n)
  BY <1>1, <1>3, <1>4 DEF Placed
<1>6. after \in [0 .. n - 1 -> {"rw", "none"}]
  BY <1>1
<1>7. \A p \in 0 .. n - 1 : after[p] = IF p \in OwnPages(b) THEN "none" ELSE prot[p]
  BY <1>1
<1> HIDE DEF after
<1>8. ASSUME NEW c \in B
      PROVE  /\ c \in Block /\ Placed(c, n) /\ FencePage(c) \in 0 .. n - 1 /\ (c.live => c.len = c.asked)
             /\ \A p \in OwnPages(c) : p \in 0 .. n - 1 /\ prot[p] = IF c.live THEN "rw" ELSE "none"
             /\ prot[FencePage(c)] = "none"
  <2>1. c \in Block /\ Placed(c, n) /\ (c.live => c.len = c.asked) /\ prot[FencePage(c)] = "none"
          /\ \A p \in OwnPages(c) : prot[p] = IF c.live THEN "rw" ELSE "none"
    BY DEF HeapOK
  <2>2. FencePage(c) \in 0 .. n - 1 /\ FencePage(c) - PageCount(c) \in Nat
    BY <2>1 DEF Placed
  <2>3. \A p \in OwnPages(c) : p \in 0 .. n - 1
    BY <1>1, <2>2 DEF OwnPages
  <2> QED
    BY <2>1, <2>2, <2>3
<1>9. \A c, e \in B : \A p \in Int :
         p \in OwnPages(c) \cup {FencePage(c)} /\ p \in OwnPages(e) \cup {FencePage(e)} => c = e
  BY DEF HeapOK
<1>10. \A c \in C : c \in Block /\ Placed(c, n) /\ (c.live => c.len = c.asked)
  BY <1>3, <1>5, <1>8
<1>11. \A c \in C : \A p \in OwnPages(c) : after[p] = IF c.live THEN "rw" ELSE "none"
  <2>1. ASSUME NEW c \in B \ {b}, NEW p \in OwnPages(c) PROVE after[p] = IF c.live THEN "rw" ELSE "none"
    <3>1. p \in 0 .. n - 1 /\ prot[p] = IF c.live THEN "rw" ELSE "none"
      BY <1>8
    <3>2. p \notin OwnPages(b)
      BY <1>9, <3>1
    <3> QED
      BY <1>7, <3>1, <3>2
  <2>2. \A p \in OwnPages(f) : after[p] = "none"
    BY <1>4, <1>7, <1>8
  <2> SUFFICES ASSUME NEW c \in C, NEW p \in OwnPages(c)
               PROVE  after[p] = IF c.live THEN "rw" ELSE "none"
    OBVIOUS
  <2>3. CASE c \in B \ {b}
    BY <2>1, <2>3
  <2>4. CASE c = f
    BY <1>3, <2>2, <2>4
  <2>5. c \in B \ {b} \/ c = f
    OBVIOUS
  <2> QED
    BY <2>3, <2>4, <2>5
<1>12. \A c \in C : after[FencePage(c)] = "none"
  BY <1>4, <1>7, <1>8
<1>13. \A c, e \in C : \A p \in Int :
         p \in OwnPages(c) \cup {FencePage(c)} /\ p \in OwnPages(e) \cup {FencePage(e)} => c = e
  BY <1>4, <1>9
<1>14. \A p \in 0 .. n - 1 : after[p] = "rw" => \E c \in C : c.live /\ p \in OwnPages(c)
  <2> SUFFICES ASSUME NEW p \in 0 .. n - 1, after[p] = "rw" PROVE \E c \in C : c.live /\ p \in OwnPages(c)
    OBVIOUS
  <2>1. p \notin OwnPages(b) /\ prot[p] = "rw"
    BY <1>7
  <2>2. \E c \in B : c.live /\ p \in OwnPages(c)
    BY <2>1 DEF HeapOK
  <2> QED
    BY <2>1, <2>2
<1>15. HeapOK(C, after, n)
  <2>1. C \subseteq Block
    BY <1>10
  <2> HIDE DEF C
  <2> QED
    BY <1>1, <1>6, <1>10, <1>11, <1>12, <1>13, <1>14, <2>1 DEF HeapOK
<1> QED
  BY <1>2, <1>15 DEF after

FencedInv == running = "dislocator" => \E n \in Nat : HeapOK(blocks, protection, n)

(* An empty heap is in order.                                              *)
LEMMA HeapInit == Init => FencedInv
<1> SUFFICES ASSUME Init, running = "dislocator" PROVE HeapOK(blocks, protection, 0)
  BY DEF FencedInv
<1>1. Dislocator!Init
  BY DEF Init
<1>2. blocks = {} /\ protection = <<>>
  BY <1>1 DEF Dislocator!Init
<1>3. protection \in [0 .. 0 - 1 -> {"rw", "none"}]
  <2>1. 0 .. 0 - 1 = {}
    OBVIOUS
  <2>2. protection = [p \in {} |-> "rw"]
    BY <1>2
  <2> QED
    BY <2>1, <2>2
<1>4. \A p \in 0 .. 0 - 1 : FALSE
  OBVIOUS
<1> QED
  BY <1>2, <1>3, <1>4 DEF HeapOK

(* What calloc hands on when it sees no overflow is the product.           *)
LEMMA NoOverflow ==
    ASSUME NEW e \in Nat, NEW c \in Nat, ~Dislocator!Overflows(e, c)
    PROVE  (e * c) % SizeT = e * c /\ e * c \in Nat
<1> DEFINE w == SizeT
<1>1. w \in Nat \ {0}
  BY DislocatorAssumption
<1> HIDE DEF w
<1>2. PICK p \in Nat : p = e * c
  OBVIOUS
<1>3. p % w \in 0 .. w - 1 /\ p % w <= p
  <2>1. p % w \in 0 .. w - 1 /\ p \div w \in Nat /\ p = w * (p \div w) + (p % w)
    BY <1>1
  <2>2. \A x, y \in Nat : x * y \in Nat
    OBVIOUS
  <2>3. w * (p \div w) \in Nat
    BY <1>1, <2>1, <2>2
  <2> QED
    BY <2>1, <2>3
<1>4. CASE c = 0
  <2>1. p = 0
    BY <1>2, <1>4
  <2>2. p % w = 0
    BY <1>1, <1>3, <2>1
  <2> QED
    BY <1>2, <2>1, <2>2 DEF w
<1>5. CASE c # 0
  <2>1. (p % w) \div c = e
    BY <1>2, <1>5 DEF Dislocator!Overflows, w
  <2>2. PICK v \in Nat : v = p % w
    BY <1>3
  <2>3. PICK r \in 0 .. c - 1 : v = c * (v \div c) + r
    <3>1. \A x \in Nat, y \in Nat \ {0} : \E r \in 0 .. y - 1 : x = y * (x \div y) + r
      OBVIOUS
    <3> QED
      BY <1>5, <2>2, <3>1
  <2>4. v = c * e + r
    BY <2>1, <2>2, <2>3
  <2>5. c * e = p
    BY <1>2
  <2>6. v = p
    BY <1>3, <2>2, <2>3, <2>4, <2>5
  <2> QED
    BY <1>2, <2>2, <2>6 DEF w
<1> QED
  BY <1>4, <1>5

(* malloc, calloc, realloc and free keep the blocks apart and their fences *)
(* closed.                                                                 *)
LEMMA HeapSteps ==
    ASSUME NEW n \in Nat, HeapOK(blocks, protection, n), Dislocator!Next
    PROVE  \E k \in Nat : HeapOK(blocks', protection', k)
<1>1. ASSUME NEW t, NEW len \in Nat, NEW asked \in Nat, len = asked, Dislocator!Alloc(t, len, asked)
      PROVE  \E k \in Nat : HeapOK(blocks', protection', k)
  <2>1. CASE Dislocator!TooMuch(t, len)
    <3>1. UNCHANGED <<blocks, protection>>
      BY <1>1, <2>1 DEF Dislocator!Alloc, Dislocator!Refuse
    <3> QED
      BY <3>1
  <2>2. CASE ~Dislocator!TooMuch(t, len)
    <3>1. PICK b : b = Dislocator!NewBlock(len, asked)
      OBVIOUS
    <3>2. blocks' = blocks \cup {b} /\ protection' = Dislocator!Mapped(len)
      BY <1>1, <2>2, <3>1 DEF Dislocator!Alloc
    <3>3. HeapOK(blocks \cup {b}, Dislocator!Mapped(len), n + PageCount(b) + 1) /\ b \in Block
      BY <1>1, <3>1, AddBlock
    <3>4. n + PageCount(b) + 1 \in Nat
      BY <3>3, BlockNumbers
    <3> QED
      BY <3>2, <3>3, <3>4
  <2> QED
    BY <2>1, <2>2
<1>2. ASSUME NEW t, NEW len \in HeapSizes, Dislocator!malloc(t, len)
      PROVE  \E k \in Nat : HeapOK(blocks', protection', k)
  <2>1. len \in Nat
    BY DislocatorAssumption
  <2> QED
    BY <1>1, <1>2, <2>1 DEF Dislocator!malloc
<1>3. ASSUME NEW t, NEW e \in HeapSizes, NEW c \in Counts, Dislocator!calloc(t, e, c)
      PROVE  \E k \in Nat : HeapOK(blocks', protection', k)
  <2>1. e \in Nat /\ c \in Nat
    BY DislocatorAssumption
  <2>2. CASE Dislocator!Overflows(e, c)
    <3>1. UNCHANGED <<blocks, protection>>
      BY <1>3, <2>2 DEF Dislocator!calloc
    <3> QED
      BY <3>1
  <2>3. CASE ~Dislocator!Overflows(e, c)
    <3>1. Dislocator!Alloc(t, (e * c) % SizeT, e * c)
      BY <1>3, <2>3 DEF Dislocator!calloc
    <3>2. PICK len \in Nat, asked \in Nat : len = (e * c) % SizeT /\ asked = e * c /\ len = asked
      BY <2>1, <2>3, NoOverflow
    <3>3. Dislocator!Alloc(t, len, asked)
      BY <3>1, <3>2
    <3> QED
      BY <1>1, <3>2, <3>3
  <2> QED
    BY <2>2, <2>3
<1>4. ASSUME NEW t, NEW b \in blocks, Dislocator!free(t, b)
      PROVE  \E k \in Nat : HeapOK(blocks', protection', k)
  <2>1. PICK f : f = [b EXCEPT !.live = FALSE]
    OBVIOUS
  <2>2. b.live
    BY <1>4 DEF Dislocator!free, Dislocator!Live
  <2>3. HeapOK((blocks \ {b}) \cup {f},
               [p \in DOMAIN protection |-> IF p \in Dislocator!PagesOf(b) THEN "none" ELSE protection[p]], n)
    BY <2>1, <2>2, FreeBlock
  <2> QED
    BY <1>4, <2>1, <2>3 DEF Dislocator!free
<1>5. ASSUME NEW t, NEW b \in blocks, NEW len \in HeapSizes, Dislocator!realloc(t, b, len)
      PROVE  \E k \in Nat : HeapOK(blocks', protection', k)
  <2>1. len \in Nat
    BY DislocatorAssumption
  <2>2. CASE Dislocator!TooMuch(t, len)
    <3>1. UNCHANGED <<blocks, protection>>
      BY <1>5, <2>2 DEF Dislocator!realloc, Dislocator!Refuse
    <3> QED
      BY <3>1
  <2>3. CASE ~Dislocator!TooMuch(t, len)
    <3>1. PICK c : c = Dislocator!NewBlock(len, len)
      OBVIOUS
    <3>2. PICK f : f = [b EXCEPT !.live = FALSE]
      OBVIOUS
    <3>3. PICK prot : prot = Dislocator!Mapped(len)
      OBVIOUS
    <3>4. PICK k : k = n + PageCount(c) + 1
      OBVIOUS
    <3>5. HeapOK(blocks \cup {c}, prot, k) /\ c \in Block /\ FencePage(c) >= n
      BY <2>1, <3>1, <3>3, <3>4, AddBlock
    <3>6. k \in Nat
      BY <3>4, <3>5, BlockNumbers
    <3>7. b \in blocks \cup {c} /\ b.live
      BY <1>5 DEF Dislocator!realloc, Dislocator!Live
    <3>8. c # b
      <4>1. FencePage(b) \in 0 .. n - 1
        BY DEF HeapOK, Placed
      <4> QED
        BY <3>5, <4>1
    <3>9. HeapOK(((blocks \cup {c}) \ {b}) \cup {f},
                 [p \in DOMAIN prot |-> IF p \in Dislocator!PagesOf(b) THEN "none" ELSE prot[p]], k)
      <4> DEFINE all == blocks \cup {c}
      <4>1. HeapOK(all, prot, k) /\ b \in all /\ b.live
        BY <3>5, <3>7
      <4> HIDE DEF all
      <4>2. HeapOK((all \ {b}) \cup {f},
                   [p \in DOMAIN prot |-> IF p \in Dislocator!PagesOf(b) THEN "none" ELSE prot[p]], k)
        BY <3>2, <4>1, FreeBlock
      <4> QED
        BY <4>2 DEF all
    <3>10. blocks' = (blocks \ {b}) \cup {f, c}
           /\ protection' = [p \in DOMAIN prot |-> IF p \in Dislocator!PagesOf(b) THEN "none" ELSE prot[p]]
      BY <1>5, <2>3, <3>1, <3>2, <3>3 DEF Dislocator!realloc
    <3>11. ((blocks \cup {c}) \ {b}) \cup {f} = (blocks \ {b}) \cup {f, c}
      BY <3>8
    <3> QED
      BY <3>6, <3>9, <3>10, <3>11
  <2> QED
    BY <2>2, <2>3
<1> QED
  BY <1>2, <1>3, <1>4, <1>5 DEF Dislocator!Next

(* In a heap that is in order every live block can be touched to its       *)
(* fence, and no freed one.                                                *)
LEMMA HeapFenced == ASSUME NEW n \in Nat, HeapOK(blocks, protection, n) PROVE Dislocator!Fenced
<1>1. ASSUME NEW b \in blocks
      PROVE  /\ b \in Block /\ Placed(b, n) /\ (b.live => b.len = b.asked) /\ b.ret + b.len = PAGE_SIZE * FencePage(b)
             /\ \A p \in OwnPages(b) : protection[p] = IF b.live THEN "rw" ELSE "none"
             /\ protection[FencePage(b)] = "none" /\ Dislocator!PagesOf(b) = OwnPages(b)
             /\ FencePage(b) \in Int /\ b.ret \in Int /\ b.len \in Nat
  <2>1. b \in Block /\ Placed(b, n) /\ (b.live => b.len = b.asked) /\ protection[FencePage(b)] = "none"
          /\ \A p \in OwnPages(b) : protection[p] = IF b.live THEN "rw" ELSE "none"
    BY DEF HeapOK
  <2>2. Dislocator!PagesOf(b) = OwnPages(b)
    BY <2>1, PagesFound
  <2>3. FencePage(b) \in Int /\ b.ret \in Int /\ b.len \in Nat
    BY <2>1, BlockNumbers DEF Block
  <2>4. b.ret + b.len = PAGE_SIZE * FencePage(b)
    BY <2>1 DEF Placed
  <2> QED
    BY <2>1, <2>2, <2>3, <2>4
<1>2. ASSUME NEW b \in blocks
      PROVE  (b.ret + b.len) % PAGE_SIZE = 0 /\ (b.ret + b.len) \div PAGE_SIZE = FencePage(b)
  <2>1. PICK f \in Int, a \in Int : f = FencePage(b) /\ a = b.ret + b.len /\ a = PAGE_SIZE * f
    BY <1>1
  <2>2. a % PAGE_SIZE = 0 /\ a \div PAGE_SIZE = f
    BY <2>1, DislocatorAssumption, QuotientOf
  <2> QED
    BY <2>1, <2>2
<1>3. ASSUME NEW b \in blocks, NEW a \in b.ret - Header .. b.ret + b.len - 1
      PROVE  protection[a \div PAGE_SIZE] = IF b.live THEN "rw" ELSE "none"
  <2>1. a \div PAGE_SIZE \in OwnPages(b)
    BY <1>1, AddressesOwn
  <2> QED
    BY <1>1, <2>1
<1>4. ASSUME NEW b \in blocks \ Dislocator!Live, NEW a \in b.ret - Header .. b.ret + b.len
      PROVE  protection[a \div PAGE_SIZE] = "none"
  <2>1. ~b.live
    BY DEF Dislocator!Live
  <2>2. a = b.ret + b.len \/ a \in b.ret - Header .. b.ret + b.len - 1
    BY <1>1, DislocatorAssumption
  <2> QED
    BY <1>1, <1>2, <1>3, <2>1, <2>2
<1>5. ASSUME NEW p \in DOMAIN protection, protection[p] = "rw"
      PROVE  \E b \in Dislocator!Live : \A c \in Dislocator!Live : p \in Dislocator!PagesOf(c) <=> c = b
  <2>1. p \in 0 .. n - 1 /\ p \in Int
    BY DEF HeapOK
  <2>2. PICK b \in blocks : b.live /\ p \in OwnPages(b)
    BY <1>5, <2>1 DEF HeapOK
  <2>3. b \in Dislocator!Live
    BY <2>2 DEF Dislocator!Live
  <2>4. ASSUME NEW c \in Dislocator!Live PROVE p \in Dislocator!PagesOf(c) <=> c = b
    <3>1. c \in blocks /\ Dislocator!PagesOf(c) = OwnPages(c) /\ Dislocator!PagesOf(b) = OwnPages(b)
      BY <1>1 DEF Dislocator!Live
    <3>2. p \in OwnPages(c) => c = b
      BY <2>1, <2>2, <3>1 DEF HeapOK
    <3> QED
      BY <2>2, <3>1, <3>2
  <2> QED
    BY <2>3, <2>4
<1>6. Dislocator!Live \subseteq blocks /\ \A b \in Dislocator!Live : b.live
  BY DEF Dislocator!Live
<1>7. \A b \in Dislocator!Live :
         /\ b.len = b.asked
         /\ \A a \in b.ret - Header .. b.ret + b.len - 1 : protection[a \div PAGE_SIZE] = "rw"
         /\ (b.ret + b.len) % PAGE_SIZE = 0
         /\ protection[(b.ret + b.len) \div PAGE_SIZE] = "none"
  BY <1>1, <1>2, <1>3, <1>6
<1> QED
  BY <1>4, <1>5, <1>7 DEF Dislocator!Fenced

(* Every block of libdislocator has the pages its size needs for itself,   *)
(* between fences, for any size of a page and any requests.                *)
LEMMA DislocatorSound == Spec => [](running = "dislocator" => Dislocator!Fenced)
<1>1. FencedInv /\ [Next]_vars => FencedInv'
  <2> SUFFICES ASSUME FencedInv, [Next]_vars, running' = "dislocator"
               PROVE  \E k \in Nat : HeapOK(blocks', protection', k)
    BY DEF FencedInv, HeapOK, Placed, OwnPages, FencePage, PageCount
  <2>1. running = "dislocator" /\ (Dislocator!Next \/ UNCHANGED vars)
    BY Steps
  <2>2. PICK n \in Nat : HeapOK(blocks, protection, n)
    BY <2>1 DEF FencedInv
  <2>3. CASE UNCHANGED vars
    <3>1. UNCHANGED <<blocks, protection>>
      BY <2>3 DEF vars, heapVars
    <3> QED
      BY <2>2, <3>1
  <2> QED
    BY <2>1, <2>2, <2>3, HeapSteps
<1>2. FencedInv => (running = "dislocator" => Dislocator!Fenced)
  BY HeapFenced DEF FencedInv
<1> QED
  BY HeapInit, <1>1, <1>2, PTL DEF Spec

-----------------------------------------------------------------------------
(* The heap of alloc-inl.h                                                 *)

AnyByte == {"zero", "data", "junk", "tail"}
Chunks  == [magic : {"junk", "used", "freed"}, size : Nat, bytes : Seq(AnyByte)]

\* What a caller may find in a buffer.
Clean == {"zero", "data"}

\* The head and the tail are in order, and the buffer is clean.
ChunkOK(e) ==
    /\ e.magic = "used" /\ e.size \in Nat \ {0}
    /\ e.bytes[e.size + 1] = "tail" /\ \A k \in 1 .. e.size : e.bytes[k] \in Clean

(* What is appended is the last element.                                   *)
LEMMA AppendTo ==
    ASSUME NEW T, NEW n \in Nat, NEW f \in [1 .. n -> T], NEW e \in T
    PROVE  /\ f \in Seq(T) /\ Append(f, e) \in Seq(T) /\ Append(f, e)[n + 1] = e
           /\ \A k \in 1 .. n : Append(f, e)[k] = f[k]
<1>1. f \in Seq(T) /\ Len(f) = n
  OBVIOUS
<1> QED
  BY <1>1

(* A head and a tail around a clean buffer are in order.                   *)
LEMMA TailBehind ==
    ASSUME NEW n \in Nat, NEW f \in [1 .. n -> Clean]
    PROVE  /\ Append(f, "tail") \in Seq(AnyByte)
           /\ Append(f, "tail")[n + 1] = "tail" /\ \A k \in 1 .. n : Append(f, "tail")[k] \in Clean
<1>1. "tail" \in AnyByte /\ Clean \subseteq AnyByte
  BY DEF Clean, AnyByte
<1>2. f \in [1 .. n -> AnyByte]
  BY <1>1
<1> DEFINE new == Append(f, "tail")
<1>3. new \in Seq(AnyByte) /\ new[n + 1] = "tail" /\ \A k \in 1 .. n : new[k] = f[k]
  BY <1>1, <1>2, AppendTo
<1> HIDE DEF new
<1>4. \A k \in 1 .. n : new[k] \in Clean
  BY <1>3
<1> QED
  BY <1>3, <1>4 DEF new

(* A chunk of ck_alloc has its magic numbers around a buffer of its size.  *)
LEMMA ChunkGood ==
    ASSUME NEW n \in Nat \ {0}, NEW f \in [1 .. n -> Clean]
    PROVE  AllocInl!Chunk(n, f) \in Chunks /\ ChunkOK(AllocInl!Chunk(n, f))
<1>1. PICK t \in Seq(AnyByte) : t = Append(f, "tail")
  BY TailBehind
<1>2. t[n + 1] = "tail" /\ \A k \in 1 .. n : t[k] \in Clean
  BY <1>1, TailBehind
<1>3. AllocInl!Chunk(n, f) = [magic |-> "used", size |-> n, bytes |-> t]
  BY <1>1 DEF AllocInl!Chunk, AllocInl!C1, AllocInl!C2
<1> DEFINE e == [magic |-> "used", size |-> n, bytes |-> t]
<1>4. e \in Chunks
  BY DEF Chunks
<1>5. e.magic = "used" /\ e.size = n /\ e.bytes = t
  OBVIOUS
<1> HIDE DEF e
<1>6. ChunkOK(e)
  BY <1>2, <1>5 DEF ChunkOK
<1> QED
  BY <1>3, <1>4, <1>6 DEF e

(* In such a chunk the buffer holds no garbage.                            *)
LEMMA BufferClean ==
    ASSUME NEW n \in Nat, NEW byte \in Clean
    PROVE  AllocInl!Buffer(n, byte) \in [1 .. n -> Clean]
  BY DEF AllocInl!Buffer

\* A list of what is tracked holds each buffer in use once, and is no longer than the heap.
ListOK(list, S) ==
    /\ list \in Seq(Addresses \cup {"NULL"})
    /\ \A a \in Addresses : a \in S <=> \E k \in DOMAIN list : list[k] = a
    /\ \A k, l \in DOMAIN list : list[k] = list[l] /\ list[k] # "NULL" => k = l
    /\ Len(list) <= Cardinality(Addresses)

(* The least of a set of slots is one of them.                             *)
LEMMA LeastSlot ==
    ASSUME NEW T \in SUBSET Nat, T # {}
    PROVE  AllocInl!Min(T) \in T
<1>1. \E low \in T : \A k \in T : low <= k
  BY LeastElement
<1> QED
  BY <1>1 DEF AllocInl!Min

(* TRK_alloc_buf enters the buffer in a free slot of its bucket, or in a   *)
(* new one.                                                                *)
LEMMA Track ==
    ASSUME NEW S \in SUBSET Addresses, NEW list, ListOK(list, S), NEW a \in Addresses \ S,
           NEW new, new = AllocInl!TRK_alloc_buf(list, a)
    PROVE  ListOK(new, S \cup {a})
<1> DEFINE N == Len(list)
           empty == {k \in DOMAIN list : list[k] = "NULL"}
<1>1. list \in Seq(Addresses \cup {"NULL"}) /\ N \in Nat /\ DOMAIN list = 1 .. N /\ a # "NULL"
  BY AllocAssumption DEF ListOK
<1>2. ASSUME NEW k \in DOMAIN list PROVE list[k] # a /\ list[k] \in Addresses \cup {"NULL"}
  BY <1>1 DEF ListOK
<1>3. CASE empty # {}
  <2>1. PICK x \in empty : x = AllocInl!Min(empty)
    <3>1. empty \in SUBSET Nat
      BY <1>1
    <3> HIDE DEF empty
    <3> QED
      BY <1>3, <3>1, LeastSlot
  <2>2. new = [list EXCEPT ![x] = a]
    BY <1>3, <2>1 DEF AllocInl!TRK_alloc_buf, AllocInl!NULL
  <2>3. x \in 1 .. N /\ list[x] = "NULL"
    BY <1>1, <2>1
  <2>4. new \in Seq(Addresses \cup {"NULL"}) /\ Len(new) = N /\ DOMAIN new = 1 .. N
    BY <1>1, <2>2, <2>3
  <2>5. new[x] = a /\ \A k \in 1 .. N : k # x => new[k] = list[k]
    BY <1>1, <2>2, <2>3
  <2>6. \A b \in Addresses : b \in S \cup {a} <=> \E k \in DOMAIN new : new[k] = b
    <3>1. \A b \in Addresses : b \in S <=> \E k \in 1 .. N : list[k] = b
      BY <1>1 DEF ListOK
    <3> QED
      BY <2>3, <2>4, <2>5, <3>1, AllocAssumption
  <2>7. \A k, l \in DOMAIN new : new[k] = new[l] /\ new[k] # "NULL" => k = l
    <3>1. \A k, l \in 1 .. N : list[k] = list[l] /\ list[k] # "NULL" => k = l
      BY <1>1 DEF ListOK
    <3> QED
      BY <1>1, <1>2, <2>4, <2>5, <3>1
  <2> QED
    BY <2>4, <2>6, <2>7 DEF ListOK
<1>4. CASE empty = {}
  <2>1. new = Append(list, a)
    BY <1>4 DEF AllocInl!TRK_alloc_buf, AllocInl!NULL
  <2>2. new \in Seq(Addresses \cup {"NULL"}) /\ Len(new) = N + 1 /\ DOMAIN new = 1 .. N + 1
    BY <1>1, <2>1
  <2>3. new[N + 1] = a /\ \A k \in 1 .. N : new[k] = list[k]
    BY <1>1, <2>1
  <2>4. \A k \in 1 .. N + 1 : k \in 1 .. N \/ k = N + 1
    BY <1>1
  <2>5. \A b \in Addresses : b \in S \cup {a} <=> \E k \in DOMAIN new : new[k] = b
    <3>1. \A b \in Addresses : b \in S <=> \E k \in 1 .. N : list[k] = b
      BY <1>1 DEF ListOK
    <3>2. \A k \in 1 .. N : k \in 1 .. N + 1
      BY <1>1
    <3>3. N + 1 \in 1 .. N + 1
      BY <1>1
    <3> QED
      BY <2>2, <2>3, <2>4, <3>1, <3>2, <3>3
  <2>6. \A k, l \in DOMAIN new : new[k] = new[l] => k = l
    <3>1. \A k, l \in 1 .. N : list[k] = list[l] => k = l
      BY <1>1, <1>4 DEF ListOK
    <3> QED
      BY <1>1, <1>2, <2>2, <2>3, <2>4, <3>1
  <2>7. \A k \in DOMAIN new : new[k] \in Addresses
    BY <1>1, <1>2, <1>4, <2>2, <2>3, <2>4
  <2>8. N + 1 <= Cardinality(Addresses)
    <3>1. new \in [1 .. N + 1 -> Addresses]
      BY <2>2, <2>7
    <3>2. new \in Injection(1 .. N + 1, Addresses)
      <4>1. \A k, l \in 1 .. N + 1 : new[k] = new[l] => k = l
        BY <2>2, <2>6
      <4> HIDE DEF N
      <4> QED
        BY <3>1, <4>1 DEF Injection, IsInjective
    <3>3. Cardinality(1 .. N + 1) <= Cardinality(Addresses)
      BY <3>2, AllocAssumption, FS_Injection
    <3>4. Cardinality(1 .. N + 1) = N + 1
      <4>1. 1 \in Int /\ N + 1 \in Int /\ ~(1 > N + 1)
        BY <1>1
      <4>2. Cardinality(1 .. N + 1) = N + 1 - 1 + 1
        BY <4>1, FS_Interval
      <4> QED
        BY <1>1, <4>2
    <3> QED
      BY <3>3, <3>4
  <2> QED
    BY <2>2, <2>5, <2>6, <2>8 DEF ListOK
<1> QED
  BY <1>3, <1>4

(* TRK_free_buf clears the slot of the buffer.                             *)
LEMMA Untrack ==
    ASSUME NEW S \in SUBSET Addresses, NEW list, ListOK(list, S), NEW a \in S,
           NEW new, new = AllocInl!TRK_free_buf(list, a)
    PROVE  ListOK(new, S \ {a})
<1> DEFINE N == Len(list)
           at == {k \in DOMAIN list : list[k] = a}
<1>1. list \in Seq(Addresses \cup {"NULL"}) /\ N \in Nat /\ DOMAIN list = 1 .. N /\ a # "NULL" /\ a \in Addresses
  BY AllocAssumption DEF ListOK
<1>2. at # {} /\ at \in SUBSET Nat
  BY <1>1 DEF ListOK
<1>3. PICK x \in at : x = AllocInl!Min(at)
  <2> HIDE DEF at
  <2> QED BY <1>2, LeastSlot
<1>4. new = [list EXCEPT ![x] = "NULL"]
  BY <1>3 DEF AllocInl!TRK_free_buf, AllocInl!NULL
<1>5. x \in 1 .. N /\ list[x] = a
  BY <1>1, <1>3
<1>6. new \in Seq(Addresses \cup {"NULL"}) /\ Len(new) = N /\ DOMAIN new = 1 .. N
  BY <1>1, <1>4, <1>5
<1>7. new[x] = "NULL" /\ \A k \in 1 .. N : k # x => new[k] = list[k]
  BY <1>1, <1>4, <1>5
<1>8. \A k, l \in 1 .. N : list[k] = list[l] /\ list[k] # "NULL" => k = l
  BY <1>1 DEF ListOK
<1>9. \A b \in Addresses : b \in S \ {a} <=> \E k \in DOMAIN new : new[k] = b
  <2>1. \A b \in Addresses : b \in S <=> \E k \in 1 .. N : list[k] = b
    BY <1>1 DEF ListOK
  <2>2. \A b \in Addresses : b # "NULL"
    BY AllocAssumption
  <2> QED
    BY <1>1, <1>5, <1>6, <1>7, <1>8, <2>1, <2>2
<1>10. \A k, l \in DOMAIN new : new[k] = new[l] /\ new[k] # "NULL" => k = l
  BY <1>6, <1>7, <1>8
<1> QED
  BY <1>6, <1>9, <1>10 DEF ListOK

AllocTypes ==
    /\ DEBUG_BUILD \in BOOLEAN /\ abort \in {"no", "bad request"}
    /\ live \subseteq Addresses /\ heap \in [Addresses -> Chunks]
    /\ \A a \in live : ChunkOK(heap[a])
    /\ DEBUG_BUILD => ListOK(TRK, live)

AllocInv == running = "alloc" => AllocTypes

(* An empty heap with empty buckets is in order.                           *)
LEMMA AllocInit == Init => AllocInv
<1> SUFFICES ASSUME Init, running = "alloc" PROVE AllocTypes
  BY DEF AllocInv
<1>1. AllocInl!Init
  BY DEF Init
<1>2. <<>> \in Seq(AnyByte)
  OBVIOUS
<1>3. [magic |-> "junk", size |-> 0, bytes |-> <<>>] \in Chunks
  BY <1>2 DEF Chunks
<1>4. heap \in [Addresses -> Chunks]
  BY <1>1, <1>3 DEF AllocInl!Init
<1>5. ListOK(TRK, live)
  <2>1. TRK = <<>> /\ live = {}
    BY <1>1 DEF AllocInl!Init
  <2>2. Cardinality(Addresses) \in Nat
    BY AllocAssumption, FS_CardinalityType
  <2> QED
    BY <2>1, <2>2 DEF ListOK
<1>6. DEBUG_BUILD \in BOOLEAN /\ abort = "no" /\ live = {}
  BY <1>1 DEF AllocInl!Init
<1> QED
  BY <1>4, <1>5, <1>6 DEF AllocTypes

(* CHECK_PTR finds nothing wrong with a buffer in use.                     *)
LEMMA PointerGood ==
    ASSUME AllocTypes, NEW a \in live
    PROVE  a \in Addresses /\ heap[a] \in Chunks /\ ChunkOK(heap[a]) /\ AllocInl!CHECK_PTR(a) = "no"
  BY DEF AllocTypes, ChunkOK, AllocInl!CHECK_PTR, AllocInl!C1, AllocInl!C2

(* A heap in which the chunks in use are in order stays one when one       *)
(* buffer is given up and a good chunk is put somewhere.                   *)
LEMMA HeapMoved ==
    ASSUME AllocTypes, NEW a \in Addresses, NEW b \in Addresses, NEW e \in Chunks, ChunkOK(e),
           NEW h, h = [AllocInl!Freed(heap, a) EXCEPT ![b] = e]
    PROVE  h \in [Addresses -> Chunks] /\ \A x \in (live \ {a}) \cup {b} : ChunkOK(h[x])
<1>1. heap \in [Addresses -> Chunks] /\ live \subseteq Addresses /\ \A x \in live : ChunkOK(heap[x])
  BY DEF AllocTypes
<1> DEFINE f == AllocInl!Freed(heap, a)
<1>2. f \in [Addresses -> Chunks] /\ \A x \in Addresses \ {a} : f[x] = heap[x]
  <2>1. PICK g \in Chunks : g = [heap[a] EXCEPT !.magic = "freed"]
    <3>1. heap[a] \in Chunks
      BY <1>1
    <3>2. \A r \in Chunks : [r EXCEPT !.magic = "freed"] \in Chunks
      BY DEF Chunks
    <3> QED
      BY <3>1, <3>2
  <2>2. f = [heap EXCEPT ![a] = g]
    BY <1>1, <2>1 DEF AllocInl!Freed, AllocInl!F
  <2> QED
    BY <1>1, <2>2
<1> HIDE DEF f
<1>3. h = [f EXCEPT ![b] = e]
  BY DEF f
<1> QED
  BY <1>1, <1>2, <1>3

(* A good chunk at a new address leaves the heap in order.                 *)
LEMMA HeapFilled ==
    ASSUME AllocTypes, NEW b \in Addresses, NEW e \in Chunks, ChunkOK(e), NEW h, h = [heap EXCEPT ![b] = e]
    PROVE  h \in [Addresses -> Chunks] /\ \A x \in live \cup {b} : ChunkOK(h[x])
<1>1. heap \in [Addresses -> Chunks] /\ live \subseteq Addresses /\ \A x \in live : ChunkOK(heap[x])
  BY DEF AllocTypes
<1> QED
  BY <1>1

(* What a buffer is after it has been made larger or smaller is clean.     *)
LEMMA GrownClean ==
    ASSUME AllocTypes, NEW a \in live, NEW n \in Nat
    PROVE  AllocInl!Grown(a, n) \in [1 .. n -> Clean]
<1>1. heap[a].size \in Nat /\ \A k \in 1 .. heap[a].size : heap[a].bytes[k] \in Clean
  BY PointerGood DEF ChunkOK
<1> DEFINE size == heap[a].size
           bytes == heap[a].bytes
           last == size + (IF DEBUG_BUILD THEN 0 ELSE 1)
<1>2. AllocInl!Grown(a, n) = [k \in 1 .. n |-> IF k > size THEN "zero" ELSE IF k <= last THEN bytes[k] ELSE "junk"]
  BY DEF AllocInl!Grown
<1>3. last >= size
  BY <1>1
<1> HIDE DEF size, bytes, last
<1>4. \A k \in 1 .. n : ~(k > size) => k \in 1 .. size /\ ~(k > last) /\ k <= last
  BY <1>1, <1>3 DEF size, last
<1>5. \A k \in 1 .. n : (IF k > size THEN "zero" ELSE IF k <= last THEN bytes[k] ELSE "junk") \in Clean
  <2>1. "zero" \in Clean
    BY DEF Clean
  <2>2. \A k \in 1 .. size : bytes[k] \in Clean
    BY <1>1 DEF size, bytes
  <2> QED
    BY <1>4, <2>1, <2>2
<1> QED
  BY <1>2, <1>5

(* DFL_ck_alloc returns a clean buffer that is tracked.                    *)
LEMMA Allocated ==
    ASSUME AllocTypes, NEW n \in Nat, NEW byte \in Clean, AllocInl!Allocate(n, byte)
    PROVE  AllocTypes'
<1>1. n \in Nat \ {0}
  <2>1. n > 0
    BY Zenon DEF AllocInl!Allocate
  <2> QED
    BY <2>1
<1>2. CASE n > MAX_ALLOC
  <2>1. abort' = "bad request" /\ UNCHANGED <<DEBUG_BUILD, heap, TRK, live>>
    BY <1>2 DEF AllocInl!Allocate, AllocInl!Abort
  <2> QED
    BY <2>1 DEF AllocTypes, ListOK
<1>3. CASE ~(n > MAX_ALLOC)
  <2>1. PICK a \in Addresses \ live :
          /\ heap' = [heap EXCEPT ![a] = AllocInl!Chunk(n, AllocInl!Buffer(n, byte))]
          /\ TRK' = (IF DEBUG_BUILD THEN AllocInl!TRK_alloc_buf(TRK, a) ELSE TRK)
          /\ live' = live \cup {a} /\ UNCHANGED <<DEBUG_BUILD, abort>>
    BY <1>3 DEF AllocInl!Allocate, AllocInl!Track
  <2>2. PICK e \in Chunks : e = AllocInl!Chunk(n, AllocInl!Buffer(n, byte)) /\ ChunkOK(e)
    BY <1>1, BufferClean, ChunkGood
  <2>3. heap' = [heap EXCEPT ![a] = e]
    BY <2>1, <2>2
  <2>4. heap' \in [Addresses -> Chunks] /\ \A x \in live \cup {a} : ChunkOK(heap'[x])
    BY <2>2, <2>3, HeapFilled
  <2>5. DEBUG_BUILD => ListOK(TRK', live \cup {a})
    <3> SUFFICES ASSUME DEBUG_BUILD PROVE ListOK(TRK', live \cup {a})
      OBVIOUS
    <3>1. TRK' = AllocInl!TRK_alloc_buf(TRK, a)
      BY <2>1
    <3>2. ListOK(TRK, live) /\ live \in SUBSET Addresses
      BY DEF AllocTypes
    <3> QED
      BY <3>1, <3>2, Track
  <2> QED
    BY <2>1, <2>4, <2>5 DEF AllocTypes, ListOK
<1> QED
  BY <1>2, <1>3

(* DFL_ck_realloc moves what is tracked with the buffer.                   *)
LEMMA Reallocated ==
    ASSUME AllocTypes, NEW a \in live, NEW n \in Nat \ {0}, AllocInl!Reallocate(a, n)
    PROVE  AllocTypes'
<1>1. AllocInl!CHECK_PTR(a) = "no" /\ a \in Addresses
  BY PointerGood
<1>2. CASE n > MAX_ALLOC
  <2>1. abort' = "bad request" /\ UNCHANGED <<DEBUG_BUILD, heap, TRK, live>>
    BY <1>1, <1>2 DEF AllocInl!Reallocate, AllocInl!Abort
  <2> QED
    BY <2>1 DEF AllocTypes, ListOK
<1>3. CASE ~(n > MAX_ALLOC)
  <2>1. PICK b \in IF DEBUG_BUILD THEN Addresses \ live ELSE (Addresses \ live) \cup {a} :
          /\ heap' = [AllocInl!Freed(heap, a) EXCEPT ![b] = AllocInl!Chunk(n, AllocInl!Grown(a, n))]
          /\ TRK' = (IF DEBUG_BUILD THEN AllocInl!TRK_alloc_buf(AllocInl!TRK_free_buf(TRK, a), b) ELSE TRK)
          /\ live' = (live \ {a}) \cup {b} /\ UNCHANGED <<DEBUG_BUILD, abort>>
    BY <1>1, <1>3 DEF AllocInl!Reallocate, AllocInl!TrackMove, AllocInl!Track
  <2>2. b \in Addresses /\ (DEBUG_BUILD => b \notin live)
    BY <1>1, <2>1
  <2>3. PICK e \in Chunks : e = AllocInl!Chunk(n, AllocInl!Grown(a, n)) /\ ChunkOK(e)
    BY GrownClean, ChunkGood
  <2>4. heap' = [AllocInl!Freed(heap, a) EXCEPT ![b] = e]
    BY <2>1, <2>3
  <2>5. heap' \in [Addresses -> Chunks] /\ \A x \in (live \ {a}) \cup {b} : ChunkOK(heap'[x])
    BY <1>1, <2>2, <2>3, <2>4, HeapMoved
  <2>6. DEBUG_BUILD => ListOK(TRK', (live \ {a}) \cup {b})
    <3> SUFFICES ASSUME DEBUG_BUILD PROVE ListOK(TRK', (live \ {a}) \cup {b})
      OBVIOUS
    <3>1. PICK list : list = AllocInl!TRK_free_buf(TRK, a)
      OBVIOUS
    <3>2. ListOK(TRK, live) /\ live \in SUBSET Addresses
      BY DEF AllocTypes
    <3>3. PICK S : S = live \ {a}
      OBVIOUS
    <3>4. ListOK(list, S) /\ S \in SUBSET Addresses /\ b \in Addresses \ S
      BY <2>2, <3>1, <3>2, <3>3, Untrack
    <3>5. TRK' = AllocInl!TRK_alloc_buf(list, b)
      BY <2>1, <3>1
    <3> QED
      BY <3>3, <3>4, <3>5, Track
  <2>7. live' \subseteq Addresses
    BY <2>1, <2>2 DEF AllocTypes
  <2> QED
    BY <2>1, <2>5, <2>6, <2>7 DEF AllocTypes, ListOK
<1> QED
  BY <1>2, <1>3

(* Every call of a correct caller keeps the heap and the buckets in order. *)
LEMMA AllocSteps == ASSUME AllocTypes, AllocInl!Next PROVE AllocTypes'
<1> USE AllocAssumption
<1>1. ASSUME NEW n \in AllocSizes, AllocInl!ck_alloc(n) \/ AllocInl!ck_memdup(n) PROVE AllocTypes'
  <2>1. "zero" \in Clean /\ "data" \in Clean /\ n \in Nat
    BY DEF Clean
  <2> QED
    BY <1>1, <2>1, Allocated DEF AllocInl!ck_alloc, AllocInl!ck_memdup
<1>2. ASSUME NEW a \in Addresses, AllocInl!ck_free(a) PROVE AllocTypes'
  <2>1. a \in live /\ AllocInl!CHECK_PTR(a) = "no" /\ heap \in [Addresses -> Chunks]
    BY <1>2, PointerGood DEF AllocInl!ck_free, AllocTypes
  <2>2. heap' = AllocInl!Freed(heap, a) /\ live' = live \ {a} /\ UNCHANGED <<DEBUG_BUILD, abort>>
          /\ TRK' = (IF DEBUG_BUILD THEN AllocInl!TRK_free_buf(TRK, a) ELSE TRK)
    BY <1>2, <2>1 DEF AllocInl!ck_free, AllocInl!Track
  <2>3. PICK g \in Chunks : g = [heap[a] EXCEPT !.magic = "freed"]
    <3>1. heap[a] \in Chunks
      BY <2>1
    <3>2. \A r \in Chunks : [r EXCEPT !.magic = "freed"] \in Chunks
      BY DEF Chunks
    <3> QED
      BY <3>1, <3>2
  <2>4. heap' = [heap EXCEPT ![a] = g]
    BY <2>1, <2>2, <2>3 DEF AllocInl!Freed, AllocInl!F
  <2>5. heap' \in [Addresses -> Chunks] /\ \A x \in live \ {a} : heap'[x] = heap[x]
    BY <2>1, <2>4 DEF AllocTypes
  <2>6. DEBUG_BUILD => ListOK(TRK', live \ {a})
    <3> SUFFICES ASSUME DEBUG_BUILD PROVE ListOK(TRK', live \ {a})
      OBVIOUS
    <3>1. TRK' = AllocInl!TRK_free_buf(TRK, a)
      BY <2>2
    <3>2. ListOK(TRK, live) /\ live \in SUBSET Addresses
      BY DEF AllocTypes
    <3> QED
      BY <2>1, <3>1, <3>2, Untrack
  <2>7. \A x \in live \ {a} : ChunkOK(heap'[x])
    BY <2>5 DEF AllocTypes
  <2> QED
    BY <2>2, <2>5, <2>6, <2>7 DEF AllocTypes, ListOK
<1>3. ASSUME NEW a \in Addresses, NEW n \in AllocSizes, AllocInl!ck_realloc(a, n) PROVE AllocTypes'
  <2>1. a \in live /\ n \in Nat \ {0} /\ AllocInl!Reallocate(a, n)
    BY <1>3 DEF AllocInl!ck_realloc
  <2> QED
    BY <2>1, Reallocated
<1>4. ASSUME NEW a \in Addresses, NEW n \in AllocSizes, AllocInl!ck_realloc_block(a, n) PROVE AllocTypes'
  <2>1. a \in live /\ n \in Nat \ {0}
    BY <1>4 DEF AllocInl!ck_realloc_block
  <2>2. AllocInl!Reallocate(a, n) \/ AllocInl!Reallocate(a, n + ALLOC_BLK_INC)
    BY <1>4, <2>1, PointerGood DEF AllocInl!ck_realloc_block
  <2>3. PICK more \in Nat \ {0} : more = n + ALLOC_BLK_INC
    BY <2>1
  <2> QED
    BY <2>1, <2>2, <2>3, Reallocated
<1>5. ASSUME NEW a \in Addresses, AllocInl!Write(a) PROVE AllocTypes'
  <2>1. a \in live /\ heap \in [Addresses -> Chunks] /\ UNCHANGED <<DEBUG_BUILD, TRK, live, abort>>
    BY <1>5 DEF AllocInl!Write, AllocTypes
  <2>2. heap[a] \in Chunks /\ ChunkOK(heap[a]) /\ heap[a].size \in Nat \ {0}
    BY <2>1, PointerGood DEF ChunkOK
  <2>3. PICK n \in Nat \ {0} : n = heap[a].size
    BY <2>2
  <2>4. PICK t \in Seq(AnyByte) : t = Append(AllocInl!Buffer(n, "data"), "tail")
                                  /\ t[n + 1] = "tail" /\ \A k \in 1 .. n : t[k] \in Clean
    <3>1. "data" \in Clean
      BY DEF Clean
    <3>2. PICK f \in [1 .. n -> Clean] : f = AllocInl!Buffer(n, "data")
      BY <3>1, BufferClean
    <3> QED
      BY <3>2, TailBehind
  <2>5. PICK e \in Chunks : e = [heap[a] EXCEPT !.bytes = t] /\ e.bytes = t /\ e.size = n /\ e.magic = "used"
    <3>1. \A r \in Chunks : [r EXCEPT !.bytes = t] \in Chunks /\ [r EXCEPT !.bytes = t].bytes = t
                              /\ [r EXCEPT !.bytes = t].size = r.size /\ [r EXCEPT !.bytes = t].magic = r.magic
      BY DEF Chunks
    <3>2. heap[a].magic = "used"
      BY <2>2 DEF ChunkOK
    <3> QED
      BY <2>2, <2>3, <3>1, <3>2
  <2>6. ChunkOK(e)
    BY <2>4, <2>5 DEF ChunkOK
  <2>7. heap' = [heap EXCEPT ![a] = e]
    BY <1>5, <2>1, <2>3, <2>4, <2>5 DEF AllocInl!Write, AllocInl!C2
  <2>8. heap' \in [Addresses -> Chunks] /\ \A x \in live : ChunkOK(heap'[x])
    BY <2>1, <2>6, <2>7 DEF AllocTypes
  <2> QED
    BY <2>1, <2>8 DEF AllocTypes, ListOK
<1> QED
  BY <1>1, <1>2, <1>3, <1>4, <1>5 DEF AllocInl!Next

(* The component's own name of the number of elements.                     *)
LEMMA SameCardinalityOfAlloc == ASSUME NEW S PROVE AllocInl!Cardinality(S) = Cardinality(S)
  BY DEF AllocInl!Cardinality, Cardinality

(* A heap in order has clean buffers and tracks what is in use.            *)
LEMMA AllocGood == ASSUME AllocTypes PROVE AllocInl!BuffersClean /\ AllocInl!TrackedIsLive
<1>1. AllocInl!BuffersClean
  <2>1. \A a \in live : AllocInl!CHECK_PTR(a) = "no" /\ ChunkOK(heap[a])
    BY PointerGood
  <2>2. abort \in {"no", "bad request"}
    BY DEF AllocTypes
  <2> QED
    BY <2>1, <2>2 DEF AllocInl!BuffersClean, ChunkOK, Clean
<1>2. ASSUME DEBUG_BUILD, NEW a \in Addresses
      PROVE  AllocInl!Cardinality(AllocInl!Slots(a)) = IF a \in live THEN 1 ELSE 0
  <2>1. ListOK(TRK, live)
    BY <1>2 DEF AllocTypes
  <2>2. a # "NULL"
    BY AllocAssumption
  <2>3. CASE a \in live
    <3>1. PICK k \in DOMAIN TRK : TRK[k] = a
      BY <2>1, <2>3 DEF ListOK
    <3>2. AllocInl!Slots(a) = {k}
      BY <2>1, <2>2, <3>1 DEF ListOK, AllocInl!Slots
    <3> QED
      BY <2>3, <3>2, SameCardinalityOfAlloc, FS_Singleton
  <2>4. CASE a \notin live
    <3>1. AllocInl!Slots(a) = {}
      BY <2>1, <2>4 DEF ListOK, AllocInl!Slots
    <3> QED
      BY <2>4, <3>1, SameCardinalityOfAlloc, FS_EmptySet
  <2> QED
    BY <2>3, <2>4
<1>3. DEBUG_BUILD => Len(TRK) <= AllocInl!Cardinality(Addresses)
  BY SameCardinalityOfAlloc DEF AllocTypes, ListOK
<1> QED
  BY <1>1, <1>2, <1>3 DEF AllocInl!TrackedIsLive

(* No correct caller of alloc-inl.h is accused, buffers hold what was put  *)
(* there, and DEBUG_BUILD tracks each once, for all addresses and sizes.   *)
LEMMA AllocSound == Spec => [](running = "alloc" => AllocInl!BuffersClean /\ AllocInl!TrackedIsLive)
<1>1. AllocInv /\ [Next]_vars => AllocInv'
  <2> SUFFICES ASSUME AllocInv, [Next]_vars, running' = "alloc" PROVE AllocTypes'
    BY DEF AllocInv
  <2>1. running = "alloc" /\ (AllocInl!Next \/ UNCHANGED vars)
    BY Steps
  <2>2. AllocTypes
    BY <2>1 DEF AllocInv
  <2>3. CASE UNCHANGED vars
    <3>1. UNCHANGED allocVars
      BY <2>3 DEF vars
    <3> QED
      BY <2>2, <3>1 DEF allocVars, AllocTypes, ListOK
  <2> QED
    BY <2>1, <2>2, <2>3, AllocSteps
<1>2. AllocInv => (running = "alloc" => AllocInl!BuffersClean /\ AllocInl!TrackedIsLive)
  BY AllocGood DEF AllocInv
<1> QED
  BY AllocInit, <1>1, <1>2, PTL DEF Spec

(* The two allocators are right, for all values of their constants.        *)
THEOREM HeapsAreSound == Spec => []HeapsSound
  BY DislocatorSound, AllocSound, PTL DEF HeapsSound
-----------------------------------------------------------------------------
(* afl-tmin                                                                *)

\* There is a power of two above every length.
FileOK(f) == f \in Seq(Nat) /\ \E p \in Minimizer!Power2 : Len(f) <= p

MinTypes ==
    /\ FileOK(in_data)
    /\ pos \in Nat /\ block \in Nat
    /\ stage = "delete" => block # 0

\* What is kept was run, and nothing is written before the end.
Kept ==
    /\ accepted # {} => in_data \in accepted
    /\ out_file = Minimizer!NotYet \/ out_file = in_data
    /\ out_file = Minimizer!NotYet \/ stage = "done" \/ stage = "stopped"
    /\ stage = "dry run" => accepted = {}
    /\ stage = "characters" => tmp_buf = in_data

\* The first n characters of a file were tried to be deleted, each alone.
TriedTo(n) == \A k \in DOMAIN in_data : k <= n => Minimizer!Without(in_data, k) \in rejected

\* In a pass that has changed nothing.
Tried ==
    /\ stage = "delete" /\ ~prev_del => block <= pos
    /\ stage = "delete" /\ block = 1 /\ ~changed_any => TriedTo(pos)
    /\ (stage = "symbols" \/ stage = "characters") /\ ~changed_any => TriedTo(Len(in_data))
    /\ stage = "done" => TriedTo(Len(in_data))

MinInv == running = "tmin" => MinTypes /\ Kept /\ Tried

(* Minimizing begins in order.                                             *)
LEMMA MinInit == Init => MinInv
<1> SUFFICES ASSUME Init, running = "tmin" PROVE MinTypes /\ Kept /\ Tried
  BY DEF MinInv
<1>1. Minimizer!Init
  BY DEF Init
<1>2. FileOK(in_data)
  <2>1. in_data \in MinimizedFiles
    BY <1>1 DEF Minimizer!Init
  <2> QED
    BY <2>1, MinimizerAssumption DEF FileOK
<1>3. MinTypes
  BY <1>1, <1>2 DEF Minimizer!Init, MinTypes
<1>4. Kept
  BY <1>1 DEF Minimizer!Init, Kept
<1>5. Tried
  BY <1>1 DEF Minimizer!Init, Tried
<1> QED
  BY <1>3, <1>4, <1>5

(* The least power of two above a number is positive.                      *)
LEMMA PowerFound ==
    ASSUME NEW n \in Nat, NEW high \in Minimizer!Power2, n <= high
    PROVE  Minimizer!next_p2(n) \in Nat \ {0}
<1> DEFINE T == {p \in Minimizer!Power2 : p >= n}
<1>1. Minimizer!Power2 \subseteq Nat \ {0}
  BY MinimizerAssumption
<1>2. T \in SUBSET Nat /\ high \in T
  BY <1>1
<1>3. PICK low \in T : \A k \in T : low <= k
  BY <1>2, LeastElement
<1>4. low \in Minimizer!Power2 /\ low >= n /\ \A r \in Minimizer!Power2 : r >= n => r >= low
  BY <1>1, <1>3
<1>5. Minimizer!next_p2(n) \in Minimizer!Power2
  BY <1>4 DEF Minimizer!next_p2
<1> QED
  BY <1>1, <1>5

(* So are the lengths of the first blocks.                                 *)
LEMMA BlockPositive ==
    ASSUME NEW f, FileOK(f), NEW s \in Nat \ {0}
    PROVE  Minimizer!next_p2(Len(f) \div s) \in Nat \ {0}
<1>1. PICK high \in Minimizer!Power2 : Len(f) <= high
  BY DEF FileOK
<1>2. PICK n \in Nat : n = Len(f) /\ n <= high /\ high \in Nat
  BY <1>1, MinimizerAssumption DEF FileOK
<1>3. s * 0 <= n /\ n < s * (n + 1)
  <2>1. s * (n + 1) = s * n + s
    BY <1>2
  <2>2. s * n >= n
    OBVIOUS
  <2>3. PICK sn \in Int : sn = s * n
    OBVIOUS
  <2> QED
    BY <2>1, <2>2, <2>3
<1>4. n \div s \in 0 .. (n + 1) - 1
  BY <1>3, QuotientWithin
<1>5. n \div s \in Nat /\ n \div s <= high
  BY <1>2, <1>4
<1> QED
  BY <1>2, <1>5, PowerFound

(* Replacing characters leaves a file.                                     *)
LEMMA ZeroedIs == ASSUME NEW f, FileOK(f), NEW S PROVE FileOK(Minimizer!Zeroed(f, S))
<1>1. PICK n \in Nat : n = Len(f) /\ f \in [1 .. n -> Nat]
  BY DEF FileOK
<1>2. DOMAIN f = 1 .. n
  BY <1>1
<1>3. Minimizer!Zeroed(f, S) \in [1 .. n -> Nat]
  BY <1>1, <1>2 DEF Minimizer!Zeroed, Minimizer!Char0
<1>4. Minimizer!Zeroed(f, S) \in Seq(Nat) /\ Len(Minimizer!Zeroed(f, S)) = n
  BY <1>3, SeqDef
<1> QED
  BY <1>1, <1>4 DEF FileOK

(* A part of a file.                                                       *)
LEMMA PartOf ==
    ASSUME NEW f \in Seq(Nat), NEW x \in Nat \ {0}, NEW y \in 0 .. Len(f)
    PROVE  /\ SubSeq(f, x, y) \in Seq(Nat)
           /\ Len(SubSeq(f, x, y)) = IF x <= y THEN y - x + 1 ELSE 0
           /\ \A j \in 1 .. y - x + 1 : SubSeq(f, x, y)[j] = f[x + j - 1]
<1>1. \A k \in x .. y : f[k] \in Nat
  OBVIOUS
<1>2. x \in Int /\ y \in Int
  OBVIOUS
<1> QED
  BY <1>1, <1>2, SubSeqProperties

(* So does deleting a block.                                               *)
LEMMA WithoutBlockIs ==
    ASSUME FileOK(in_data), pos \in Nat, block \in Nat, pos < Len(in_data)
    PROVE  FileOK(Minimizer!WithoutBlock)
<1>1. PICK f \in Seq(Nat) : f = in_data /\ Len(f) \in Nat
  BY DEF FileOK
<1>2. pos \in 0 .. Len(f) /\ 1 \in Nat \ {0}
  BY <1>1
<1>3. PICK a \in Seq(Nat) : a = SubSeq(f, 1, pos) /\ Len(a) = pos
  <2>1. SubSeq(f, 1, pos) \in Seq(Nat) /\ Len(SubSeq(f, 1, pos)) = IF 1 <= pos THEN pos - 1 + 1 ELSE 0
    BY <1>2, PartOf, Zenon
  <2>2. (IF 1 <= pos THEN pos - 1 + 1 ELSE 0) = pos
    OBVIOUS
  <2> QED
    BY <2>1, <2>2, Zenon
<1>4. PICK x \in Nat \ {0} : x = pos + block + 1 /\ Len(f) \in 0 .. Len(f)
  BY <1>1
<1>5. PICK b \in Seq(Nat) : b = SubSeq(f, x, Len(f)) /\ Len(b) = IF x <= Len(f) THEN Len(f) - x + 1 ELSE 0
  BY <1>4, PartOf
<1>6. Len(b) <= Len(f) - pos
  BY <1>1, <1>4, <1>5
<1>7. Minimizer!WithoutBlock = a \o b
  BY <1>1, <1>3, <1>4, <1>5 DEF Minimizer!WithoutBlock
<1>8. a \o b \in Seq(Nat) /\ Len(a \o b) = pos + Len(b)
  BY <1>3, ConcatProperties
<1>9. PICK high \in Minimizer!Power2 : Len(f) <= high /\ high \in Nat
  BY <1>1, MinimizerAssumption DEF FileOK
<1>10. Len(a \o b) <= high
  BY <1>1, <1>6, <1>8, <1>9
<1> QED
  BY <1>7, <1>8, <1>9, <1>10 DEF FileOK

(* A file without one of its characters, element by element.               *)
LEMMA WithoutIs ==
    ASSUME NEW f \in Seq(Nat), NEW k \in 1 .. Len(f)
    PROVE  /\ Minimizer!Without(f, k) \in Seq(Nat)
           /\ Len(Minimizer!Without(f, k)) = Len(f) - 1
           /\ \A j \in 1 .. Len(f) - 1 :
                Minimizer!Without(f, k)[j] = IF j < k THEN f[j] ELSE f[j + 1]
<1>1. PICK n \in Nat : n = Len(f) /\ k \in 1 .. n
  OBVIOUS
<1>2. 1 \in Nat \ {0} /\ k - 1 \in 0 .. Len(f) /\ k + 1 \in Nat \ {0} /\ Len(f) \in 0 .. Len(f)
  BY <1>1
<1>3. PICK a \in Seq(Nat) : a = SubSeq(f, 1, k - 1) /\ (Len(a) = IF 1 <= k - 1 THEN k - 1 - 1 + 1 ELSE 0)
                            /\ \A j \in 1 .. k - 1 - 1 + 1 : a[j] = f[1 + j - 1]
  BY <1>2, PartOf
<1>4. Len(a) = k - 1 /\ \A j \in 1 .. k - 1 : a[j] = f[j]
  BY <1>1, <1>3
<1>5. PICK b \in Seq(Nat) : b = SubSeq(f, k + 1, Len(f))
                            /\ (Len(b) = IF k + 1 <= Len(f) THEN Len(f) - (k + 1) + 1 ELSE 0)
                            /\ \A j \in 1 .. Len(f) - (k + 1) + 1 : b[j] = f[k + 1 + j - 1]
  BY <1>2, PartOf
<1>6. Len(b) = n - k /\ \A j \in 1 .. n - k : b[j] = f[j + k]
  BY <1>1, <1>5
<1>7. Minimizer!Without(f, k) = a \o b
  BY <1>3, <1>5 DEF Minimizer!Without
<1> DEFINE c == a \o b
<1>8. /\ c \in Seq(Nat) /\ Len(c) = Len(a) + Len(b)
      /\ \A j \in 1 .. Len(a) + Len(b) : c[j] = IF j <= Len(a) THEN a[j] ELSE b[j - Len(a)]
  BY ConcatProperties
<1> HIDE DEF c
<1>9. Len(c) = n - 1 /\ \A j \in 1 .. n - 1 : c[j] = IF j <= k - 1 THEN a[j] ELSE b[j - (k - 1)]
  <2>1. Len(a) + Len(b) = n - 1
    <3>1. Len(a) = k - 1 /\ Len(b) = n - k
      BY <1>4, <1>6, Zenon
    <3>2. k \in Nat /\ n \in Nat /\ (k - 1) + (n - k) = n - 1
      BY <1>1
    <3> QED
      BY <3>1, <3>2, Zenon
  <2> QED
    BY <1>4, <1>8, <2>1, Zenon
<1>10. ASSUME NEW j \in 1 .. n - 1 PROVE c[j] = IF j < k THEN f[j] ELSE f[j + 1]
  <2>1. CASE j < k
    BY <1>1, <1>4, <1>9, <2>1
  <2>2. CASE ~(j < k)
    <3>1. PICK o \in 1 .. n - k : o = j - (k - 1) /\ o + k = j + 1
      BY <1>1, <2>2
    <3>2. c[j] = b[o]
      BY <1>1, <1>9, <2>2, <3>1
    <3>3. b[o] = f[j + 1]
      BY <1>6, <3>1
    <3> QED
      BY <2>2, <3>2, <3>3
  <2> QED
    BY <2>1, <2>2
<1> QED
  BY <1>1, <1>7, <1>8, <1>9, <1>10 DEF c

(* Of two equal characters side by side it does not matter which one goes. *)
LEMMA SameDeleted ==
    ASSUME NEW f \in Seq(Nat), NEW p \in 1 .. Len(f) - 1, f[p] = f[p + 1]
    PROVE  Minimizer!Without(f, p) = Minimizer!Without(f, p + 1)
<1>1. p \in 1 .. Len(f) /\ p + 1 \in 1 .. Len(f)
  OBVIOUS
<1>2. PICK a : a = Minimizer!Without(f, p) /\ a \in Seq(Nat) /\ Len(a) = Len(f) - 1
               /\ \A j \in 1 .. Len(f) - 1 : a[j] = IF j < p THEN f[j] ELSE f[j + 1]
  BY <1>1, WithoutIs
<1>3. PICK b : b = Minimizer!Without(f, p + 1) /\ b \in Seq(Nat) /\ Len(b) = Len(f) - 1
               /\ \A j \in 1 .. Len(f) - 1 : b[j] = IF j < p + 1 THEN f[j] ELSE f[j + 1]
  BY <1>1, WithoutIs
<1>4. ASSUME NEW j \in 1 .. Len(f) - 1 PROVE a[j] = b[j]
  <2>1. j < p \/ j = p \/ j >= p + 1
    OBVIOUS
  <2>2. /\ a[j] = IF j < p THEN f[j] ELSE f[j + 1]
        /\ b[j] = IF j < p + 1 THEN f[j] ELSE f[j + 1]
    BY <1>2, <1>3, Zenon
  <2>3. j = p => ~(j < p) /\ j < p + 1
    OBVIOUS
  <2>4. j < p => j < p + 1
    OBVIOUS
  <2>5. j >= p + 1 => ~(j < p) /\ ~(j < p + 1)
    OBVIOUS
  <2> QED
    BY <2>1, <2>2, <2>3, <2>4, <2>5, Zenon
<1>5. a = b
  BY <1>2, <1>3, <1>4, SeqEqual
<1> QED
  BY <1>2, <1>3, <1>5

(* What a run adds to the history.                                         *)
LEMMA RunAdds ==
    ASSUME NEW f, NEW keep, Minimizer!Run(f, keep)
    PROVE  /\ keep => accepted' = accepted \cup {f} /\ rejected' = rejected
           /\ ~keep => accepted' = accepted /\ rejected' = rejected \cup {f}
  BY DEF Minimizer!Run

(* A pass begins with blocks of a length.                                  *)
LEMMA PassBegins ==
    ASSUME FileOK(in_data), Minimizer!NextPass(in_data)
    PROVE  /\ stage' = "delete" /\ pos' = 0 /\ block' \in Nat \ {0}
           /\ prev_del' = TRUE /\ changed_any' = FALSE
  BY BlockPositive, MinimizerAssumption DEF Minimizer!NextPass, Minimizer!FirstDelLen
(* A step that changes neither the file nor what is known of it.           *)
LEMMA FileStays ==
    ASSUME MinTypes, Kept, in_data' = in_data, accepted' = accepted, rejected' = rejected
    PROVE  FileOK(in_data)' /\ (accepted # {} => in_data \in accepted)'
  BY DEF MinTypes, Kept

(* A file that is run and kept, or not.                                    *)
LEMMA FileRun ==
    ASSUME MinTypes, Kept, NEW f, FileOK(f), NEW keep \in BOOLEAN, Minimizer!Run(f, keep),
           in_data' = (IF keep THEN f ELSE in_data), changed_any' = (changed_any \/ keep)
    PROVE  /\ FileOK(in_data)' /\ (accepted # {} => in_data \in accepted)'
           /\ ~changed_any' => ~keep /\ ~changed_any /\ in_data' = in_data
           /\ rejected \subseteq rejected' /\ (~keep => f \in rejected')
<1>1. CASE keep
  <2>1. in_data' = f /\ accepted' = accepted \cup {f} /\ rejected' = rejected
    BY <1>1, RunAdds
  <2>2. FileOK(in_data)'
    BY <2>1, Zenon DEF FileOK, Minimizer!Power2
  <2> QED
    BY <1>1, <2>1, <2>2
<1>2. CASE ~keep
  <2>1. in_data' = in_data /\ accepted' = accepted /\ rejected' = rejected \cup {f}
    BY <1>2, RunAdds
  <2> QED
    BY <1>2, <2>1 DEF MinTypes, Kept
<1> QED
  BY <1>1, <1>2

(* Every step of minimizing keeps the file, and the record of what was tried, in order. *)
LEMMA MinSteps ==
    ASSUME MinTypes, Kept, Tried, Minimizer!Next
    PROVE  MinTypes' /\ Kept' /\ Tried'
<1> USE DEF Minimizer!position, Minimizer!modes, Minimizer!history
<1>0. FileOK(in_data) /\ in_data \in Seq(Nat) /\ Len(in_data) \in Nat /\ DOMAIN in_data = 1 .. Len(in_data)
  BY DEF MinTypes, FileOK
<1>1. CASE Minimizer!DryRun
  <2>1. stage = "dry run" /\ in_data' = in_data /\ pos' = pos /\ out_file' = out_file
          /\ rejected' = rejected
    BY <1>1 DEF Minimizer!DryRun
  <2>2. \/ stage' = "failed" /\ block' = block /\ accepted' = accepted
        \/ stage' = "normalize" /\ block' = Minimizer!SetLen /\ accepted' = {in_data}
    BY <1>1 DEF Minimizer!DryRun
  <2>3. Minimizer!SetLen \in Nat
    BY <1>0, BlockPositive, MinimizerAssumption DEF Minimizer!SetLen
  <2>4. FileOK(in_data)' /\ pos' \in Nat /\ block' \in Nat
    BY <2>1, <2>2, <2>3 DEF MinTypes
  <2>5. stage' # "delete" /\ stage' # "dry run" /\ stage' # "characters" /\ stage' # "symbols"
          /\ stage' # "done"
    BY <2>2
  <2>6. (accepted # {} => in_data \in accepted)'
    BY <2>1, <2>2 DEF Kept
  <2>7. out_file' = Minimizer!NotYet
    BY <2>1 DEF Kept
  <2> QED
    BY <2>4, <2>5, <2>6, <2>7 DEF MinTypes, Kept, Tried
<1>2. CASE Minimizer!Stop
  <2>1. stage' = "stopped" /\ out_file' = in_data /\ in_data' = in_data /\ pos' = pos
          /\ block' = block /\ accepted' = accepted /\ rejected' = rejected
    BY <1>2 DEF Minimizer!Stop
  <2>2. FileOK(in_data)' /\ (accepted # {} => in_data \in accepted)'
    BY <2>1, FileStays
  <2> QED
    BY <2>1, <2>2 DEF MinTypes, Kept, Tried
<1>3. CASE Minimizer!NormalizeBlock
  <2>1. stage = "normalize" /\ stage' = stage /\ out_file' = out_file /\ block' = block
          /\ pos' = pos + block
    BY <1>3 DEF Minimizer!NormalizeBlock
  <2>2. FileOK(in_data)' /\ (accepted # {} => in_data \in accepted)'
    <3>1. PICK f : f = Minimizer!Zeroed(in_data, pos + 1 .. Minimizer!EndOf(block)) /\ FileOK(f)
      BY <1>0, ZeroedIs
    <3>2. CASE f = in_data
      <4>1. in_data' = in_data /\ accepted' = accepted /\ rejected' = rejected
        BY <1>3, <3>1, <3>2 DEF Minimizer!NormalizeBlock
      <4> QED
        BY <4>1, FileStays
    <3>3. CASE f # in_data
      <4>1. PICK keep \in BOOLEAN : Minimizer!Run(f, keep) /\ in_data' = (IF keep THEN f ELSE in_data)
                                     /\ changed_any' = (changed_any \/ keep)
        BY <1>3, <3>1, <3>3 DEF Minimizer!NormalizeBlock
      <4> QED
        BY <3>1, <4>1, FileRun
    <3> QED
      BY <3>2, <3>3
  <2>3. pos' \in Nat /\ block' \in Nat
    BY <2>1 DEF MinTypes
  <2>4. out_file' = Minimizer!NotYet
    BY <2>1 DEF Kept
  <2> QED
    BY <2>1, <2>2, <2>3, <2>4 DEF MinTypes, Kept, Tried
<1>4. ASSUME Minimizer!NextPass(in_data), out_file = Minimizer!NotYet,
             UNCHANGED <<in_data, out_file, accepted, rejected>>
      PROVE  MinTypes' /\ Kept' /\ Tried'
  <2>1. stage' = "delete" /\ pos' = 0 /\ block' \in Nat \ {0} /\ prev_del' = TRUE
    BY <1>0, <1>4, PassBegins
  <2>2. FileOK(in_data)' /\ (accepted # {} => in_data \in accepted)'
    BY <1>4, FileStays
  <2>3. TriedTo(pos)'
    <3>1. in_data' = in_data /\ \A k \in DOMAIN in_data : ~(k <= 0)
      BY <1>0, <1>4
    <3> QED
      BY <2>1, <3>1 DEF TriedTo
  <2> QED
    BY <1>4, <2>1, <2>2, <2>3 DEF MinTypes, Kept, Tried
<1>5. CASE Minimizer!EndNormalization
  <2>1. stage = "normalize" /\ Minimizer!NextPass(in_data) /\ UNCHANGED <<in_data, out_file, accepted, rejected>>
    BY <1>5 DEF Minimizer!EndNormalization
  <2>2. out_file = Minimizer!NotYet
    BY <2>1 DEF Kept
  <2> QED
    BY <1>4, <2>1, <2>2
<1>6. CASE Minimizer!SkipBlock
  <2>1. stage = "delete" /\ stage' = stage /\ pos < Len(in_data) /\ Minimizer!RepeatsLast
          /\ pos' = pos + block
          /\ UNCHANGED <<in_data, block, prev_del, changed_any, out_file, accepted, rejected>>
    BY <1>6 DEF Minimizer!SkipBlock
  <2>2. FileOK(in_data)' /\ (accepted # {} => in_data \in accepted)'
    BY <2>1, FileStays
  <2>3. pos \in Nat /\ block \in Nat /\ block # 0 /\ block <= pos /\ pos + block < Len(in_data)
    BY <2>1 DEF MinTypes, Tried, Minimizer!RepeatsLast
  <2>4. pos' \in Nat /\ block' \in Nat /\ block' # 0 /\ block' <= pos'
    BY <2>1, <2>3
  <2>5. ASSUME block = 1, ~changed_any PROVE TriedTo(pos)'
    <3>1. in_data[pos] = in_data[pos + 1]
      <4>1. PICK a : a = SubSeq(in_data, pos, pos) /\ a = SubSeq(in_data, pos + 1, pos + 1)
        <5>1. SubSeq(in_data, pos - 1 + 1, pos) = SubSeq(in_data, pos + 1, pos + 1)
          BY <2>1, <2>5, Zenon DEF Minimizer!RepeatsLast
        <5>2. pos - 1 + 1 = pos
          BY <2>3
        <5> QED
          BY <5>1, <5>2, Zenon
      <4>2. \A x \in 1 .. Len(in_data) : SubSeq(in_data, x, x)[1] = in_data[x]
        BY <1>0
      <4>3. pos \in 1 .. Len(in_data) /\ pos + 1 \in 1 .. Len(in_data)
        BY <1>0, <2>3
      <4>4. a[1] = in_data[pos] /\ a[1] = in_data[pos + 1]
        BY <4>1, <4>2, <4>3, Zenon
      <4> QED
        BY <4>4
    <3>2. pos \in 1 .. Len(in_data) - 1
      BY <1>0, <2>3, <2>5
    <3>3. Minimizer!Without(in_data, pos) = Minimizer!Without(in_data, pos + 1)
      BY <1>0, <3>1, <3>2, SameDeleted
    <3>4. TriedTo(pos)
      BY <2>1, <2>5 DEF Tried
    <3>5. Minimizer!Without(in_data, pos + 1) \in rejected
      <4>1. pos \in DOMAIN in_data /\ pos <= pos
        BY <1>0, <3>2
      <4> QED
        BY <3>3, <3>4, <4>1 DEF TriedTo
    <3>6. \A k \in DOMAIN in_data : k <= pos + 1 => k <= pos \/ k = pos + 1
      BY <1>0, <2>3
    <3>7. \A k \in DOMAIN in_data : k <= pos + 1 => Minimizer!Without(in_data, k) \in rejected
      BY <3>4, <3>5, <3>6 DEF TriedTo
    <3> QED
      BY <2>1, <2>5, <3>7 DEF TriedTo
  <2>6. out_file' = Minimizer!NotYet
    BY <2>1 DEF Kept
  <2> QED
    BY <2>1, <2>2, <2>4, <2>5, <2>6 DEF MinTypes, Kept, Tried
<1>7. CASE Minimizer!DeleteBlock
  <2>1. PICK keep \in BOOLEAN :
          /\ Minimizer!Run(Minimizer!WithoutBlock, keep)
          /\ in_data' = (IF keep THEN Minimizer!WithoutBlock ELSE in_data)
          /\ prev_del' = keep
          /\ pos' = (IF keep THEN pos ELSE pos + block)
          /\ changed_any' = (changed_any \/ keep)
    BY <1>7 DEF Minimizer!DeleteBlock
  <2>2. stage = "delete" /\ stage' = stage /\ pos < Len(in_data) /\ block' = block /\ out_file' = out_file
    BY <1>7 DEF Minimizer!DeleteBlock
  <2>3. pos \in Nat /\ block \in Nat /\ block # 0
    BY <2>2 DEF MinTypes
  <2>4. PICK f : f = Minimizer!WithoutBlock /\ FileOK(f)
    BY <1>0, <2>2, <2>3, WithoutBlockIs
  <2>5. /\ FileOK(in_data)' /\ (accepted # {} => in_data \in accepted)'
        /\ ~changed_any' => ~keep /\ ~changed_any /\ in_data' = in_data
        /\ rejected \subseteq rejected' /\ (~keep => f \in rejected')
    BY <2>1, <2>4, FileRun
  <2>6. pos' \in Nat /\ block' \in Nat /\ block' # 0 /\ (~prev_del' => block' <= pos')
    BY <2>1, <2>2, <2>3
  <2>7. ASSUME block' = 1, ~changed_any' PROVE TriedTo(pos)'
    <3>1. block = 1 /\ ~changed_any /\ ~keep /\ in_data' = in_data /\ pos' = pos + 1 /\ f \in rejected'
      BY <2>1, <2>2, <2>5, <2>7
    <3>2. f = Minimizer!Without(in_data, pos + 1)
      <4>1. pos + 1 - 1 = pos
        BY <2>3
      <4>2. f = SubSeq(in_data, 1, pos) \o SubSeq(in_data, pos + 1 + 1, Len(in_data))
        BY <2>4, <3>1, Zenon DEF Minimizer!WithoutBlock
      <4>3. PICK q : q = pos + 1
        OBVIOUS
      <4>4. q - 1 = pos
        BY <2>3, <4>3
      <4>5. f = SubSeq(in_data, 1, q - 1) \o SubSeq(in_data, q + 1, Len(in_data))
        BY <4>2, <4>3, <4>4, Zenon
      <4>6. Minimizer!Without(in_data, q) = SubSeq(in_data, 1, q - 1) \o SubSeq(in_data, q + 1, Len(in_data))
        BY Zenon DEF Minimizer!Without
      <4>7. f = Minimizer!Without(in_data, q)
        BY <4>5, <4>6, Zenon
      <4> QED
        BY <4>3, <4>7, Zenon
    <3>3. TriedTo(pos)
      BY <2>2, <3>1 DEF Tried
    <3>4. \A k \in DOMAIN in_data : k <= pos + 1 => k <= pos \/ k = pos + 1
      BY <1>0, <2>3
    <3>5. \A k \in DOMAIN in_data : k <= pos + 1 => Minimizer!Without(in_data, k) \in rejected'
      BY <2>5, <3>1, <3>2, <3>3, <3>4 DEF TriedTo
    <3> QED
      BY <3>1, <3>5 DEF TriedTo
  <2>8. out_file' = Minimizer!NotYet
    BY <2>2 DEF Kept
  <2> QED
    BY <2>2, <2>5, <2>6, <2>7, <2>8 DEF MinTypes, Kept, Tried
<1>8. CASE Minimizer!HalveBlock
  <2>1. stage = "delete" /\ stage' = stage /\ block > 1 /\ block' = block \div 2 /\ pos' = 0
          /\ prev_del' = TRUE /\ UNCHANGED <<in_data, out_file, accepted, rejected>>
    BY <1>8 DEF Minimizer!HalveBlock
  <2>2. FileOK(in_data)' /\ (accepted # {} => in_data \in accepted)'
    BY <2>1, FileStays
  <2>3. block' \in Nat /\ block' # 0
    <3>1. PICK n \in Nat : n = block /\ n > 1
      BY <2>1 DEF MinTypes
    <3>2. n \div 2 \in Nat /\ n \div 2 # 0
      BY <3>1
    <3> QED
      BY <2>1, <3>1, <3>2
  <2>4. TriedTo(pos)'
    <3>1. in_data' = in_data /\ \A k \in DOMAIN in_data : ~(k <= 0)
      BY <1>0, <2>1
    <3> QED
      BY <2>1, <3>1 DEF TriedTo
  <2>5. out_file' = Minimizer!NotYet
    BY <2>1 DEF Kept
  <2> QED
    BY <2>1, <2>2, <2>3, <2>4, <2>5 DEF MinTypes, Kept, Tried
<1>9. ASSUME Minimizer!Finalize, TriedTo(Len(in_data)) PROVE MinTypes' /\ Kept' /\ Tried'
  <2>1. stage' = "done" /\ out_file' = in_data
          /\ UNCHANGED <<in_data, pos, block, accepted, rejected>>
    BY <1>9 DEF Minimizer!Finalize
  <2>2. FileOK(in_data)' /\ (accepted # {} => in_data \in accepted)'
    BY <2>1, FileStays
  <2>3. TriedTo(Len(in_data))'
    BY <1>9, <2>1 DEF TriedTo
  <2> QED
    BY <2>1, <2>2, <2>3 DEF MinTypes, Kept, Tried
<1>10. CASE Minimizer!EndDeletion
  <2>1. stage = "delete" /\ pos >= Len(in_data) /\ ~(block > 1 /\ Len(in_data) >= 1)
    BY <1>10 DEF Minimizer!EndDeletion
  <2>2. ~changed_any => TriedTo(Len(in_data))
    <3> SUFFICES ASSUME ~changed_any, NEW k \in DOMAIN in_data
                 PROVE  Minimizer!Without(in_data, k) \in rejected
      BY DEF TriedTo
    <3>1. block = 1
      BY <1>0, <2>1 DEF MinTypes
    <3>2. TriedTo(pos)
      BY <2>1, <3>1 DEF Tried
    <3>3. k <= pos
      BY <1>0, <2>1 DEF MinTypes
    <3> QED
      BY <3>2, <3>3 DEF TriedTo
  <2>3. CASE ~changed_any /\ Minimizer!Finalize
    BY <1>9, <2>2, <2>3
  <2>4. CASE /\ stage' = "symbols" /\ pos' = 0
             /\ UNCHANGED <<in_data, block, changed_any, out_file, accepted, rejected>>
    <3>1. FileOK(in_data)' /\ (accepted # {} => in_data \in accepted)'
      BY <2>4, FileStays
    <3>2. pos' \in Nat /\ block' \in Nat
      BY <2>4 DEF MinTypes
    <3>3. ~changed_any' => TriedTo(Len(in_data))'
      BY <2>2, <2>4 DEF TriedTo
    <3>4. out_file' = Minimizer!NotYet
      BY <2>1, <2>4 DEF Kept
    <3> QED
      BY <2>4, <3>1, <3>2, <3>3, <3>4 DEF MinTypes, Kept, Tried
  <2> QED
    BY <1>10, <2>3, <2>4 DEF Minimizer!EndDeletion
<1>11. CASE Minimizer!ReplaceSymbol
  <2>1. PICK symbol \in Minimizer!Symbols :
          /\ pos' = symbol + 1
          /\ \E keep \in BOOLEAN :
               /\ Minimizer!Run(Minimizer!Zeroed(in_data, {x \in DOMAIN in_data : in_data[x] = symbol}), keep)
               /\ in_data' = IF keep THEN Minimizer!Zeroed(in_data, {x \in DOMAIN in_data : in_data[x] = symbol})
                                     ELSE in_data
               /\ changed_any' = (changed_any \/ keep)
    BY <1>11, Zenon DEF Minimizer!ReplaceSymbol
  <2>2. PICK f : f = Minimizer!Zeroed(in_data, {x \in DOMAIN in_data : in_data[x] = symbol}) /\ FileOK(f)
    BY <1>0, ZeroedIs
  <2>3. PICK keep \in BOOLEAN : Minimizer!Run(f, keep) /\ in_data' = (IF keep THEN f ELSE in_data)
                                  /\ changed_any' = (changed_any \/ keep)
    BY <2>1, <2>2, Zenon
  <2>4. /\ FileOK(in_data)' /\ (accepted # {} => in_data \in accepted)'
        /\ ~changed_any' => ~keep /\ ~changed_any /\ in_data' = in_data
        /\ rejected \subseteq rejected'
    BY <2>2, <2>3, FileRun
  <2>5. stage = "symbols" /\ stage' = stage /\ block' = block /\ out_file' = out_file
    BY <1>11 DEF Minimizer!ReplaceSymbol
  <2>6. pos' \in Nat /\ block' \in Nat
    <3>1. symbol \in Nat
      BY <1>0 DEF Minimizer!Symbols
    <3> QED
      BY <2>1, <2>5, <3>1 DEF MinTypes
  <2>7. ~changed_any' => TriedTo(Len(in_data))'
    BY <2>4, <2>5 DEF Tried, TriedTo
  <2>8. out_file' = Minimizer!NotYet
    BY <2>5 DEF Kept
  <2> QED
    BY <2>4, <2>5, <2>6, <2>7, <2>8 DEF MinTypes, Kept, Tried
<1>12. CASE Minimizer!EndSymbols
  <2>1. stage = "symbols" /\ stage' = "characters" /\ pos' = 0 /\ tmp_buf' = in_data
          /\ UNCHANGED <<in_data, block, changed_any, out_file, accepted, rejected>>
    BY <1>12 DEF Minimizer!EndSymbols
  <2>2. FileOK(in_data)' /\ (accepted # {} => in_data \in accepted)'
    BY <2>1, FileStays
  <2>3. pos' \in Nat /\ block' \in Nat
    BY <2>1 DEF MinTypes
  <2>4. ~changed_any' => TriedTo(Len(in_data))'
    BY <2>1 DEF Tried, TriedTo
  <2>5. out_file' = Minimizer!NotYet
    BY <2>1 DEF Kept
  <2> QED
    BY <2>1, <2>2, <2>3, <2>4, <2>5 DEF MinTypes, Kept, Tried
<1>13. CASE Minimizer!ReplaceCharacter
  <2>1. stage = "characters" /\ stage' = stage /\ pos' = pos + 1 /\ block' = block /\ out_file' = out_file
          /\ tmp_buf = in_data
    BY <1>13 DEF Minimizer!ReplaceCharacter, Kept
  <2>2. /\ FileOK(in_data)' /\ (accepted # {} => in_data \in accepted)'
        /\ ~changed_any' => ~changed_any /\ in_data' = in_data
        /\ rejected \subseteq rejected' /\ tmp_buf' = in_data'
    <3>1. CASE tmp_buf[pos + 1] = Minimizer!Char0
      <4>1. UNCHANGED <<in_data, tmp_buf, changed_any, accepted, rejected>>
        BY <1>13, <3>1 DEF Minimizer!ReplaceCharacter
      <4>2. FileOK(in_data)' /\ (accepted # {} => in_data \in accepted)'
        BY <4>1, FileStays
      <4> QED
        BY <2>1, <4>1, <4>2
    <3>2. CASE tmp_buf[pos + 1] # Minimizer!Char0
      <4>1. PICK f : f = Minimizer!Zeroed(in_data, {pos + 1}) /\ FileOK(f)
        BY <1>0, ZeroedIs
      <4>2. PICK keep \in BOOLEAN : /\ Minimizer!Run(f, keep)
                                    /\ in_data' = (IF keep THEN f ELSE in_data)
                                    /\ tmp_buf' = (IF keep THEN f ELSE in_data)
                                    /\ changed_any' = (changed_any \/ keep)
        BY <1>13, <2>1, <3>2, <4>1, Zenon DEF Minimizer!ReplaceCharacter, Minimizer!PutBack
      <4>3. /\ FileOK(in_data)' /\ (accepted # {} => in_data \in accepted)'
            /\ ~changed_any' => ~keep /\ ~changed_any /\ in_data' = in_data
            /\ rejected \subseteq rejected'
        BY <4>1, <4>2, FileRun
      <4> QED
        BY <4>2, <4>3
    <3> QED
      BY <3>1, <3>2
  <2>3. pos' \in Nat /\ block' \in Nat
    BY <2>1 DEF MinTypes
  <2>4. ~changed_any' => TriedTo(Len(in_data))'
    BY <2>1, <2>2 DEF Tried, TriedTo
  <2>5. out_file' = Minimizer!NotYet
    BY <2>1 DEF Kept
  <2> QED
    BY <2>1, <2>2, <2>3, <2>4, <2>5 DEF MinTypes, Kept, Tried
<1>14. CASE Minimizer!EndCharacters
  <2>1. stage = "characters" /\ out_file = Minimizer!NotYet
    BY <1>14 DEF Minimizer!EndCharacters, Kept
  <2>2. CASE changed_any
    BY <1>4, <1>14, <2>1, <2>2 DEF Minimizer!EndCharacters
  <2>3. CASE ~changed_any
    <3>1. TriedTo(Len(in_data)) /\ Minimizer!Finalize
      BY <1>14, <2>1, <2>3 DEF Minimizer!EndCharacters, Tried
    <3> QED
      BY <1>9, <3>1
  <2> QED
    BY <2>2, <2>3
<1> QED
  BY <1>1, <1>2, <1>3, <1>5, <1>6, <1>7, <1>8, <1>10, <1>11, <1>12, <1>13, <1>14
     DEF Minimizer!Next, Minimizer!Work, Minimizer!Pass

(* What afl-tmin keeps and writes was run and behaved as the original did, *)
(* and of what it ends with every single character was tried to be         *)
(* deleted, for all files, lengths of blocks and targets.                  *)
THEOREM MinimizedIsWell == Spec => []MinimizedWell
<1>1. MinInv /\ [Next]_vars => MinInv'
  <2> SUFFICES ASSUME MinInv, [Next]_vars, running' = "tmin" PROVE MinTypes' /\ Kept' /\ Tried'
    BY DEF MinInv
  <2>1. running = "tmin" /\ (Minimizer!Next \/ UNCHANGED vars)
    BY Steps
  <2>2. MinTypes /\ Kept /\ Tried
    BY <2>1 DEF MinInv
  <2>3. CASE UNCHANGED vars
    <3>1. UNCHANGED <<stage, in_data, out_file, tmp_buf, pos, block, prev_del, changed_any,
                      accepted, rejected>>
      BY <2>3 DEF vars, sharedVars, minimizerVars
    <3> QED
      BY <2>2, <3>1 DEF MinTypes, Kept, Tried, TriedTo, FileOK
  <2> QED
    BY <2>1, <2>2, <2>3, MinSteps
<1>2. MinInv => MinimizedWell
  <2> SUFFICES ASSUME MinInv, running = "tmin" PROVE Minimizer!KeptWasRun /\ Minimizer!Minimal
    BY DEF MinimizedWell
  <2>1. MinTypes /\ Kept /\ Tried
    BY DEF MinInv
  <2>2. Minimizer!KeptWasRun
    BY <2>1 DEF Kept, Minimizer!KeptWasRun
  <2>3. ASSUME stage = "done" PROVE \A k \in DOMAIN in_data : Minimizer!Without(in_data, k) \in rejected
    <3>1. TriedTo(Len(in_data)) /\ in_data \in Seq(Nat)
      BY <2>1, <2>3 DEF Tried, MinTypes, FileOK
    <3>2. \A k \in DOMAIN in_data : k <= Len(in_data)
      BY <3>1
    <3> QED
      BY <3>1, <3>2 DEF TriedTo
  <2> QED
    BY <2>2, <2>3 DEF Minimizer!Minimal
<1> QED
  BY MinInit, <1>1, <1>2, PTL DEF Spec
-----------------------------------------------------------------------------
(* afl-as                                                                  *)

AsTypes ==
    /\ pass_thru \in BOOLEAN /\ clang_mode \in BOOLEAN /\ use_64bit \in BOOLEAN /\ instr_ok \in BOOLEAN
    /\ skip_csect \in BOOLEAN /\ skip_intel \in BOOLEAN /\ skip_app \in BOOLEAN
    /\ instrument_next \in BOOLEAN /\ skip_next_label \in BOOLEAN
    /\ code \in {16, 32, 64} /\ app \in BOOLEAN /\ lost \subseteq {"section", "code"}
    /\ owed \in {"yes", "no", "unknown"}

\* The flags know where the assembler is, and whether a label is still owed its trampoline, but for
\* what a directive has said to one of the two only.
FlagsTrue ==
    IF pass_thru THEN owed # "yes"
    ELSE /\ "section" \notin lost => (instr_ok <=> section = "text")
         /\ skip_intel <=> syntax # "att"
         /\ "code" \notin lost => (skip_csect <=> code # Assembler!Width)
         /\ skip_app <=> app
         /\ lost # {} => owed = "unknown"
         /\ owed = "yes" => instrument_next
         /\ owed = "no" => ~instrument_next

AsInv == running = "as" => AsTypes /\ FlagsTrue

(* A file begins outside .text.                                            *)
LEMMA AsInit == Init => AsInv
<1> SUFFICES ASSUME Init, running = "as" PROVE AsTypes /\ FlagsTrue
  BY DEF AsInv
<1>1. Assembler!Init
  BY DEF Init
<1>2. AsTypes
  <2>1. code \in {16, 32, 64} /\ lost = {} /\ owed = "no"
    BY <1>1 DEF Assembler!Init, Assembler!Width
  <2>2. /\ pass_thru \in BOOLEAN /\ clang_mode \in BOOLEAN /\ use_64bit \in BOOLEAN /\ instr_ok \in BOOLEAN
        /\ skip_csect \in BOOLEAN /\ skip_intel \in BOOLEAN /\ skip_app \in BOOLEAN
        /\ instrument_next \in BOOLEAN /\ skip_next_label \in BOOLEAN /\ app \in BOOLEAN
    BY <1>1, Zenon DEF Assembler!Init
  <2> QED
    BY <2>1, <2>2 DEF AsTypes
<1>3. FlagsTrue
  BY <1>1 DEF Assembler!Init, FlagsTrue
<1> QED
  BY <1>2, <1>3

(* In step, and where nothing is skipped, a trampoline fits.               *)
LEMMA SuitsAre ==
    ASSUME AsTypes, FlagsTrue, ~pass_thru, lost = {}
    PROVE  Assembler!Suits <=> instr_ok /\ ~skip_intel /\ ~skip_csect /\ ~skip_app
  BY DEF AsTypes, FlagsTrue, Assembler!Suits

(* A label changes neither place nor flag but those of labels.             *)
LEMMA LabelStays ==
    ASSUME NEW l, l = "function label" \/ l = "numbered label" \/ l = "clang label" \/ l = "jcc",
           Assembler!ModeSets(l)
    PROVE  /\ instr_ok' = instr_ok /\ skip_csect' = skip_csect
           /\ skip_intel' = skip_intel /\ skip_app' = skip_app
  BY DEF Assembler!ModeSets

(* A line that brings afl-as and the assembler together again is neither   *)
(* an instruction nor a label.                                             *)
LEMMA BackInStep ==
    ASSUME NEW l, lost # {}, Assembler!LostSets(l), lost' = {}
    PROVE  ~Assembler!IsInstruction(l) /\ l # "function label" /\ ~Assembler!IsTarget(l)
<1>1. l \in {"text", "other section", ".code32", ".code64"}
  BY DEF Assembler!LostSets
<1> QED
  BY <1>1 DEF Assembler!IsInstruction, Assembler!IsTarget

(* Every line leaves the flags true.                                       *)
LEMMA AsSteps ==
    ASSUME AsTypes, FlagsTrue, NEW l \in Assembler!Lines, Assembler!ReadLine(l)
    PROVE  AsTypes' /\ FlagsTrue'
<1>1. UNCHANGED <<pass_thru, clang_mode, use_64bit>>
  BY DEF Assembler!ReadLine, Assembler!mode
<1>2. PICK chosen \in BOOLEAN :
        /\ IF pass_thru THEN UNCHANGED Assembler!flags
                        ELSE Assembler!ModeSets(l) /\ Assembler!LabelSets(l, chosen)
        /\ Assembler!OwedSets(l, chosen)
  <2>1. Assembler!Chosen \subseteq BOOLEAN
    BY DEF Assembler!Chosen
  <2> QED
    BY <2>1, Zenon DEF Assembler!ReadLine
<1>3. Assembler!PlaceSets(l) /\ Assembler!LostSets(l)
  BY DEF Assembler!ReadLine
<1>4. /\ code' \in {16, 32, 64} /\ app' \in BOOLEAN /\ lost' \subseteq {"section", "code"}
      /\ owed' \in {"yes", "no", "unknown"}
  <2>1. code' \in {16, 32, 64} /\ app' \in BOOLEAN
    BY <1>3 DEF Assembler!PlaceSets, AsTypes
  <2>2. lost' \subseteq {"section", "code"}
    BY <1>3 DEF Assembler!LostSets, AsTypes
  <2>3. owed' \in {"yes", "no", "unknown"}
    BY <1>2 DEF Assembler!OwedSets, AsTypes
  <2> QED
    BY <2>1, <2>2, <2>3
<1>5. CASE pass_thru
  <2>1. AsTypes'
    BY <1>1, <1>2, <1>4, <1>5 DEF AsTypes, Assembler!flags
  <2>2. owed' # "yes"
    BY <1>2, <1>5 DEF FlagsTrue, Assembler!OwedSets, Assembler!Due
  <2> QED
    BY <1>1, <1>5, <2>1, <2>2 DEF FlagsTrue
<1>6. CASE ~pass_thru
  <2>1. Assembler!ModeSets(l) /\ Assembler!LabelSets(l, chosen)
    BY <1>2, <1>6
  <2>2. instr_ok' \in BOOLEAN /\ skip_csect' \in BOOLEAN /\ skip_intel' \in BOOLEAN /\ skip_app' \in BOOLEAN
    BY <2>1 DEF Assembler!ModeSets, AsTypes
  <2>3. instrument_next' \in BOOLEAN /\ skip_next_label' \in BOOLEAN
    BY <2>1, Zenon DEF Assembler!LabelSets, AsTypes
  <2>4. AsTypes'
    BY <1>1, <1>4, <2>2, <2>3 DEF AsTypes
  <2>5. "section" \notin lost' => (instr_ok' <=> section' = "text")
    BY <1>3, <1>6, <2>1 DEF Assembler!PlaceSets, Assembler!LostSets, Assembler!ModeSets, FlagsTrue
  <2>6. skip_intel' <=> syntax' # "att"
    BY <1>3, <1>6, <2>1 DEF Assembler!PlaceSets, Assembler!ModeSets, FlagsTrue
  <2>7. "code" \notin lost' => (skip_csect' <=> code' # Assembler!Width')
    <3>1. Assembler!Width' = Assembler!Width
      BY <1>1 DEF Assembler!Width
    <3>2. use_64bit \in BOOLEAN /\ Assembler!Width = IF use_64bit THEN 64 ELSE 32
      BY DEF AsTypes, Assembler!Width
    <3>3. "code" \notin lost => (skip_csect <=> code # Assembler!Width)
      BY <1>6 DEF FlagsTrue
    <3>4. /\ code' = CASE l = ".code16" -> 16 [] l = ".code32" -> 32 [] l = ".code64" -> 64 [] OTHER -> code
          /\ skip_csect' = CASE l = ".code32" -> use_64bit [] l = ".code64" -> ~use_64bit [] OTHER -> skip_csect
      BY <1>3, <2>1 DEF Assembler!PlaceSets, Assembler!ModeSets
    <3>5. CASE l = ".code16"
      BY <1>3, <3>5 DEF Assembler!LostSets
    <3>6. CASE l = ".code32"
      BY <3>1, <3>2, <3>4, <3>6
    <3>7. CASE l = ".code64"
      <4>1. skip_csect' = (~use_64bit) /\ code' = 64
        BY <3>4, <3>7
      <4>2. code' # Assembler!Width' <=> ~use_64bit
        BY <3>1, <3>2, <4>1
      <4> QED
        BY <4>1, <4>2, Zenon
    <3>8. CASE l \notin {".code16", ".code32", ".code64"}
      <4>1. "code" \in lost => "code" \in lost'
        BY <1>3, <3>8 DEF Assembler!LostSets
      <4> QED
        BY <3>1, <3>3, <3>4, <3>8, <4>1
    <3> QED
      BY <3>5, <3>6, <3>7, <3>8
  <2>8. skip_app' <=> app'
    BY <1>3, <1>6, <2>1 DEF Assembler!PlaceSets, Assembler!ModeSets, FlagsTrue
  <2>9. /\ lost' # {} => owed' = "unknown"
        /\ owed' = "yes" => instrument_next'
        /\ owed' = "no" => ~instrument_next'
    <3>1. CASE lost' # {}
      BY <1>2, <3>1 DEF Assembler!OwedSets
    <3>2. CASE lost' = {} /\ lost # {}
      <4>1. ~Assembler!IsInstruction(l) /\ l # "function label" /\ ~Assembler!IsTarget(l)
        BY <1>3, <3>2, BackInStep
      <4>2. owed = "unknown"
        BY <1>6, <3>2 DEF FlagsTrue
      <4>3. owed' = owed
        BY <1>2, <3>2, <4>1 DEF Assembler!OwedSets, Assembler!Due
      <4> QED
        BY <3>2, <4>2, <4>3
    <3>3. CASE lost' = {} /\ lost = {}
      <4>1. Assembler!Suits <=> instr_ok /\ ~skip_intel /\ ~skip_csect /\ ~skip_app
        BY <1>6, <3>3, SuitsAre
      <4>2. Assembler!Deferred(l) <=> Assembler!Suits /\ Assembler!IsInstruction(l) /\ instrument_next
        BY <1>6, <4>1 DEF Assembler!Deferred
      <4>3. l = "function label" \/ Assembler!IsTarget(l) =>
              /\ ~Assembler!IsInstruction(l)
              /\ Assembler!Skipping(l) <=> ~Assembler!Suits
        <5> SUFFICES ASSUME l = "function label" \/ l = "numbered label" \/ l = "clang label"
                     PROVE  ~Assembler!IsInstruction(l) /\ (Assembler!Skipping(l) <=> ~Assembler!Suits)
          BY DEF Assembler!IsTarget
        <5>1. ~Assembler!IsInstruction(l)
          BY DEF Assembler!IsInstruction
        <5>2. instr_ok' = instr_ok /\ skip_csect' = skip_csect
                /\ skip_intel' = skip_intel /\ skip_app' = skip_app
          BY <2>1, LabelStays
        <5>3. l \notin {"#APP", "#NO_APP", "comment"}
          OBVIOUS
        <5> QED
          BY <4>1, <5>1, <5>2, <5>3 DEF Assembler!Skipping
      <4>4. instrument_next' <=> \/ instrument_next /\ ~Assembler!Deferred(l)
                                 \/ l = "function label" /\ ~Assembler!Skipping(l)
                                 \/ Assembler!IsTarget(l) /\ chosen /\ ~Assembler!Skipping(l) /\ ~skip_next_label
        BY <2>1, Zenon DEF Assembler!LabelSets
      <4>5. Assembler!Due(l, chosen) <=>
              /\ Assembler!Suits
              /\ l = "function label" \/ (Assembler!IsTarget(l) /\ chosen /\ ~skip_next_label)
        BY <1>6, Zenon DEF Assembler!Due
      <4>6. CASE Assembler!Suits /\ Assembler!IsInstruction(l)
        <5>1. owed' = "no"
          BY <1>2, <3>3, <4>6 DEF Assembler!OwedSets
        <5>2. ~instrument_next'
          BY <4>2, <4>3, <4>4, <4>6, Zenon
        <5> QED
          BY <3>3, <5>1, <5>2
      <4>7. CASE ~(Assembler!Suits /\ Assembler!IsInstruction(l)) /\ Assembler!Due(l, chosen)
        <5>1. owed' = "yes"
          BY <1>2, <3>3, <4>7 DEF Assembler!OwedSets
        <5>2. instrument_next'
          BY <4>3, <4>4, <4>5, <4>7, Zenon
        <5> QED
          BY <3>3, <5>1, <5>2
      <4>8. CASE ~(Assembler!Suits /\ Assembler!IsInstruction(l)) /\ ~Assembler!Due(l, chosen)
        <5>1. owed' = owed
          BY <1>2, <3>3, <4>8 DEF Assembler!OwedSets
        <5>2. instrument_next' <=> instrument_next
          BY <4>2, <4>3, <4>4, <4>5, <4>8, Zenon
        <5>3. (owed = "yes" => instrument_next) /\ (owed = "no" => ~instrument_next)
          BY <1>6 DEF FlagsTrue
        <5> QED
          BY <3>3, <5>1, <5>2, <5>3
      <4> QED
        BY <4>6, <4>7, <4>8
    <3> QED
      BY <3>1, <3>2, <3>3
  <2> QED
    BY <1>1, <1>6, <2>4, <2>5, <2>6, <2>7, <2>8, <2>9 DEF FlagsTrue
<1> QED
  BY <1>5, <1>6

(* Where the flags are true, a line gets the trampolines it should have.   *)
LEMMA LinePutWell == ASSUME AsTypes, FlagsTrue PROVE Assembler!PutWell
<1> SUFFICES ASSUME NEW l \in Assembler!Lines, Assembler!ReadLine(l), lost = {}
             PROVE  /\ put'.before \/ put'.after => Assembler!Suits
                    /\ Assembler!Suits /\ Assembler!IsInstruction(l) /\ owed # "unknown"
                         => (put'.before <=> owed = "yes")
                    /\ Assembler!Suits /\ ~pass_thru => (put'.after <=> l = "jcc" /\ put'.drawn)
  BY DEF Assembler!PutWell
<1>1. PICK chosen : /\ put' = [before |-> Assembler!Deferred(l),
                               after  |-> ~pass_thru /\ l = "jcc" /\ chosen /\ ~Assembler!Skipping(l),
                               drawn  |-> chosen]
                    /\ ~pass_thru => Assembler!ModeSets(l)
  BY Zenon DEF Assembler!ReadLine
<1>2. /\ put'.before <=> Assembler!Deferred(l)
      /\ put'.after <=> ~pass_thru /\ l = "jcc" /\ put'.drawn /\ ~Assembler!Skipping(l)
  <2>1. put'.before = Assembler!Deferred(l)
    BY <1>1
  <2>2. put'.after = (~pass_thru /\ l = "jcc" /\ chosen /\ ~Assembler!Skipping(l))
    BY <1>1
  <2>3. put'.drawn = chosen
    BY <1>1
  <2> QED
    BY <2>1, <2>2, <2>3, Zenon
<1>3. CASE pass_thru
  <2>1. ~Assembler!Deferred(l) /\ owed # "yes"
    BY <1>3 DEF Assembler!Deferred, FlagsTrue
  <2> QED
    BY <1>2, <1>3, <2>1, Zenon
<1>4. CASE ~pass_thru
  <2>1. Assembler!Suits <=> instr_ok /\ ~skip_intel /\ ~skip_csect /\ ~skip_app
    BY <1>4, SuitsAre
  <2>2. Assembler!Deferred(l) <=> Assembler!Suits /\ Assembler!IsInstruction(l) /\ instrument_next
    BY <1>4, <2>1 DEF Assembler!Deferred
  <2>3. l = "jcc" => (Assembler!Skipping(l) <=> ~Assembler!Suits)
    <3> SUFFICES ASSUME l = "jcc" PROVE Assembler!Skipping(l) <=> ~Assembler!Suits
      OBVIOUS
    <3>1. instr_ok' = instr_ok /\ skip_csect' = skip_csect
            /\ skip_intel' = skip_intel /\ skip_app' = skip_app
      BY <1>1, <1>4, LabelStays
    <3>2. l \notin {"#APP", "#NO_APP", "comment"}
      OBVIOUS
    <3> QED
      BY <2>1, <3>1, <3>2 DEF Assembler!Skipping
  <2>4. owed # "unknown" => (instrument_next <=> owed = "yes")
    BY <1>4 DEF AsTypes, FlagsTrue
  <2> QED
    BY <1>2, <1>4, <2>2, <2>3, <2>4, Zenon
<1> QED
  BY <1>3, <1>4

(* In a file of any length, as long as afl-as and the assembler have read  *)
(* every directive alike: trampolines can be assembled where they are put, *)
(* a label that is due one has it at its first instruction, and a jump     *)
(* that is chosen has one behind it.  Nothing is said of a line between a  *)
(* .code16, .pushsection or ".section .text" and the next directive that   *)
(* both know; nor of labels from there on to the next instruction.         *)
THEOREM TrampolinesAlwaysFit == Spec => TrampolinesFit
<1>1. AsInv /\ [Next]_vars => AsInv'
  <2> SUFFICES ASSUME AsInv, [Next]_vars, running' = "as" PROVE AsTypes' /\ FlagsTrue'
    BY DEF AsInv
  <2>1. running = "as" /\ (Assembler!Next \/ UNCHANGED vars)
    BY Steps
  <2>2. AsTypes /\ FlagsTrue
    BY <2>1 DEF AsInv
  <2>3. CASE UNCHANGED vars
    <3>1. UNCHANGED asVars /\ UNCHANGED <<pass_thru, use_64bit>>
      BY <2>3 DEF vars, sharedVars
    <3> QED
      BY <2>2, <3>1 DEF asVars, AsTypes, FlagsTrue, Assembler!Width
  <2>4. CASE Assembler!EndOfFile
    <3>1. UNCHANGED <<pass_thru, clang_mode, use_64bit, instr_ok, skip_csect, skip_next_label,
                      skip_intel, skip_app, instrument_next, section, syntax, code, app, lost, owed>>
      BY <2>4 DEF Assembler!EndOfFile, Assembler!mode, Assembler!flags, Assembler!place
    <3> QED
      BY <2>2, <3>1 DEF AsTypes, FlagsTrue, Assembler!Width
  <2>5. CASE \E l \in Assembler!Lines : Assembler!ReadLine(l)
    BY <2>2, <2>5, AsSteps
  <2> QED
    BY <2>1, <2>3, <2>4, <2>5 DEF Assembler!Next
<1>2. AsInv => [running = "as" => Assembler!PutWell]_asVars
  BY LinePutWell DEF AsInv
<1> QED
  BY AsInit, <1>1, <1>2, PTL DEF Spec, TrampolinesFit
-----------------------------------------------------------------------------
(* The start of afl-fuzz                                                   *)

DryResults == {"none", "tmout", "crash", "error", "noinst", "nobits"}

StartTypes ==
    /\ times \in [StartOptions -> Nat]
    /\ seed \in Nat \ {0} /\ result \in Seq(DryResults) /\ Len(result) = seed - 1
    /\ cal_failures \in Nat
    /\ stage = "options" \/ stage = "set-up" => seed = 1 /\ cal_failures = 0
    /\ timeout_given = 0 \/ timeout_given = 1 \/ timeout_given = 2 \/ (timeout_given = 3 /\ resuming_fuzz)

\* Which options were given can be told from the flags, which two of them may share.
FlagsKnown ==
    /\ "m" \in flag <=> Startup!Given("m")
    /\ "Q" \in flag <=> Startup!Given("Q")
    /\ "n" \in flag <=> Startup!Given("n")
    /\ "C" \in flag <=> Startup!Given("C")
    /\ "sync_id" \in flag <=> Startup!Given("S") \/ Startup!Given("M")
    /\ "force_deterministic" \in flag <=> Startup!Given("M")
    /\ "timeout_given" \in flag <=> Startup!Given("t") \/ Startup!Given("t+")
    /\ skip_deterministic = Startup!Given("d") /\ use_splicing = Startup!Given("d")

SettingsKnown ==
    /\ mem_limit = IF Startup!Given("m") THEN "given" ELSE IF Startup!Given("Q") THEN "qemu" ELSE "default"
    /\ timeout_given = IF Startup!Given("t") THEN 1 ELSE IF Startup!Given("t+") THEN 2 ELSE 0

OptionsKnown ==
    /\ stage = "options" => FlagsKnown /\ SettingsKnown /\ ~(Startup!Given("t") /\ Startup!Given("t+"))
    /\ stage = "set-up" =>
         /\ SettingsKnown /\ skip_deterministic = use_splicing
         /\ skip_deterministic <=> Startup!Given("d") \/ (Startup!Given("S") /\ ~Startup!Given("M"))
         /\ Startup!Given("n") => /\ ~Startup!Given("C") /\ ~Startup!Given("Q")
                                  /\ ~Startup!Given("S") /\ ~Startup!Given("M")

\* A test case so far was passed over or taken; those passed over are counted.
Tolerated(r) == Startup!Skips(r) \/ Startup!Accepts(r)

DryKnown ==
    /\ stage = "dry run" \/ stage = "ready" \/ stage = "fuzzing" =>
         /\ \A k \in 1 .. Len(result) : Tolerated(result[k])
         /\ (\A k \in 1 .. Len(result) : Startup!Skips(result[k])) => cal_failures = Len(result)
         /\ Len(result) <= Seeds
    /\ stage = "ready" \/ stage = "fuzzing" => Len(result) = Seeds /\ cal_failures # Seeds

StartInv == running = "start" => StartTypes /\ OptionsKnown /\ DryKnown

(* At the start no option is given.                                        *)
LEMMA StartInit == Init => StartInv
<1> SUFFICES ASSUME Init, running = "start" PROVE StartTypes /\ OptionsKnown /\ DryKnown
  BY DEF StartInv
<1>1. Startup!Init
  BY DEF Init
<1>2. StartTypes
  <2>1. times = [o \in StartOptions |-> 0] /\ seed = 1 /\ result = <<>> /\ cal_failures = 0 /\ timeout_given = 0
    BY <1>1 DEF Startup!Init
  <2>2. times \in [StartOptions -> Nat]
    BY <2>1
  <2>3. result \in Seq(DryResults) /\ Len(result) = 0
    BY <2>1
  <2> QED
    BY <2>1, <2>2, <2>3 DEF StartTypes
<1>3. OptionsKnown
  <2>1. stage = "options" /\ flag = {} /\ skip_deterministic = FALSE /\ use_splicing = FALSE
          /\ mem_limit = "default" /\ timeout_given = 0 /\ times = [o \in StartOptions |-> 0]
    BY <1>1 DEF Startup!Init
  <2>2. \A x : ~Startup!Given(x)
    BY <2>1 DEF Startup!Given
  <2>3. skip_deterministic = Startup!Given("d") /\ use_splicing = Startup!Given("d")
    <3>1. Startup!Given("d") \in BOOLEAN
      BY Zenon DEF Startup!Given
    <3>2. skip_deterministic = FALSE /\ use_splicing = FALSE
      BY <2>1
    <3> QED
      BY <2>2, <3>1, <3>2, Zenon
  <2>4. FlagsKnown
    BY <2>1, <2>2, <2>3 DEF FlagsKnown
  <2>5. SettingsKnown
    BY <2>1, <2>2 DEF SettingsKnown
  <2> QED
    BY <2>1, <2>2, <2>4, <2>5 DEF OptionsKnown
<1>4. DryKnown
  BY <1>1 DEF Startup!Init, DryKnown
<1> QED
  BY <1>2, <1>3, <1>4

(* An option that comes is one more that was given.                        *)
LEMMA GivenNext ==
    ASSUME NEW o \in StartOptions, times \in [StartOptions -> Nat],
           times' = [times EXCEPT ![o] = @ + 1], NEW x
    PROVE  Startup!Given(x)' <=> Startup!Given(x) \/ x = o
  BY DEF Startup!Given

(* Every option keeps what the flags say.                                  *)
LEMMA OptionStep ==
    ASSUME StartTypes, OptionsKnown, NEW o \in StartOptions, Startup!GetOpt(o)
    PROVE  StartTypes' /\ OptionsKnown'
<1>1. /\ stage = "options" /\ times' = [times EXCEPT ![o] = @ + 1]
      /\ UNCHANGED <<seed, result, cal_failures, resuming_fuzz>>
  BY DEF Startup!GetOpt, Startup!settings, Startup!dry
<1>2. times' \in [StartOptions -> Nat]
  BY <1>1 DEF StartTypes
<1>3. seed = 1 /\ cal_failures = 0
  BY <1>1 DEF StartTypes
<1> DEFINE taken ==
             /\ flag' = flag \cup {Startup!FlagOf(o)} \cup (IF o = "M" THEN {"force_deterministic"} ELSE {})
             /\ mem_limit' = Startup!MemLimitOf(o)
             /\ timeout_given' = CASE o = "t" -> 1 [] o = "t+" -> 2 [] OTHER -> timeout_given
             /\ skip_deterministic' = (skip_deterministic \/ o = "d")
             /\ use_splicing' = (use_splicing \/ o = "d")
             /\ stage' = stage
<1>4. \/ taken /\ ~(o \notin Startup!Repeatable /\ Startup!Tests(o) \in flag)
      \/ stage' = "failed" /\ timeout_given' = timeout_given
  BY Zenon DEF Startup!GetOpt, Startup!Fail
<1>5. CASE taken /\ ~(o \notin Startup!Repeatable /\ Startup!Tests(o) \in flag)
  <2>1. /\ flag' = flag \cup {Startup!FlagOf(o)} \cup (IF o = "M" THEN {"force_deterministic"} ELSE {})
        /\ mem_limit' = Startup!MemLimitOf(o)
        /\ timeout_given' = CASE o = "t" -> 1 [] o = "t+" -> 2 [] OTHER -> timeout_given
        /\ skip_deterministic' = (skip_deterministic \/ o = "d")
        /\ use_splicing' = (use_splicing \/ o = "d")
        /\ stage' = stage
    BY <1>5
  <2>2. FlagsKnown /\ SettingsKnown /\ ~(Startup!Given("t") /\ Startup!Given("t+"))
    BY <1>1 DEF OptionsKnown
  <2>3. \A x : Startup!Given(x)' <=> Startup!Given(x) \/ x = o
    BY <1>1, GivenNext DEF StartTypes
  <2>4. o # "sync_id" /\ o # "timeout_given" /\ o # "force_deterministic"
    BY StartAssumption
  <2>5. Startup!FlagOf(o) = IF o = "M" \/ o = "S" THEN "sync_id"
                            ELSE IF o = "t" \/ o = "t+" THEN "timeout_given" ELSE o
    BY DEF Startup!FlagOf
  <2>6. FlagsKnown'
    <3>1. \A x : x \in flag' <=> x \in flag \/ x = Startup!FlagOf(o) \/ (o = "M" /\ x = "force_deterministic")
      BY <2>1
    <3>2. ("m" = Startup!FlagOf(o) <=> o = "m") /\ ("Q" = Startup!FlagOf(o) <=> o = "Q")
            /\ ("n" = Startup!FlagOf(o) <=> o = "n") /\ ("C" = Startup!FlagOf(o) <=> o = "C")
      BY <2>5
    <3>3. /\ "sync_id" = Startup!FlagOf(o) <=> o = "S" \/ o = "M"
          /\ "timeout_given" = Startup!FlagOf(o) <=> o = "t" \/ o = "t+"
          /\ "force_deterministic" # Startup!FlagOf(o)
      BY <2>4, <2>5
    <3>4. /\ "m" \in flag' <=> Startup!Given("m")'
          /\ "Q" \in flag' <=> Startup!Given("Q")'
          /\ "n" \in flag' <=> Startup!Given("n")'
          /\ "C" \in flag' <=> Startup!Given("C")'
      BY <2>2, <2>3, <3>1, <3>2 DEF FlagsKnown
    <3>5. /\ "sync_id" \in flag' <=> Startup!Given("S")' \/ Startup!Given("M")'
          /\ "force_deterministic" \in flag' <=> Startup!Given("M")'
          /\ "timeout_given" \in flag' <=> Startup!Given("t")' \/ Startup!Given("t+")'
      BY <2>2, <2>3, <3>1, <3>3 DEF FlagsKnown
    <3>6. skip_deterministic' = Startup!Given("d")' /\ use_splicing' = Startup!Given("d")'
      <4>1. Startup!Given("d") \in BOOLEAN /\ Startup!Given("d")' \in BOOLEAN
        BY Zenon DEF Startup!Given
      <4>2. skip_deterministic = Startup!Given("d") /\ use_splicing = Startup!Given("d")
        BY <2>2 DEF FlagsKnown
      <4>3. Startup!Given("d")' <=> Startup!Given("d") \/ o = "d"
        BY <2>3
      <4> QED
        BY <2>1, <4>1, <4>2, <4>3, Zenon
    <3> QED
      BY <3>4, <3>5, <3>6, Zenon DEF FlagsKnown
  <2>7. SettingsKnown' /\ ~(Startup!Given("t")' /\ Startup!Given("t+")')
    <3>1. o = "t" \/ o = "t+" => ~Startup!Given("t") /\ ~Startup!Given("t+")
      BY <1>5, <2>2 DEF FlagsKnown, Startup!Repeatable, Startup!Tests, Startup!FlagOf
    <3>2. mem_limit' = IF Startup!Given("m")' THEN "given" ELSE IF Startup!Given("Q")' THEN "qemu" ELSE "default"
      <4>1. mem_limit' = IF o = "m" THEN "given"
                         ELSE IF o = "Q" /\ ~Startup!Given("m") THEN "qemu" ELSE mem_limit
        BY <2>1, <2>2 DEF Startup!MemLimitOf, FlagsKnown
      <4> QED
        BY <2>2, <2>3, <4>1 DEF SettingsKnown
    <3>3. timeout_given' = IF Startup!Given("t")' THEN 1 ELSE IF Startup!Given("t+")' THEN 2 ELSE 0
      BY <2>1, <2>2, <2>3, <3>1 DEF SettingsKnown
    <3>4. ~(Startup!Given("t")' /\ Startup!Given("t+")')
      BY <2>2, <2>3, <3>1
    <3> QED
      BY <3>2, <3>3, <3>4, Zenon DEF SettingsKnown
  <2>8. timeout_given' = 0 \/ timeout_given' = 1 \/ timeout_given' = 2
    BY <2>7 DEF SettingsKnown
  <2>9. StartTypes'
    BY <1>1, <1>2, <1>3, <2>8 DEF StartTypes
  <2> QED
    BY <1>1, <2>1, <2>6, <2>7, <2>9 DEF OptionsKnown
<1>6. CASE stage' = "failed" /\ timeout_given' = timeout_given
  <2>1. StartTypes'
    BY <1>1, <1>2, <1>3, <1>6 DEF StartTypes
  <2> QED
    BY <1>6, <2>1 DEF OptionsKnown
<1> QED
  BY <1>5, <1>6, <1>4

(* After the last option the checks hold.                                  *)
LEMMA EndOptionsStep ==
    ASSUME StartTypes, OptionsKnown, Startup!EndOptions
    PROVE  StartTypes' /\ OptionsKnown'
<1>1. /\ stage = "options" /\ (stage' = "failed" \/ stage' = "set-up")
      /\ UNCHANGED <<times, mem_limit, timeout_given, seed, result, cal_failures, resuming_fuzz>>
  BY DEF Startup!EndOptions, Startup!settings, Startup!dry, Startup!Fail
<1>2. StartTypes'
  BY <1>1 DEF StartTypes
<1>3. \A x : Startup!Given(x)' <=> Startup!Given(x)
  BY <1>1 DEF Startup!Given
<1>4. FlagsKnown /\ SettingsKnown
  BY <1>1 DEF OptionsKnown
<1>5. ASSUME stage' = "set-up"
      PROVE  /\ SettingsKnown' /\ skip_deterministic' = use_splicing'
             /\ skip_deterministic' <=> Startup!Given("d")' \/ (Startup!Given("S")' /\ ~Startup!Given("M")')
             /\ Startup!Given("n")' => /\ ~Startup!Given("C")' /\ ~Startup!Given("Q")'
                                       /\ ~Startup!Given("S")' /\ ~Startup!Given("M")'
  <2>1. ~Startup!Conflict
    BY <1>5 DEF Startup!EndOptions, Startup!Fail
  <2>2. PICK secondary : /\ secondary = ("sync_id" \in flag /\ "force_deterministic" \notin flag)
                         /\ skip_deterministic' = (skip_deterministic \/ secondary)
                         /\ use_splicing' = (use_splicing \/ secondary)
    BY Zenon DEF Startup!EndOptions
  <2>3. SettingsKnown'
    BY <1>1, <1>3, <1>4 DEF SettingsKnown
  <2>4. skip_deterministic = use_splicing
    BY <1>4 DEF FlagsKnown
  <2>5. skip_deterministic' = use_splicing'
    BY <2>2, <2>4
  <2>6. skip_deterministic <=> Startup!Given("d")
    BY <1>4 DEF FlagsKnown
  <2>7. secondary <=> Startup!Given("S") /\ ~Startup!Given("M")
    BY <1>4, <2>2 DEF FlagsKnown
  <2>8. skip_deterministic' <=> Startup!Given("d")' \/ (Startup!Given("S")' /\ ~Startup!Given("M")')
    BY <1>3, <2>2, <2>6, <2>7
  <2>9. Startup!Given("n")' => /\ ~Startup!Given("C")' /\ ~Startup!Given("Q")'
                               /\ ~Startup!Given("S")' /\ ~Startup!Given("M")'
    BY <1>3, <1>4, <2>1 DEF Startup!Conflict, FlagsKnown
  <2> QED
    BY <2>3, <2>5, <2>8, <2>9
<1> QED
  BY <1>1, <1>2, <1>5 DEF OptionsKnown

(* A test case that is neither passed over nor taken is the end of it.     *)
LEMMA DryRunStep ==
    ASSUME StartTypes, OptionsKnown, DryKnown, Startup!DryRunOne
    PROVE  StartTypes' /\ OptionsKnown' /\ DryKnown'
<1>1. /\ stage = "dry run" /\ seed <= Seeds /\ seed' = seed + 1
      /\ UNCHANGED <<times, flag, timeout_given, resuming_fuzz, skip_crashes>>
  BY DEF Startup!DryRunOne, Startup!settings, Startup!options
<1>2. PICK res \in DryResults :
        /\ result' = Append(result, res)
        /\ cal_failures' = IF Startup!Skips(res) THEN cal_failures + 1 ELSE cal_failures
        /\ \/ stage' = "failed" \/ stage' = "stopped"
           \/ stage' = stage /\ Tolerated(res)
  BY Zenon DEF Startup!DryRunOne, Startup!Fail, DryResults, Tolerated
<1>3. /\ result' \in Seq(DryResults) /\ Len(result') = Len(result) + 1
      /\ \A k \in 1 .. Len(result) : result'[k] = result[k]
      /\ result'[Len(result) + 1] = res
  BY <1>2 DEF StartTypes
<1>4. StartTypes'
  <2>1. seed' \in Nat \ {0} /\ Len(result') = seed' - 1 /\ cal_failures' \in Nat
    <3>1. seed \in Nat /\ cal_failures \in Nat /\ Len(result) = seed - 1
      BY DEF StartTypes
    <3>2. seed' = seed + 1 /\ Len(result') = Len(result) + 1
      BY <1>1, <1>3
    <3>3. cal_failures' = cal_failures \/ cal_failures' = cal_failures + 1
      BY <1>2
    <3>4. seed' \in Nat \ {0} /\ Len(result') = seed' - 1
      BY <3>1, <3>2
    <3>5. cal_failures' \in Nat
      BY <3>1, <3>3
    <3> QED
      BY <3>4, <3>5
  <2>2. stage' # "options" /\ stage' # "set-up"
    BY <1>1, <1>2
  <2> QED
    BY <1>1, <1>3, <2>1, <2>2 DEF StartTypes
<1>5. stage' = "failed" \/ stage' = "stopped" \/ (stage' = "dry run" /\ Tolerated(res))
  BY <1>1, <1>2
<1>6. OptionsKnown'
  BY <1>5 DEF OptionsKnown
<1>7. PICK n \in Nat : n = Len(result) /\ n = seed - 1 /\ n + 1 <= Seeds
  <2>1. Len(result) \in Nat /\ Len(result) = seed - 1 /\ seed \in Nat
    BY DEF StartTypes
  <2>2. seed <= Seeds
    BY <1>1
  <2>3. Len(result) + 1 <= Seeds
    BY <2>1, <2>2, StartAssumption
  <2> QED
    BY <2>1, <2>3, Zenon
<1>8. \A r : (Startup!Skips(r)' <=> Startup!Skips(r)) /\ (Startup!Accepts(r)' <=> Startup!Accepts(r))
  BY <1>1 DEF Startup!Skips, Startup!Accepts, Startup!ToleratesTimeout, Startup!crash_mode
<1>9. \A r : Tolerated(r)' <=> Tolerated(r)
  BY <1>8, Zenon DEF Tolerated
<1>10. ASSUME Tolerated(res)
       PROVE  /\ \A k \in 1 .. n + 1 : Tolerated(result'[k])
              /\ (\A k \in 1 .. n + 1 : Startup!Skips(result'[k])) => cal_failures' = n + 1
  <2>1. \A k \in 1 .. n : Tolerated(result[k])
    BY <1>1, <1>7 DEF DryKnown
  <2>2. \A k \in 1 .. n + 1 : k \in 1 .. n \/ k = n + 1
    BY <1>7
  <2>3. \A k \in 1 .. n + 1 : Tolerated(result'[k])
    BY <1>3, <1>10, <1>7, <2>1, <2>2
  <2>4. ASSUME \A k \in 1 .. n + 1 : Startup!Skips(result'[k]) PROVE cal_failures' = n + 1
    <3>1. \A k \in 1 .. n : k \in 1 .. n + 1 /\ result'[k] = result[k]
      BY <1>3, <1>7
    <3>2. \A k \in 1 .. n : Startup!Skips(result[k])
      BY <2>4, <3>1, Zenon
    <3>3. cal_failures = n
      BY <1>1, <1>7, <3>2 DEF DryKnown
    <3>4. n + 1 \in 1 .. n + 1
      BY <1>7
    <3>5. Startup!Skips(res)
      BY <1>3, <1>7, <2>4, <3>4
    <3> QED
      BY <1>2, <3>3, <3>5
  <2> QED
    BY <2>3, <2>4
<1>11. DryKnown'
  <2>1. Len(result') = n + 1
    BY <1>3, <1>7
  <2>2. CASE stage' = "failed" \/ stage' = "stopped"
    BY <2>2 DEF DryKnown
  <2>3. CASE stage' = "dry run" /\ Tolerated(res)
    <3>1. (\A k \in 1 .. Len(result) : Tolerated(result[k]))'
      BY <1>9, <1>10, <2>1, <2>3, Zenon
    <3>2. ((\A k \in 1 .. Len(result) : Startup!Skips(result[k])) => cal_failures = Len(result))'
      BY <1>8, <1>10, <2>1, <2>3, Zenon
    <3>3. (Len(result) <= Seeds)'
      BY <1>7, <2>1
    <3>4. stage' # "ready" /\ stage' # "fuzzing"
      BY <2>3
    <3> QED
      BY <3>1, <3>2, <3>3, <3>4, Zenon DEF DryKnown
  <2> QED
    BY <1>5, <2>2, <2>3
<1> QED
  BY <1>4, <1>6, <1>11

(* Every step of the start keeps what is known.                            *)
LEMMA StartKeeps ==
    ASSUME StartTypes, OptionsKnown, DryKnown, Startup!Next
    PROVE  StartTypes' /\ OptionsKnown' /\ DryKnown'
<1>1. ASSUME NEW o \in StartOptions, Startup!GetOpt(o) PROVE StartTypes' /\ OptionsKnown' /\ DryKnown'
  <2>1. stage' = "options" \/ stage' = "failed"
    BY <1>1 DEF Startup!GetOpt, Startup!Fail
  <2> QED
    BY <1>1, <2>1, OptionStep DEF DryKnown
<1>2. CASE Startup!EndOptions
  <2>1. stage' = "set-up" \/ stage' = "failed"
    BY <1>2 DEF Startup!EndOptions, Startup!Fail
  <2> QED
    BY <1>2, <2>1, EndOptionsStep DEF DryKnown
<1>3. CASE Startup!SetUp
  <2>1. /\ stage = "set-up" /\ (stage' = "failed" \/ stage' = "dry run")
        /\ times' = [o \in StartOptions |-> 0]
        /\ UNCHANGED <<seed, result, cal_failures, resuming_fuzz, skip_crashes>>
        /\ timeout_given' = timeout_given \/ (resuming_fuzz /\ timeout_given' = 3)
    BY <1>3 DEF Startup!SetUp, Startup!Fail, Startup!settings, Startup!dry
  <2>2. times' \in [StartOptions -> Nat]
    BY <2>1
  <2>3. seed = 1 /\ cal_failures = 0 /\ Len(result) = 0
    <3>1. stage = "set-up"
      BY <2>1
    <3>2. seed = 1 /\ cal_failures = 0 /\ Len(result) = seed - 1
      BY <3>1, Zenon DEF StartTypes
    <3> QED
      BY <3>2
  <2>4. StartTypes'
    BY <2>1, <2>2, <2>3 DEF StartTypes
  <2>5. OptionsKnown'
    BY <2>1 DEF OptionsKnown
  <2>6. DryKnown'
    <3>1. Len(result') = 0 /\ cal_failures' = 0
      BY <2>1, <2>3
    <3>2. (\A k \in 1 .. Len(result) : Tolerated(result[k]))' /\ (Len(result) <= Seeds)'
      BY <3>1, StartAssumption
    <3>3. stage' # "ready" /\ stage' # "fuzzing"
      BY <2>1
    <3> QED
      BY <3>1, <3>2, <3>3, Zenon DEF DryKnown
  <2> QED
    BY <2>4, <2>5, <2>6
<1>4. CASE Startup!DryRunOne
  BY <1>4, DryRunStep
<1>5. ASSUME UNCHANGED <<times, flag, timeout_given, resuming_fuzz, skip_crashes, seed, result, cal_failures>>,
             \/ stage = "dry run" /\ stage' = "ready" /\ seed > Seeds /\ cal_failures # Seeds
             \/ (stage = "ready" \/ stage = "fuzzing") /\ (stage' = "ready" \/ stage' = "fuzzing")
             \/ stage = "dry run" /\ stage' = "dry run"
             \/ stage' = "failed" \/ stage' = "stopped"
      PROVE  StartTypes' /\ OptionsKnown' /\ DryKnown'
  <2>1. stage' # "options" /\ stage' # "set-up"
    BY <1>5
  <2>2. StartTypes'
    BY <1>5, <2>1 DEF StartTypes
  <2>3. OptionsKnown'
    BY <2>1 DEF OptionsKnown
  <2>4. \A r : (Startup!Skips(r)' <=> Startup!Skips(r)) /\ (Startup!Accepts(r)' <=> Startup!Accepts(r))
    BY <1>5 DEF Startup!Skips, Startup!Accepts, Startup!ToleratesTimeout, Startup!crash_mode
  <2>5. \A r : Tolerated(r)' <=> Tolerated(r)
    BY <2>4 DEF Tolerated
  <2>6. stage' = "ready" \/ stage' = "fuzzing" => Len(result) = Seeds /\ cal_failures # Seeds
    <3>1. CASE stage = "dry run" /\ stage' = "ready" /\ seed > Seeds /\ cal_failures # Seeds
      <4>1. Len(result) <= Seeds /\ Len(result) = seed - 1 /\ seed \in Nat
        BY <3>1 DEF DryKnown, StartTypes
      <4>2. seed > Seeds /\ cal_failures # Seeds
        BY <3>1
      <4>3. \A len, next, all \in Nat : len <= all /\ len = next - 1 /\ next > all => len = all
        OBVIOUS
      <4>4. Len(result) \in Nat
        BY DEF StartTypes
      <4>5. Len(result) = Seeds
        BY <4>1, <4>2, <4>3, <4>4, StartAssumption, Zenon
      <4> QED
        BY <4>2, <4>5
    <3>2. CASE stage = "ready" \/ stage = "fuzzing"
      BY <3>2 DEF DryKnown
    <3> QED
      BY <1>5, <3>1, <3>2
  <2>7. stage' = "dry run" \/ stage' = "ready" \/ stage' = "fuzzing" =>
          stage = "dry run" \/ stage = "ready" \/ stage = "fuzzing"
    BY <1>5
  <2>8. DryKnown'
    BY <1>5, <2>4, <2>5, <2>6, <2>7 DEF DryKnown
  <2> QED
    BY <2>2, <2>3, <2>8
<1>6. CASE Startup!EndDryRun
  BY <1>5, <1>6 DEF Startup!EndDryRun, Startup!Fail, Startup!options, Startup!settings, Startup!dry
<1>7. CASE Startup!Stop
  BY <1>5, <1>7 DEF Startup!Stop, Startup!options, Startup!settings, Startup!dry
<1>8. CASE Startup!Enter
  BY <1>5, <1>8 DEF Startup!Enter, Startup!Fail, Startup!options, Startup!settings, Startup!dry
<1> QED
  BY <1>1, <1>2, <1>3, <1>4, <1>6, <1>7, <1>8 DEF Startup!Next

(* No option of afl-fuzz undoes another whatever their order, and the loop *)
(* is entered with a test case to start from and none that had to be       *)
(* refused, for all sets of options and any number of test cases.          *)
THEOREM StartsAreSound == Spec => []StartSound
<1>1. StartInv /\ [Next]_vars => StartInv'
  <2> SUFFICES ASSUME StartInv, [Next]_vars, running' = "start"
               PROVE  StartTypes' /\ OptionsKnown' /\ DryKnown'
    BY DEF StartInv
  <2>1. running = "start" /\ (Startup!Next \/ UNCHANGED vars)
    BY Steps
  <2>2. StartTypes /\ OptionsKnown /\ DryKnown
    BY <2>1 DEF StartInv
  <2>3. CASE UNCHANGED vars
    <3>1. UNCHANGED <<stage, times, flag, mem_limit, timeout_given, skip_deterministic, use_splicing,
                      resuming_fuzz, skip_crashes, seed, result, cal_failures>>
      BY <2>3 DEF vars, sharedVars, startVars
    <3>2. \A x : Startup!Given(x)' <=> Startup!Given(x)
      BY <3>1 DEF Startup!Given
    <3>3. \A r : (Startup!Skips(r)' <=> Startup!Skips(r)) /\ (Startup!Accepts(r)' <=> Startup!Accepts(r))
      BY <3>1 DEF Startup!Skips, Startup!Accepts, Startup!ToleratesTimeout, Startup!crash_mode
    <3>4. StartTypes'
      BY <2>2, <3>1 DEF StartTypes
    <3>5. OptionsKnown'
      <4>1. Startup!Given("d")' = Startup!Given("d")
        BY <3>1 DEF Startup!Given
      <4> QED
        BY <2>2, <3>1, <3>2, <4>1 DEF OptionsKnown, FlagsKnown, SettingsKnown
    <3>6. DryKnown'
      BY <2>2, <3>1, <3>3 DEF DryKnown, Tolerated
    <3> QED
      BY <3>4, <3>5, <3>6
  <2> QED
    BY <2>1, <2>2, <2>3, StartKeeps
<1>2. StartInv => StartSound
  <2> SUFFICES ASSUME StartInv, running = "start" PROVE Startup!OptionsCommute /\ Startup!StartsUsable
    BY DEF StartSound
  <2>1. StartTypes /\ OptionsKnown /\ DryKnown
    BY DEF StartInv
  <2>2. Startup!OptionsCommute
    BY <2>1 DEF OptionsKnown, SettingsKnown, Startup!OptionsCommute
  <2>3. ASSUME stage = "fuzzing"
        PROVE  /\ \E k \in 1 .. Seeds : result[k] \in {"nobits", IF Startup!crash_mode THEN "crash" ELSE "none"}
               /\ \A k \in 1 .. Seeds :
                    /\ result[k] = "tmout" => timeout_given = 2 \/ (timeout_given = 3 /\ resuming_fuzz)
                    /\ result[k] = "crash" => Startup!crash_mode \/ skip_crashes
                    /\ result[k] = "none" => ~Startup!crash_mode
    <3>1. /\ \A k \in 1 .. Seeds : Tolerated(result[k])
          /\ \E k \in 1 .. Seeds : ~Startup!Skips(result[k])
      BY <2>1, <2>3 DEF DryKnown
    <3>2. \A r : Startup!Accepts(r) => r \in {"nobits", IF Startup!crash_mode THEN "crash" ELSE "none"}
      BY DEF Startup!Accepts
    <3>3. \E k \in 1 .. Seeds : result[k] \in {"nobits", IF Startup!crash_mode THEN "crash" ELSE "none"}
      BY <3>1, <3>2 DEF Tolerated
    <3>4. Startup!ToleratesTimeout => timeout_given = 2 \/ (timeout_given = 3 /\ resuming_fuzz)
      BY <2>1 DEF StartTypes, Startup!ToleratesTimeout
    <3>5. \A r : Tolerated(r) =>
            /\ r = "tmout" => timeout_given = 2 \/ (timeout_given = 3 /\ resuming_fuzz)
            /\ r = "crash" => Startup!crash_mode \/ skip_crashes
            /\ r = "none" => ~Startup!crash_mode
      BY <3>4 DEF Tolerated, Startup!Skips, Startup!Accepts
    <3> QED
      BY <3>1, <3>3, <3>5, Zenon
  <2> QED
    BY <2>2, <2>3, Zenon DEF Startup!StartsUsable
<1> QED
  BY StartInit, <1>1, <1>2, PTL DEF Spec

-----------------------------------------------------------------------------
(* afl-analyze                                                             *)

ByteInfo == [type : {0, 1, 2, 3}, seq : {0, 1}]

Runs == [at : Nat, rlen : Nat, rtype : Nat]

AnalyzeTypes ==
    /\ original \in Seq(Nat) /\ \A j \in DOMAIN original : original[j] < 256
    /\ in_data = original /\ i \in 0 .. Len(original)
    /\ b_data \in Seq(ByteInfo) /\ Len(b_data) = i

\* The four files of the last byte.
Perturbed ==
    \A k \in DOMAIN tried :
      /\ \A n \in DOMAIN original : n = i <=> tried[k][n] # original[n]
      /\ \A l \in 1 .. k - 1 : tried[l] # tried[k]

\* A run lies in the file, and is shown as no less than its bytes are.
RunShown(r) ==
    /\ r.at \in Nat \ {0} /\ r.rlen \in Nat \ {0} /\ r.at + r.rlen - 1 <= Len(original)
    /\ r.rtype = 0 \/ r.rtype = 1 =>
         \A j \in r.at .. r.at + r.rlen - 1 : b_data[j].type <= r.rtype

Annotated ==
    /\ report \in Seq(Runs)
    /\ report # <<>> => i = Len(original)
    /\ \A n \in 1 .. Len(report) : RunShown(report[n])
    /\ \A n \in 1 .. Len(report) :
         report[n].at = IF n = 1 THEN 1 ELSE report[n - 1].at + report[n - 1].rlen

AnalyzeInv == running = "analyze" => AnalyzeTypes /\ Perturbed /\ Annotated

(* A set of numbers up to a bound has a greatest one.                      *)
LEMMA GreatestElement ==
    ASSUME NEW T, T \subseteq Nat, T # {}, NEW top \in Nat, \A y \in T : y <= top
    PROVE  Analyzer!Max(T) \in T /\ \A y \in T : y <= Analyzer!Max(T)
<1> DEFINE below == {top - y : y \in T}
<1>1. below \subseteq Nat /\ below # {}
  <2>1. \A y \in T : top - y \in Nat
    OBVIOUS
  <2> QED
    BY <2>1
<1>2. PICK least \in below : \A z \in below : least <= z
  BY <1>1, LeastElement
<1>3. PICK greatest \in T : least = top - greatest
  BY <1>2
<1>4. \A y \in T : greatest >= y
  BY <1>2, <1>3
<1>5. Analyzer!Max(T) \in T /\ \A y \in T : Analyzer!Max(T) >= y
  BY <1>4, Zenon DEF Analyzer!Max
<1> QED
  BY <1>5

(* The values of a byte differ from it and from each other, and it is what *)
(* they leave: x ^ 0xff and x ^ 0x01 have the other parity, and x - 0x10   *)
(* and x + 0x10 are 0x20 apart.                                            *)
LEMMA FourValues ==
    ASSUME NEW x \in Nat, x < 256
    PROVE  /\ Analyzer!Values(x).left = x
           /\ \A k \in 1 .. 4 : Analyzer!Values(x).tried[k] # x
           /\ \A k \in 1 .. 4 : \A l \in 1 .. k - 1 :
                Analyzer!Values(x).tried[l] # Analyzer!Values(x).tried[k]
<1>1. PICK flipped \in Int : flipped = Analyzer!xor_01(x) /\ (flipped = x + 1 \/ flipped = x - 1)
                             /\ Analyzer!xor_01(flipped) = x /\ flipped # 255 - x
  <2>1. CASE x % 2 = 0
    <3>1. (x + 1) % 2 = 1 /\ x + 1 # 255 - x
      BY <2>1
    <3> QED
      BY <2>1, <3>1 DEF Analyzer!xor_01
  <2>2. CASE x % 2 = 1
    <3>1. (x - 1) % 2 = 0 /\ x - 1 # 255 - x
      BY <2>2
    <3> QED
      BY <2>2, <3>1 DEF Analyzer!xor_01
  <2> QED
    BY <2>1, <2>2
<1>2. Analyzer!xor_ff(Analyzer!xor_ff(x)) = x /\ Analyzer!xor_ff(x) = 255 - x
  BY DEF Analyzer!xor_ff
<1>3. PICK low \in Nat : /\ low = (x - 16) % 256
                         /\ low = IF x >= 16 THEN x - 16 ELSE x + 240
  OBVIOUS
<1>4. PICK high \in Nat : /\ high = (low + 32) % 256
                          /\ high = IF x < 240 THEN x + 16 ELSE x - 240
  BY <1>3
<1>5. (high - 16) % 256 = x
  BY <1>4
<1>6. Analyzer!Values(x) = [tried |-> <<255 - x, flipped, low, high>>, left |-> x]
  <2> DEFINE xff == Analyzer!xor_ff(x)
             x01 == Analyzer!xor_01(Analyzer!xor_ff(xff))
             s10 == Analyzer!Byte(Analyzer!xor_01(x01) - 16)
             a10 == Analyzer!Byte(s10 + 32)
  <2>1. Analyzer!Values(x) = [tried |-> <<xff, x01, s10, a10>>, left |-> Analyzer!Byte(a10 - 16)]
    BY Zenon DEF Analyzer!Values
  <2>2. xff = 255 - x /\ x01 = flipped
    BY <1>1, <1>2, Zenon
  <2>3. s10 = low
    BY <1>1, <1>3, <2>2, Zenon DEF Analyzer!Byte
  <2>4. a10 = high
    BY <1>4, <2>3, Zenon DEF Analyzer!Byte
  <2>5. Analyzer!Byte(a10 - 16) = x
    BY <1>5, <2>4, Zenon DEF Analyzer!Byte
  <2> HIDE DEF xff, x01, s10, a10
  <2> QED
    BY <2>1, <2>2, <2>3, <2>4, <2>5
<1>7. /\ 255 - x # x /\ flipped # x /\ low # x /\ high # x
      /\ 255 - x # flipped /\ 255 - x # low /\ 255 - x # high
      /\ flipped # low /\ flipped # high /\ low # high
  BY <1>1, <1>3, <1>4
<1>8. Analyzer!Values(x).left = x
  BY <1>6
<1>9. /\ Analyzer!Values(x).tried[1] = 255 - x /\ Analyzer!Values(x).tried[2] = flipped
      /\ Analyzer!Values(x).tried[3] = low /\ Analyzer!Values(x).tried[4] = high
  BY <1>6
<1>10. \A k \in 1 .. 4 : k = 1 \/ k = 2 \/ k = 3 \/ k = 4
  OBVIOUS
<1>11. \A k \in 1 .. 4 : Analyzer!Values(x).tried[k] # x
  BY <1>7, <1>9, <1>10, Zenon
<1>12. \A k \in 1 .. 4 : \A l \in 1 .. k - 1 :
         \/ l = 1 /\ (k = 2 \/ k = 3 \/ k = 4)
         \/ l = 2 /\ (k = 3 \/ k = 4)
         \/ l = 3 /\ k = 4
  OBVIOUS
<1>13. \A k \in 1 .. 4 : \A l \in 1 .. k - 1 :
         Analyzer!Values(x).tried[l] # Analyzer!Values(x).tried[k]
  <2> DEFINE Sent(k) == Analyzer!Values(x).tried[k]
  <2>1. /\ Sent(1) # Sent(2) /\ Sent(1) # Sent(3) /\ Sent(1) # Sent(4)
        /\ Sent(2) # Sent(3) /\ Sent(2) # Sent(4) /\ Sent(3) # Sent(4)
    BY <1>7, <1>9, Zenon
  <2> HIDE DEF Sent
  <2>2. \A k \in 1 .. 4 : \A l \in 1 .. k - 1 : Sent(l) # Sent(k)
    BY <1>12, <2>1, Zenon
  <2> QED
    BY <2>2 DEF Sent
<1> QED
  BY <1>8, <1>11, <1>13

(* Nothing is analysed and nothing shown at the start.                     *)
LEMMA AnalyzeInit == Init => AnalyzeInv
<1> SUFFICES ASSUME Init, running = "analyze" PROVE AnalyzeTypes /\ Perturbed /\ Annotated
  BY DEF AnalyzeInv
<1>1. Analyzer!Init
  BY DEF Init
<1>2. in_data \in AnalyzedFiles /\ original = in_data /\ i = 0 /\ b_data = <<>> /\ report = <<>> /\ tried = <<>>
  BY <1>1 DEF Analyzer!Init
<1>3. original \in Seq(Nat) /\ \A j \in DOMAIN original : original[j] < 256
  BY <1>2, AnalyzerAssumption
<1>4. AnalyzeTypes
  BY <1>2, <1>3 DEF AnalyzeTypes
<1>5. Perturbed
  BY <1>2 DEF Perturbed
<1>6. Annotated
  BY <1>2 DEF Annotated
<1> QED
  BY <1>4, <1>5, <1>6

(* A byte is left as it was.                                               *)
LEMMA AnalyzeByteStep ==
    ASSUME AnalyzeTypes, Annotated, Analyzer!AnalyzeByte
    PROVE  AnalyzeTypes' /\ Perturbed' /\ Annotated'
<1>1. i < Len(original) /\ i' = i + 1 /\ report' = report /\ original' = original /\ in_data = original
  BY DEF Analyzer!AnalyzeByte, AnalyzeTypes
<1>2. PICK cksum \in Answers, seq \in {0, 1} :
        /\ tried' = [k \in 1 .. 4 |-> [in_data EXCEPT ![i + 1] = Analyzer!Values(in_data[i + 1]).tried[k]]]
        /\ in_data' = [in_data EXCEPT ![i + 1] = Analyzer!Values(in_data[i + 1]).left]
        /\ b_data' = Append(b_data, [type |-> Analyzer!TypeOf(cksum), seq |-> seq])
  <2>1. PICK cksum \in Answers :
          /\ tried' = [k \in 1 .. 4 |-> [in_data EXCEPT ![i + 1] = Analyzer!Values(in_data[i + 1]).tried[k]]]
          /\ in_data' = [in_data EXCEPT ![i + 1] = Analyzer!Values(in_data[i + 1]).left]
          /\ LET seq     == IF i = 0 THEN 0 ELSE b_data[i].seq
                 changed == \A k \in 1 .. 4 : prev[k] # cksum[k]
             IN  b_data' = Append(b_data, [type |-> Analyzer!TypeOf(cksum), seq |-> IF changed THEN 1 - seq ELSE seq])
    BY Zenon DEF Analyzer!AnalyzeByte
  <2>2. PICK last : last = IF i = 0 THEN 0 ELSE b_data[i].seq
    OBVIOUS
  <2>3. last = 0 \/ last = 1
    <3>1. CASE i = 0
      BY <2>2, <3>1
    <3>2. CASE i # 0
      <4>1. i \in 1 .. Len(b_data) /\ b_data \in Seq(ByteInfo)
        BY <3>2 DEF AnalyzeTypes
      <4>2. b_data[i] \in ByteInfo
        BY <4>1
      <4>3. b_data[i].seq = 0 \/ b_data[i].seq = 1
        BY <4>2 DEF ByteInfo
      <4> QED
        BY <2>2, <3>2, <4>3
    <3> QED
      BY <3>1, <3>2
  <2>4. PICK seq : seq = IF \A k \in 1 .. 4 : prev[k] # cksum[k] THEN 1 - last ELSE last
    OBVIOUS
  <2>5. seq = 0 \/ seq = 1
    BY <2>3, <2>4
  <2> QED
    BY <2>1, <2>2, <2>4, <2>5, Zenon
<1>3. PICK x \in Nat : x = original[i + 1] /\ x < 256
  BY <1>1 DEF AnalyzeTypes
<1>4. /\ Analyzer!Values(x).left = x
      /\ \A k \in 1 .. 4 : Analyzer!Values(x).tried[k] # x
      /\ \A k \in 1 .. 4 : \A l \in 1 .. k - 1 : Analyzer!Values(x).tried[l] # Analyzer!Values(x).tried[k]
  BY <1>3, FourValues, Zenon
<1>5. original \in Seq(Nat) /\ i \in Nat /\ i + 1 \in DOMAIN original
  BY <1>1 DEF AnalyzeTypes
<1>6. in_data' = original
  BY <1>1, <1>2, <1>3, <1>4, <1>5
<1>7. Perturbed'
  <2>1. /\ DOMAIN tried' = 1 .. 4
        /\ \A k \in 1 .. 4 : tried'[k] = [original EXCEPT ![i + 1] = Analyzer!Values(x).tried[k]]
    BY <1>1, <1>2, <1>3
  <2>2. \A k \in 1 .. 4 : tried'[k][i + 1] = Analyzer!Values(x).tried[k]
    BY <1>5, <2>1
  <2>3. \A k \in 1 .. 4 : \A n \in DOMAIN original : n # i + 1 => tried'[k][n] = original[n]
    BY <1>5, <2>1
  <2>4. \A k \in 1 .. 4 : \A n \in DOMAIN original : n = i + 1 <=> tried'[k][n] # original[n]
    BY <1>3, <1>4, <2>2, <2>3
  <2>5. \A k \in 1 .. 4 : \A l \in 1 .. k - 1 : l \in 1 .. 4
    OBVIOUS
  <2>6. \A k \in 1 .. 4 : \A l \in 1 .. k - 1 : tried'[l] # tried'[k]
    <3>1. SUFFICES ASSUME NEW k \in 1 .. 4, NEW l \in 1 .. k - 1, tried'[l] = tried'[k]
                   PROVE  FALSE
      BY Zenon
    <3>2. l \in 1 .. 4
      BY <2>5, Zenon
    <3>3. tried'[l][i + 1] = Analyzer!Values(x).tried[l]
      BY <2>2, <3>2, Zenon
    <3>4. tried'[k][i + 1] = Analyzer!Values(x).tried[k]
      BY <2>2, Zenon
    <3>5. Analyzer!Values(x).tried[l] # Analyzer!Values(x).tried[k]
      BY <1>4, Zenon
    <3> QED
      BY <3>1, <3>3, <3>4, <3>5, Zenon
  <2> QED
    BY <1>1, <2>1, <2>4, <2>6, Zenon DEF Perturbed
<1>8. AnalyzeTypes'
  <2>1. Analyzer!TypeOf(cksum) = 0 \/ Analyzer!TypeOf(cksum) = 1 \/ Analyzer!TypeOf(cksum) = 2 \/ Analyzer!TypeOf(cksum) = 3
    BY Zenon DEF Analyzer!TypeOf, Analyzer!RESP_NONE, Analyzer!RESP_MINOR, Analyzer!RESP_FIXED,
                 Analyzer!RESP_VARIABLE
  <2>2. PICK entry \in ByteInfo : entry = [type |-> Analyzer!TypeOf(cksum), seq |-> seq]
    BY <1>2, <2>1 DEF ByteInfo
  <2>3. b_data \in Seq(ByteInfo) /\ Len(b_data) = i /\ b_data' = Append(b_data, entry)
    BY <1>2, <2>2 DEF AnalyzeTypes
  <2>4. b_data' \in Seq(ByteInfo) /\ Len(b_data') = i + 1
    BY <2>3
  <2>5. i' \in 0 .. Len(original)
    BY <1>1, <1>5
  <2>6. original' \in Seq(Nat) /\ \A j \in DOMAIN original' : original'[j] < 256
    BY <1>1 DEF AnalyzeTypes
  <2> QED
    BY <1>1, <1>6, <2>4, <2>5, <2>6, Zenon DEF AnalyzeTypes
<1>9. Annotated'
  <2>1. report = <<>> /\ Len(report) = 0
    BY <1>1 DEF Annotated
  <2> QED
    BY <1>1, <2>1 DEF Annotated
<1> QED
  BY <1>7, <1>8, <1>9

(* A run begins where the last ended, and ends in the file.                *)
LEMMA ShowRunStep ==
    ASSUME AnalyzeTypes, Perturbed, Annotated, Analyzer!ShowRun
    PROVE  AnalyzeTypes' /\ Perturbed' /\ Annotated'
<1>1. /\ i = Len(original) /\ Analyzer!Shown < Len(original)
      /\ UNCHANGED <<in_data, i, b_data, original, tried>>
  BY DEF Analyzer!ShowRun, AnalyzeTypes
<1>2. AnalyzeTypes' /\ Perturbed'
  BY <1>1 DEF AnalyzeTypes, Perturbed
<1>3. PICK len \in Nat, n \in Nat : len = Len(original) /\ n = Len(report) /\ Len(b_data) = len
  BY <1>1 DEF AnalyzeTypes, Annotated
<1>4. PICK at \in Nat : /\ at = Analyzer!Shown + 1 /\ at # 0 /\ at <= len
                        /\ at = IF n = 0 THEN 1 ELSE report[n].at + report[n].rlen
  <2>1. CASE report = <<>>
    <3>1. Analyzer!Shown = 0 /\ n = 0
      BY <1>3, <2>1 DEF Analyzer!Shown
    <3> QED
      BY <1>1, <1>3, <3>1
  <2>2. CASE report # <<>>
    <3>1. n # 0 /\ Analyzer!Shown = report[n].at + report[n].rlen - 1
      BY <1>3, <2>2 DEF Analyzer!Shown, Annotated
    <3>2. RunShown(report[n])
      BY <1>3, <3>1 DEF Annotated
    <3>3. PICK a \in Nat \ {0}, l \in Nat \ {0} : a = report[n].at /\ l = report[n].rlen
      BY <3>2 DEF RunShown
    <3>4. a + l # 0 /\ a + l <= len /\ a + l = Analyzer!Shown + 1 /\ a + l \in Nat
      <4>1. Analyzer!Shown = a + l - 1
        BY <3>1, <3>3, Zenon
      <4>2. a + l - 1 < len
        BY <1>1, <1>3, <4>1, Zenon
      <4> QED
        BY <4>1, <4>2
    <3> QED
      BY <3>1, <3>3, <3>4
  <2> QED
    BY <2>1, <2>2
<1>5. PICK rlen \in Nat \ {0} : rlen = Analyzer!RunLength(at) /\ at + rlen - 1 <= len
  <2> DEFINE same == {rl \in 1 .. len - at + 1 :
                        \A k \in at .. at + rl - 1 : b_data[k].seq = b_data[at].seq}
  <2>1. Analyzer!RunLength(at) = Analyzer!Max(same)
    BY <1>3 DEF Analyzer!RunLength
  <2>2. len - at + 1 \in Nat /\ 1 \in 1 .. len - at + 1
    BY <1>4
  <2>3. \A k \in at .. at + 1 - 1 : k = at
    BY <1>4
  <2>4. 1 \in same
    BY <2>2, <2>3
  <2>5. same \subseteq Nat /\ \A rl \in same : rl <= len - at + 1 /\ rl # 0
    BY <2>2
  <2> HIDE DEF same
  <2>6. Analyzer!Max(same) \in same
    BY <2>2, <2>4, <2>5, GreatestElement
  <2>7. \A rl \in Nat : rl <= len - at + 1 => at + rl - 1 <= len
    BY <1>4
  <2> QED
    BY <2>1, <2>5, <2>6, <2>7
<1>6. PICK rtype : rtype = Analyzer!StrongestType(at, rlen)
  OBVIOUS
<1>7. rtype \in {0, 1, 2, 3} /\ \A j \in at .. at + rlen - 1 : b_data[j].type <= rtype
  <2> DEFINE types == {b_data[k].type : k \in at .. at + rlen - 1}
  <2>1. rtype = Analyzer!Max(types)
    BY <1>6 DEF Analyzer!StrongestType
  <2>2. \A k \in at .. at + rlen - 1 : k \in 1 .. len
    BY <1>4, <1>5
  <2>3. \A k \in 1 .. len : b_data[k].type \in {0, 1, 2, 3}
    <3>1. b_data \in Seq(ByteInfo)
      BY DEF AnalyzeTypes
    <3>2. \A k \in 1 .. len : b_data[k] \in ByteInfo
      BY <1>3, <3>1
    <3> QED
      BY <3>2 DEF ByteInfo
  <2>4. at \in at .. at + rlen - 1
    BY <1>4, <1>5
  <2>5. types \subseteq {0, 1, 2, 3} /\ types # {}
    BY <2>2, <2>3, <2>4
  <2>6. \A k \in at .. at + rlen - 1 : b_data[k].type \in types
    OBVIOUS
  <2> HIDE DEF types
  <2>7. types \subseteq Nat /\ \A y \in types : y <= 3
    BY <2>5
  <2>8. Analyzer!Max(types) \in types /\ \A y \in types : y <= Analyzer!Max(types)
    BY <2>5, <2>7, GreatestElement
  <2> QED
    BY <2>1, <2>5, <2>6, <2>8
<1>8. PICK shown \in Nat : /\ shown = (IF rtype = Analyzer!RESP_FIXED THEN Analyzer!FixedType(at, rlen) ELSE rtype)
                           /\ shown = 0 \/ shown = 1 => shown = rtype
  <2>1. \/ Analyzer!FixedType(at, rlen) = 3 \/ Analyzer!FixedType(at, rlen) = 4
        \/ Analyzer!FixedType(at, rlen) = 5 \/ Analyzer!FixedType(at, rlen) = 6
    BY Zenon DEF Analyzer!FixedType, Analyzer!RESP_FIXED, Analyzer!RESP_LEN, Analyzer!RESP_CKSUM,
                 Analyzer!RESP_SUSPECT
  <2> QED
    BY <1>7, <2>1
<1>9. PICK r \in Runs : r = [at |-> at, rlen |-> rlen, rtype |-> shown]
  BY DEF Runs
<1>10. report' = Append(report, r)
  BY <1>4, <1>5, <1>6, <1>8, <1>9, Zenon DEF Analyzer!ShowRun
<1>11. RunShown(r)
  <2>1. r.at = at /\ r.rlen = rlen /\ r.rtype = shown
    BY <1>9
  <2>2. at \in Nat \ {0} /\ at + rlen - 1 <= Len(original)
    BY <1>3, <1>4, <1>5
  <2> QED
    BY <1>7, <1>8, <2>1, <2>2 DEF RunShown
<1>12. Annotated'
  <2>1. report \in Seq(Runs)
    BY DEF Annotated
  <2>2. /\ report' \in Seq(Runs) /\ Len(report') = n + 1 /\ report'[n + 1] = r
        /\ \A k \in 1 .. n : report'[k] = report[k]
    BY <1>3, <1>10, <2>1
  <2>3. \A x : RunShown(x)' <=> RunShown(x)
    BY <1>1 DEF RunShown
  <2>4. \A k \in 1 .. n + 1 : k \in 1 .. n \/ k = n + 1
    BY <1>3
  <2>5. \A k \in 1 .. n + 1 : RunShown(report'[k])
    BY <1>3, <1>11, <2>2, <2>4 DEF Annotated
  <2>6. \A k \in 1 .. n + 1 :
          report'[k].at = IF k = 1 THEN 1 ELSE report'[k - 1].at + report'[k - 1].rlen
    <3>1. \A k \in 1 .. n : k = 1 \/ k - 1 \in 1 .. n
      BY <1>3
    <3>2. \A k \in 1 .. n : report[k].at = IF k = 1 THEN 1 ELSE report[k - 1].at + report[k - 1].rlen
      BY <1>3 DEF Annotated
    <3>3. \A k \in 1 .. n : report'[k].at = IF k = 1 THEN 1 ELSE report'[k - 1].at + report'[k - 1].rlen
      BY <2>2, <3>1, <3>2, Zenon
    <3>4. ASSUME NEW k \in 1 .. n + 1
          PROVE  report'[k].at = IF k = 1 THEN 1 ELSE report'[k - 1].at + report'[k - 1].rlen
      <4>1. CASE k \in 1 .. n
        BY <3>3, <4>1, Zenon
      <4>2. CASE k = n + 1
        <5>1. k - 1 = n /\ (k = 1 <=> n = 0) /\ (n # 0 => n \in 1 .. n)
          BY <1>3, <4>2
        <5>2. report'[k].at = at
          BY <1>9, <2>2, <4>2
        <5>3. n # 0 => report'[k - 1] = report[n]
          BY <2>2, <5>1, Zenon
        <5> QED
          BY <1>4, <5>1, <5>2, <5>3
      <4> QED
        BY <2>4, <4>1, <4>2
    <3> QED
      BY <3>4
  <2>7. i' = Len(original')
    BY <1>1
  <2>8. (\A k \in 1 .. Len(report) : RunShown(report[k]))'
    BY <2>2, <2>3, <2>5, Zenon
  <2>9. (\A k \in 1 .. Len(report) :
          report[k].at = IF k = 1 THEN 1 ELSE report[k - 1].at + report[k - 1].rlen)'
    BY <2>2, <2>6, Zenon
  <2> QED
    BY <2>2, <2>7, <2>8, <2>9, Zenon DEF Annotated
<1> QED
  BY <1>2, <1>12

(* Every byte of every file is changed in four ways and put back, and what *)
(* is shown makes up the file and plays no byte down.                      *)
THEOREM AnnotationsAreWell == Spec => []AnalyzedWell
<1>1. AnalyzeInv /\ [Next]_vars => AnalyzeInv'
  <2> SUFFICES ASSUME AnalyzeInv, [Next]_vars, running' = "analyze"
               PROVE  AnalyzeTypes' /\ Perturbed' /\ Annotated'
    BY DEF AnalyzeInv
  <2>1. running = "analyze" /\ (Analyzer!Next \/ UNCHANGED vars)
    BY Steps
  <2>2. AnalyzeTypes /\ Perturbed /\ Annotated
    BY <2>1 DEF AnalyzeInv
  <2>3. CASE UNCHANGED vars
    <3>1. UNCHANGED <<in_data, i, b_data, report, original, tried>>
      BY <2>3 DEF vars, sharedVars, analyzerVars
    <3> QED
      BY <2>2, <3>1 DEF AnalyzeTypes, Perturbed, Annotated, RunShown
  <2> QED
    BY <2>1, <2>2, <2>3, AnalyzeByteStep, ShowRunStep DEF Analyzer!Next
<1>2. AnalyzeInv => AnalyzedWell
  <2> SUFFICES ASSUME AnalyzeInv, running = "analyze"
               PROVE  Analyzer!PerturbsOneByte /\ Analyzer!AnnotationsSound
    BY DEF AnalyzedWell
  <2>1. AnalyzeTypes /\ Perturbed /\ Annotated
    BY DEF AnalyzeInv
  <2>2. Analyzer!PerturbsOneByte
    BY <2>1, Zenon DEF Analyzer!PerturbsOneByte, AnalyzeTypes, Perturbed
  <2>3. DOMAIN report = 1 .. Len(report)
    BY <2>1 DEF Annotated
  <2>4. ASSUME NEW n \in 1 .. Len(report)
        PROVE  \A k \in report[n].at .. report[n].at + report[n].rlen - 1 :
                 /\ k \in DOMAIN original
                 /\ report[n].rtype \in {0, 1} => b_data[k].type <= report[n].rtype
    <3>1. RunShown(report[n])
      BY <2>1 DEF Annotated
    <3>2. PICK a \in Nat \ {0}, l \in Nat \ {0}, len \in Nat :
            a = report[n].at /\ l = report[n].rlen /\ len = Len(original) /\ a + l - 1 <= len
      <4>1. Len(original) \in Nat
        BY <2>1 DEF AnalyzeTypes
      <4> QED
        BY <3>1, <4>1, Zenon DEF RunShown
    <3>3. \A k \in a .. a + l - 1 : k \in 1 .. len
      BY <3>2
    <3>4. DOMAIN original = 1 .. len
      BY <2>1, <3>2 DEF AnalyzeTypes
    <3> QED
      BY <3>1, <3>2, <3>3, <3>4, Zenon DEF RunShown
  <2>5. \A n \in 1 .. Len(report) :
          report[n].at = IF n = 1 THEN 1 ELSE report[n - 1].at + report[n - 1].rlen
    BY <2>1 DEF Annotated
  <2>6. Analyzer!AnnotationsSound
    BY <2>3, <2>4, <2>5, Zenon DEF Analyzer!AnnotationsSound, Analyzer!RESP_NONE, Analyzer!RESP_MINOR
  <2> QED
    BY <2>2, <2>6
<1> QED
  BY AnalyzeInit, <1>1, <1>2, PTL DEF Spec

-----------------------------------------------------------------------------
(* The start of a target                                                   *)

FileNames == {"none", "relative", "absolute", "temporary", "absolute temporary", "cur_input"}

FullNames == {"absolute", "cwd/relative", "cwd/temporary", "absolute temporary", "cwd/cur_input"}

\* The provers do not know that a name is a string.
Pieces == STRING \cup FullNames \cup {"none"}

Lines == Seq(Seq(Pieces)) \ {<<>>}

TargetTypes ==
    /\ program \in DOMAIN ToolOptions \cup {"afl-fuzz"} /\ user \in Lines /\ file \in FileNames

\* "none" comes with an -m, of which there is one.
Limited ==
    /\ mem_limit \in Nat /\ (mem_limit = 0 <=> none_given) /\ (mem_limit # 0 => mem_limit >= 5)
    /\ none_given => "m" \in flag
    /\ "m" \notin flag => mem_limit = IF "Q" \in flag /\ program # "afl-fuzz" THEN 200 ELSE 50

\* An argument is the user's, or has the full name of the file in it.
ArgRight(new, old) ==
    /\ ~TargetStart!HasFile(old) => new = old
    /\ TargetStart!HasFile(old) =>
         Len(new) = Len(old) /\ \E piece \in TargetStart!ToSet(new) : piece \in FullNames

ArgsRight(line_) ==
    line_ \in Lines /\ Len(line_) = Len(user) /\ \A k \in 2 .. Len(user) : ArgRight(line_[k], user[k])

\* The tools look for the program and then replace @@, afl-fuzz the other way round.
ArgsKnown ==
    /\ stage = "options" \/ stage = "environment" \/ stage = "arguments"
         \/ (stage = "program" /\ program # "afl-fuzz") => argv = user
    /\ stage = "options" => program # "afl-fuzz"
    /\ stage = "qemu" \/ (stage = "program" /\ program = "afl-fuzz") => ArgsRight(argv)
    /\ stage = "program" \/ stage = "arguments" =>
         (program = "afl-tmin" \/ program = "afl-analyze" => file # "none")

LookedUp(place_) ==
    /\ place_ \in Nat \ {0} /\ searched[place_] = "fit"
    /\ \A k \in 1 .. place_ - 1 : searched[k] # "fit"

\* What the stages before have settled.
Settled ==
    /\ stage = "qemu" \/ (stage = "arguments" /\ program # "afl-fuzz") => LookedUp(target_path)
    /\ stage = "program" \/ stage = "arguments" \/ stage = "qemu" \/ stage = "ready" =>
         (program # "afl-showmap" => env # "lacking")
    /\ (stage = "qemu" \/ stage = "ready") /\ program = "afl-fuzz" /\ ~skipped =>
         \A b \in binary :
           /\ b.kind = "ELF"
           /\ b.instrumented \/ flag # {}
           /\ ~(b.instrumented /\ "Q" \in flag)
           /\ (persistent_mode <=> b.persistent) /\ (deferred_mode <=> b.deferred)

TargetParts == TargetTypes /\ Limited /\ ArgsKnown /\ Settled /\ TargetStart!ExecutesTarget

TargetInv == running = "target" => TargetParts

(* At the start nothing is limited but by default.                         *)
LEMMA TargetInit == Init => TargetInv
<1> SUFFICES ASSUME Init, running = "target" PROVE TargetParts
  BY DEF TargetInv
<1>1. TargetStart!Init
  BY DEF Init
<1>2. TargetTypes
  <2>1. user \in Seq(Seq(STRING)) \ {<<>>} /\ file \in {"none", "relative", "absolute"}
          /\ program \in DOMAIN ToolOptions \cup {"afl-fuzz"}
    BY <1>1, TargetAssumption, Zenon DEF TargetStart!Init
  <2>2. \A x \in Seq(STRING) : x \in Seq(Pieces)
    BY DEF Pieces
  <2>3. user \in Lines
    BY <2>1, <2>2 DEF Lines
  <2> QED
    BY <2>1, <2>3 DEF TargetTypes, FileNames
<1>3. Limited
  <2>1. mem_limit = 50 /\ none_given = FALSE
    BY <1>1 DEF TargetStart!Init, TargetStart!Default
  <2>2. program # "afl-fuzz" => flag = {}
    BY <1>1 DEF TargetStart!Init
  <2> QED
    BY <2>1, <2>2 DEF Limited
<1>4. argv = user /\ (stage = "options" \/ stage = "environment")
  BY <1>1 DEF TargetStart!Init
<1>5. ArgsKnown
  BY <1>1, <1>4 DEF ArgsKnown, TargetStart!Init
<1>6. Settled /\ TargetStart!ExecutesTarget
  BY <1>4 DEF Settled, TargetStart!ExecutesTarget
<1> QED
  BY <1>2, <1>3, <1>5, <1>6 DEF TargetParts

(* The limit changes with -m and -Q only.                                  *)
LEMMA LimitKept ==
    ASSUME Limited, UNCHANGED <<mem_limit, none_given, program>>,
           "m" \in flag' <=> "m" \in flag, "Q" \in flag' <=> "Q" \in flag
    PROVE  Limited'
  BY DEF Limited

LEMMA MarkKeeps ==
    ASSUME Limited, NEW o, TargetStart!Mark(o), o # "m", o # "Q", program' = program
    PROVE  Limited' /\ UNCHANGED stage
<1>1. UNCHANGED <<mem_limit, none_given, program, stage>> /\ flag' = flag \cup {o}
  BY DEF TargetStart!Mark
<1>2. ("m" \in flag' <=> "m" \in flag) /\ ("Q" \in flag' <=> "Q" \in flag)
  BY <1>1
<1> QED
  BY <1>1, <1>2, LimitKept

LEMMA MemLimitKeeps ==
    ASSUME Limited, TargetStart!MemLimitOption, "m" \notin flag, program' = program
    PROVE  Limited' /\ (stage' = stage \/ stage' = "failed")
<1>1. ~none_given
  BY DEF Limited
<1>2. CASE mem_limit' = 0 /\ none_given' = TRUE /\ flag' = flag \cup {"m"} /\ UNCHANGED stage
  <2>1. "m" \in flag'
    BY <1>2
  <2> QED
    BY <1>2, <2>1 DEF Limited
<1>3. CASE UNCHANGED <<mem_limit, none_given, flag>> /\ stage' = "failed"
  BY <1>3, LimitKept
<1>4. CASE /\ \E n \in Nat : n >= 5 /\ mem_limit' = n
           /\ flag' = flag \cup {"m"} /\ none_given' = none_given /\ stage' = stage
  <2>1. "m" \in flag'
    BY <1>4
  <2>2. mem_limit' \in Nat /\ mem_limit' # 0 /\ mem_limit' >= 5
    BY <1>4
  <2> QED
    BY <1>1, <1>4, <2>1, <2>2 DEF Limited
<1>5. \A l \in TargetStart!MemLimits : TargetStart!Megabytes(l[1], l[2]) \in Nat
  BY DEF TargetStart!MemLimits, TargetStart!Megabytes
<1>6. \/ mem_limit' = 0 /\ none_given' = TRUE /\ flag' = flag \cup {"m"} /\ UNCHANGED stage
      \/ \E n \in Nat :
           IF n < 5 THEN UNCHANGED <<mem_limit, none_given, flag>> /\ stage' = "failed"
           ELSE mem_limit' = n /\ flag' = flag \cup {"m"} /\ none_given' = none_given /\ stage' = stage
  BY <1>5, Zenon DEF TargetStart!MemLimitOption, TargetStart!Fail
<1>7. \A n \in Nat : ~(n < 5) => n >= 5
  OBVIOUS
<1> QED
  BY <1>2, <1>3, <1>4, <1>6, <1>7, Zenon

LEMMA QemuKeeps ==
    ASSUME Limited, TargetStart!QemuOption, program # "afl-fuzz", program' = program
    PROVE  Limited' /\ UNCHANGED stage
<1>1. /\ mem_limit' = (IF "m" \in flag THEN mem_limit ELSE 200)
      /\ flag' = flag \cup {"Q"} /\ none_given' = none_given /\ stage' = stage
  BY DEF TargetStart!QemuOption, TargetStart!Qemu
<1>2. "Q" \in flag' /\ ("m" \in flag' <=> "m" \in flag)
  BY <1>1
<1>3. "m" \notin flag => ~none_given
  BY DEF Limited
<1> QED
  BY <1>1, <1>2, <1>3 DEF Limited

LEMMA TimeoutKeeps ==
    ASSUME Limited, NEW least, TargetStart!TimeoutOption(least), program' = program
    PROVE  Limited' /\ (stage' = stage \/ stage' = "failed")
<1>1. UNCHANGED <<mem_limit, none_given>> /\ (flag' = flag \/ flag' = flag \cup {"t"})
        /\ (stage' = stage \/ stage' = "failed")
  BY Zenon DEF TargetStart!TimeoutOption, TargetStart!Fail
<1>2. ("m" \in flag' <=> "m" \in flag) /\ ("Q" \in flag' <=> "Q" \in flag)
  BY <1>1
<1> QED
  BY <1>1, <1>2, LimitKept

(* An option of a tool is taken or refused.                                *)
LEMMA ToolOptionStep ==
    ASSUME TargetTypes, Limited, NEW o,
           \/ TargetStart!GetTminOption(o) \/ TargetStart!GetAnalyzeOption(o)
           \/ TargetStart!GetShowmapOption(o)
    PROVE  /\ stage = "options" /\ (stage' = "options" \/ stage' = "failed")
           /\ TargetTypes' /\ Limited'
           /\ UNCHANGED <<program, user, env, searched, binary, skipped, persistent_mode,
                          deferred_mode, target_path, argv>>
<1>1. /\ stage = "options" /\ (file' = file \/ file' \in {"relative", "absolute"})
      /\ UNCHANGED <<program, user, env, searched, binary, skipped, persistent_mode,
                     deferred_mode, target_path, argv>>
  <2>1. file' = file \/ file' \in {"relative", "absolute"}
    BY Zenon DEF TargetStart!GetTminOption, TargetStart!GetAnalyzeOption, TargetStart!GetShowmapOption,
                 TargetStart!Refused
  <2> QED
    BY <2>1 DEF TargetStart!GetTminOption, TargetStart!GetAnalyzeOption, TargetStart!GetShowmapOption,
           TargetStart!OthersAsBefore, TargetStart!found
<1>2. TargetTypes'
  BY <1>1 DEF TargetTypes, FileNames
<1>3. ASSUME UNCHANGED <<flag, mem_limit, none_given>>, stage' = "failed"
      PROVE  Limited' /\ (stage' = "options" \/ stage' = "failed")
  BY <1>1, <1>3, LimitKept
<1>4. ASSUME program # "afl-fuzz",
             \/ TargetStart!MemLimitOption /\ "m" \notin flag
             \/ TargetStart!QemuOption
             \/ TargetStart!TimeoutOption(10)
             \/ TargetStart!TimeoutOption(20)
             \/ TargetStart!Mark(o) /\ o # "m" /\ o # "Q"
      PROVE  Limited' /\ (stage' = "options" \/ stage' = "failed")
  BY <1>1, <1>4, MemLimitKeeps, QemuKeeps, TimeoutKeeps, MarkKeeps, Zenon
<1>5. ASSUME TargetStart!GetTminOption(o)
      PROVE  Limited' /\ (stage' = "options" \/ stage' = "failed")
  <2>1. /\ program = "afl-tmin" /\ program # "afl-fuzz"
        /\ o \in {"i", "o", "f", "m", "t", "B", "x", "e", "Q"}
    BY <1>5, TargetAssumption DEF TargetStart!GetTminOption, TargetTypes
  <2>2. CASE o \in flag
    <3>1. UNCHANGED <<flag, mem_limit, none_given, exec_tmout, use_stdin, file, quiet_mode, cmin_mode>>
            /\ stage' = "failed"
      BY <1>5, <2>2, Zenon DEF TargetStart!GetTminOption, TargetStart!Fail, TargetStart!Refused
    <3> QED
      BY <1>3, <3>1
  <2>3. CASE o \notin flag
    <3>1. (CASE o = "m" -> TargetStart!MemLimitOption [] o = "Q" -> TargetStart!QemuOption
             [] o = "t" -> TargetStart!TimeoutOption(10)
             [] o \in {"i", "o", "f", "e", "x"} -> TargetStart!Mark(o)
             [] o = "B" -> \/ TargetStart!Mark(o)
                           \/ TargetStart!Fail("B") /\ UNCHANGED <<flag, mem_limit, none_given>>)
      BY <1>5, <2>3, Zenon DEF TargetStart!GetTminOption
    <3>2. \/ TargetStart!MemLimitOption /\ o = "m"
          \/ TargetStart!QemuOption \/ TargetStart!TimeoutOption(10)
          \/ TargetStart!Mark(o) /\ o # "m" /\ o # "Q"
          \/ TargetStart!Fail("B") /\ UNCHANGED <<flag, mem_limit, none_given>>
      BY <2>1, <3>1
    <3> QED
      <4>1. CASE TargetStart!Fail("B") /\ UNCHANGED <<flag, mem_limit, none_given>>
        BY <1>3, <4>1 DEF TargetStart!Fail
      <4>2. CASE TargetStart!MemLimitOption /\ o = "m"
        BY <1>4, <2>1, <2>3, <4>2, Zenon
      <4> QED
        BY <1>4, <2>1, <3>2, <4>1, <4>2, Zenon
  <2> QED
    BY <2>2, <2>3
<1>6. ASSUME TargetStart!GetAnalyzeOption(o)
      PROVE  Limited' /\ (stage' = "options" \/ stage' = "failed")
  <2>1. /\ program = "afl-analyze" /\ program # "afl-fuzz"
        /\ o \in {"i", "f", "m", "t", "e", "Q"}
    BY <1>6, TargetAssumption DEF TargetStart!GetAnalyzeOption, TargetTypes
  <2>2. CASE o \in flag
    <3>1. UNCHANGED <<flag, mem_limit, none_given, exec_tmout, use_stdin, file, quiet_mode, cmin_mode>>
            /\ stage' = "failed"
      BY <1>6, <2>2, Zenon DEF TargetStart!GetAnalyzeOption, TargetStart!Fail, TargetStart!Refused
    <3> QED
      BY <1>3, <3>1
  <2>3. CASE o \notin flag
    <3>1. (CASE o = "m" -> TargetStart!MemLimitOption [] o = "Q" -> TargetStart!QemuOption
             [] o = "t" -> TargetStart!TimeoutOption(10)
             [] o \in {"i", "f", "e"} -> TargetStart!Mark(o))
      BY <1>6, <2>3, Zenon DEF TargetStart!GetAnalyzeOption
    <3>2. \/ TargetStart!MemLimitOption /\ o = "m"
          \/ TargetStart!QemuOption \/ TargetStart!TimeoutOption(10)
          \/ TargetStart!Mark(o) /\ o # "m" /\ o # "Q"
      BY <2>1, <3>1
    <3> QED
      <4>1. CASE TargetStart!MemLimitOption /\ o = "m"
        BY <1>4, <2>1, <2>3, <4>1, Zenon
      <4> QED
        BY <1>4, <2>1, <3>2, <4>1, Zenon
  <2> QED
    BY <2>2, <2>3
<1>7. ASSUME TargetStart!GetShowmapOption(o)
      PROVE  Limited' /\ (stage' = "options" \/ stage' = "failed")
  <2>1. /\ program = "afl-showmap" /\ program # "afl-fuzz"
        /\ o \in {"o", "m", "t", "A", "e", "q", "Z", "Q", "b", "c"}
    BY <1>7, TargetAssumption DEF TargetStart!GetShowmapOption, TargetTypes
  <2> DEFINE refused == \/ o \in flag /\ o \notin {"Z", "A", "b", "q"}
                        \/ o = "q" /\ quiet_mode
  <2>2. CASE refused
    <3>1. UNCHANGED <<flag, mem_limit, none_given, exec_tmout, use_stdin, file, quiet_mode, cmin_mode>>
            /\ stage' = "failed"
      BY <1>7, <2>2, Zenon DEF TargetStart!GetShowmapOption, TargetStart!Fail, TargetStart!Refused
    <3> QED
      BY <1>3, <3>1
  <2>3. CASE ~refused
    <3>1. (CASE o = "m" -> TargetStart!MemLimitOption [] o = "Q" -> TargetStart!QemuOption
             [] o = "t" -> TargetStart!TimeoutOption(20) \/ (TargetStart!Mark(o) /\ UNCHANGED exec_tmout)
             [] o \in {"o", "e", "q", "Z", "A", "b", "c"} -> TargetStart!Mark(o))
      BY <1>7, <2>3, Zenon DEF TargetStart!GetShowmapOption
    <3>2. \/ TargetStart!MemLimitOption /\ o = "m"
          \/ TargetStart!QemuOption \/ TargetStart!TimeoutOption(20)
          \/ TargetStart!Mark(o) /\ o # "m" /\ o # "Q"
      BY <2>1, <3>1
    <3>3. o = "m" => "m" \notin flag
      BY <2>3
    <3> QED
      <4>1. CASE TargetStart!MemLimitOption /\ o = "m"
        BY <1>4, <2>1, <3>3, <4>1, Zenon
      <4> QED
        BY <1>4, <2>1, <3>2, <4>1, Zenon
  <2> QED
    BY <2>2, <2>3
<1> QED
  BY <1>1, <1>2, <1>5, <1>6, <1>7

(* The first @@ of an argument makes room for the name.                    *)
LEMMA NamePut ==
    ASSUME NEW arg \in Seq(Pieces), TargetStart!HasFile(arg), NEW f \in FileNames
    PROVE  /\ TargetStart!Replaced(arg, f) \in Seq(Pieces) /\ Len(TargetStart!Replaced(arg, f)) = Len(arg)
           /\ f # "none" => \E piece \in TargetStart!ToSet(TargetStart!Replaced(arg, f)) : piece \in FullNames
<1> DEFINE places == {k \in 1 .. Len(arg) : arg[k] = "@@"}
<1>1. places \subseteq Nat /\ places # {}
  BY DEF TargetStart!HasFile, TargetStart!ToSet
<1>2. \E k \in places : \A y \in places : k =< y
  BY <1>1, LeastElement
<1>3. TargetStart!Min(places) \in places
  BY <1>2, Zenon DEF TargetStart!Min
<1>4. PICK at \in 1 .. Len(arg) : at = TargetStart!SelectInSeq(arg, LAMBDA piece : piece = "@@")
  <2>1. TargetStart!SelectInSeq(arg, LAMBDA piece : piece = "@@")
          = IF places # {} THEN TargetStart!Min(places) ELSE 0
    BY Zenon DEF TargetStart!SelectInSeq
  <2> QED
    BY <1>1, <1>3, <2>1
<1>5. PICK name : /\ name = TargetStart!FullName(f) /\ name \in Pieces
                  /\ f # "none" => name \in FullNames
  <2>1. f = "none" \/ f = "relative" \/ f = "absolute" \/ f = "temporary"
          \/ f = "absolute temporary" \/ f = "cur_input"
    BY DEF FileNames
  <2>2. TargetStart!FullName(f) \in Pieces /\ (f # "none" => TargetStart!FullName(f) \in FullNames)
    <3>1. f = "relative" => TargetStart!FullName(f) = "cwd/relative"
      BY DEF TargetStart!FullName
    <3>2. f = "temporary" => TargetStart!FullName(f) = "cwd/temporary"
      BY DEF TargetStart!FullName
    <3>3. f = "cur_input" => TargetStart!FullName(f) = "cwd/cur_input"
      BY DEF TargetStart!FullName
    <3>4. f = "none" \/ f = "absolute" \/ f = "absolute temporary" => TargetStart!FullName(f) = f
      BY DEF TargetStart!FullName
    <3> QED
      <4>1. PICK name : name = TargetStart!FullName(f)
        OBVIOUS
      <4>2. \/ f = "none" /\ name = "none"
            \/ name = "absolute" \/ name = "absolute temporary"
            \/ name = "cwd/relative" \/ name = "cwd/temporary" \/ name = "cwd/cur_input"
        BY <2>1, <3>1, <3>2, <3>3, <3>4, <4>1, Zenon
      <4>3. name \in Pieces
        BY <4>2 DEF Pieces, FullNames
      <4>4. f # "none" => name \in FullNames
        BY <4>2 DEF FullNames
      <4> QED
        BY <4>1, <4>3, <4>4, Zenon
  <2> QED
    BY <2>2
<1>6. PICK new : new = TargetStart!Replaced(arg, f)
  OBVIOUS
<1>7. new = [arg EXCEPT ![at] = name]
  BY <1>4, <1>5, <1>6, Zenon DEF TargetStart!Replaced, TargetStart!ReplaceAt
<1> HIDE DEF places
<1>8. new \in Seq(Pieces) /\ Len(new) = Len(arg) /\ at \in DOMAIN new /\ new[at] = name
  BY <1>5, <1>7
<1>9. f # "none" => \E piece \in TargetStart!ToSet(new) : piece \in FullNames
  BY <1>5, <1>8, Zenon DEF TargetStart!ToSet
<1> QED
  BY <1>6, <1>8, <1>9

(* The arguments keep their number and order.                              *)
LEMMA ArgumentsOf ==
    ASSUME user \in Lines, argv = user, NEW f \in FileNames
    PROVE  /\ TargetStart!Arguments(f) \in Lines /\ Len(TargetStart!Arguments(f)) = Len(user)
           /\ \A k \in 1 .. Len(user) : f # "none" \/ ~TargetStart!HasFile(user[k]) =>
                                          ArgRight(TargetStart!Arguments(f)[k], user[k])
<1>1. user \in Seq(Seq(Pieces)) /\ user # <<>>
  BY DEF Lines
<1>2. PICK n \in Nat : n = Len(user) /\ n # 0 /\ DOMAIN user = 1 .. n
  BY <1>1
<1>3. \A k \in 1 .. n : user[k] \in Seq(Pieces)
  BY <1>1, <1>2
<1>4. PICK new : new = TargetStart!Arguments(f)
  OBVIOUS
<1>5. new = [k \in 1 .. n |-> IF TargetStart!HasFile(user[k]) THEN TargetStart!Replaced(user[k], f) ELSE user[k]]
  BY <1>2, <1>4, Zenon DEF TargetStart!Arguments
<1>6. ASSUME NEW k \in 1 .. n
      PROVE  /\ new[k] \in Seq(Pieces)
             /\ f # "none" \/ ~TargetStart!HasFile(user[k]) => ArgRight(new[k], user[k])
  <2>1. user[k] \in Seq(Pieces)
    BY <1>3
  <2>2. CASE TargetStart!HasFile(user[k])
    <3>1. new[k] = TargetStart!Replaced(user[k], f)
      BY <1>5, <2>2, Zenon
    <3>2. /\ new[k] \in Seq(Pieces) /\ Len(new[k]) = Len(user[k])
          /\ f # "none" => \E piece \in TargetStart!ToSet(new[k]) : piece \in FullNames
      BY <2>1, <2>2, <3>1, NamePut, Zenon
    <3> QED
      BY <2>2, <3>2, Zenon DEF ArgRight
  <2>3. CASE ~TargetStart!HasFile(user[k])
    <3>1. new[k] = user[k]
      BY <1>5, <2>3, Zenon
    <3> QED
      BY <2>1, <2>3, <3>1, Zenon DEF ArgRight
  <2> QED
    BY <2>2, <2>3
<1>7. new \in Seq(Seq(Pieces)) /\ Len(new) = n
  BY <1>2, <1>5, <1>6
<1>8. new # <<>>
  BY <1>2, <1>7
<1> QED
  BY <1>2, <1>4, <1>6, <1>7, <1>8, Zenon DEF Lines

(* The first place that fits is found.                                     *)
LEMMA FirstFound ==
    ASSUME NEW places \in TargetStart!Searches, TargetStart!Fits(places) # {},
           searched' = places, target_path' = TargetStart!FirstFit(places)
    PROVE  LookedUp(target_path)'
<1>1. DOMAIN places \subseteq Nat \ {0} /\ \A k \in DOMAIN places : 1 .. k - 1 \subseteq DOMAIN places
  BY DEF TargetStart!Searches
<1>2. PICK fits : fits = TargetStart!Fits(places)
  OBVIOUS
<1>3. fits = {k \in DOMAIN places : places[k] = "fit"}
  BY <1>2 DEF TargetStart!Fits
<1>4. fits \subseteq Nat /\ fits # {}
  BY <1>1, <1>2, <1>3
<1>5. \E k \in fits : \A y \in fits : k =< y
  BY <1>4, LeastElement
<1>6. PICK first \in fits : first = TargetStart!FirstFit(places) /\ \A y \in fits : first =< y
  BY <1>2, <1>5, Zenon DEF TargetStart!FirstFit
<1>7. first \in Nat \ {0} /\ places[first] = "fit" /\ first \in DOMAIN places
  BY <1>1, <1>3, <1>6
<1>8. \A k \in 1 .. first - 1 : k \in DOMAIN places /\ ~(first =< k)
  BY <1>1, <1>7
<1>9. \A k \in 1 .. first - 1 : places[k] # "fit"
  BY <1>3, <1>6, <1>8, Zenon
<1>10. target_path' = first /\ searched' = places
  BY <1>6
<1> QED
  BY <1>7, <1>9, <1>10, Zenon DEF LookedUp

(* Only a step to the last stage has to look at what is executed.          *)
LEMMA NotReady == ASSUME stage' # "ready" PROVE TargetStart!ExecutesTarget'
  BY DEF TargetStart!ExecutesTarget

LEMMA LimitUntouched == ASSUME Limited, UNCHANGED <<flag, mem_limit, none_given, program>> PROVE Limited'
  BY DEF Limited

(* The options and the environment.                                        *)
LEMMA OptionsEnd ==
    ASSUME TargetParts,
           \/ \E o \in TargetStart!AllOptions :
                TargetStart!GetTminOption(o) \/ TargetStart!GetAnalyzeOption(o) \/ TargetStart!GetShowmapOption(o)
           \/ TargetStart!EndOptions
    PROVE  TargetParts'
<1>1. TargetTypes /\ Limited /\ ArgsKnown
  BY DEF TargetParts
<1>2. /\ stage = "options" /\ (stage' = "options" \/ stage' = "environment" \/ stage' = "failed")
      /\ TargetTypes' /\ Limited'
      /\ UNCHANGED <<program, user, argv>>
  <2>1. CASE \E o \in TargetStart!AllOptions :
               TargetStart!GetTminOption(o) \/ TargetStart!GetAnalyzeOption(o) \/ TargetStart!GetShowmapOption(o)
    BY <1>1, <2>1, ToolOptionStep
  <2>2. CASE TargetStart!EndOptions
    <3>1. /\ stage = "options" /\ (stage' = "environment" \/ stage' = "failed")
          /\ UNCHANGED <<program, user, argv, file, flag, mem_limit, none_given>>
      BY <2>2 DEF TargetStart!EndOptions, TargetStart!Fail, TargetStart!set
    <3> QED
      BY <1>1, <3>1, LimitUntouched DEF TargetTypes
  <2> QED
    BY <2>1, <2>2
<1>3. argv = user /\ program # "afl-fuzz"
  BY <1>1, <1>2 DEF ArgsKnown
<1>4. ArgsKnown'
  BY <1>2, <1>3 DEF ArgsKnown
<1>5. Settled'
  BY <1>2 DEF Settled
<1> QED
  BY <1>2, <1>4, <1>5, NotReady DEF TargetParts

LEMMA EnvironmentSteps ==
    ASSUME TargetParts,
           TargetStart!set_up_environment \/ TargetStart!set_up_showmap \/ TargetStart!check_asan_opts
    PROVE  TargetParts'
<1>1. TargetTypes /\ Limited /\ ArgsKnown
  BY DEF TargetParts
<1>2. /\ stage = "environment" /\ UNCHANGED <<program, user, argv, flag, mem_limit, none_given>>
      /\ \/ stage' = "failed"
         \/ stage' = "program" /\ program # "afl-fuzz"
         \/ stage' = "arguments" /\ program = "afl-fuzz"
      /\ stage' # "failed" /\ program # "afl-showmap" => env' # "lacking"
      /\ IF program = "afl-tmin" \/ program = "afl-analyze"
           THEN file' \in IF file = "none" THEN TargetStart!Temporary ELSE {file}
           ELSE file' = file
  BY DEF TargetStart!set_up_environment, TargetStart!set_up_showmap, TargetStart!check_asan_opts,
         TargetStart!Fail, TargetStart!set
<1>3. TargetTypes'
  BY <1>1, <1>2 DEF TargetTypes, FileNames, TargetStart!Temporary
<1>4. Limited'
  BY <1>1, <1>2, LimitUntouched
<1>5. argv = user
  BY <1>1, <1>2 DEF ArgsKnown
<1>6. ArgsKnown'
  BY <1>2, <1>5 DEF ArgsKnown, TargetStart!Temporary
<1>7. Settled'
  BY <1>2 DEF Settled
<1> QED
  BY <1>2, <1>3, <1>4, <1>6, <1>7, NotReady DEF TargetParts

(* The tools look for the target before its arguments.                     *)
LEMMA FindBinaryStep ==
    ASSUME TargetParts, TargetStart!find_binary
    PROVE  TargetParts'
<1>1. TargetTypes /\ Limited /\ ArgsKnown /\ Settled
  BY DEF TargetParts
<1>2. /\ stage = "program" /\ program # "afl-fuzz"
      /\ UNCHANGED <<program, user, argv, flag, mem_limit, none_given, file, env>>
  BY DEF TargetStart!find_binary, TargetStart!set
<1>3. \/ stage' = "failed"
      \/ stage' = "arguments" /\ LookedUp(target_path)'
  <2>1. PICK places \in TargetStart!Searches :
          /\ searched' = places
          /\ IF TargetStart!Fits(places) = {} THEN stage' = "failed"
             ELSE target_path' = TargetStart!FirstFit(places) /\ stage' = "arguments"
    BY Zenon DEF TargetStart!find_binary, TargetStart!Fail
  <2> QED
    BY <2>1, FirstFound, Zenon
<1>4. TargetTypes' /\ Limited'
  BY <1>1, <1>2, LimitUntouched DEF TargetTypes
<1>5. argv = user /\ (program = "afl-tmin" \/ program = "afl-analyze" => file # "none")
  BY <1>1, <1>2 DEF ArgsKnown
<1>6. ArgsKnown'
  BY <1>2, <1>3, <1>5 DEF ArgsKnown
<1>7. program # "afl-showmap" => env # "lacking"
  BY <1>1, <1>2 DEF Settled
<1>8. Settled'
  BY <1>2, <1>3, <1>7, Zenon DEF Settled
<1>9. stage' # "ready"
  BY <1>3
<1> QED
  BY <1>4, <1>6, <1>8, <1>9, NotReady DEF TargetParts

(* afl-fuzz looks into it besides.                                         *)
LEMMA CheckBinaryStep ==
    ASSUME TargetParts, TargetStart!check_binary
    PROVE  TargetParts'
<1>1. TargetTypes /\ Limited /\ ArgsKnown /\ Settled
  BY DEF TargetParts
<1>2. /\ stage = "program" /\ program = "afl-fuzz"
      /\ UNCHANGED <<program, user, argv, flag, mem_limit, none_given, file, env>>
  BY DEF TargetStart!check_binary, TargetStart!set
<1>3. PICK places \in TargetStart!Searches, b \in TargetStart!Binaries, skip \in BOOLEAN :
        /\ searched' = places
        /\ IF TargetStart!Fits(places) = {} THEN stage' = "failed"
           ELSE /\ binary' = {b} /\ skipped' = skip /\ target_path' = TargetStart!FirstFit(places)
                /\ IF ~skip /\ ~TargetStart!Suits(b) THEN stage' = "failed" ELSE stage' = "qemu"
        /\ persistent_mode' = ((stage' = "qemu" /\ ~skip) /\ b.persistent)
        /\ deferred_mode' = ((stage' = "qemu" /\ ~skip) /\ b.deferred)
  BY Zenon DEF TargetStart!check_binary, TargetStart!Fail
<1>4. CASE stage' = "failed"
  <2>1. TargetTypes' /\ Limited'
    BY <1>1, <1>2, LimitUntouched DEF TargetTypes
  <2>2. ArgsKnown' /\ Settled'
    BY <1>4 DEF ArgsKnown, Settled
  <2> QED
    BY <1>4, <2>1, <2>2, NotReady DEF TargetParts
<1>5. CASE stage' # "failed"
  <2>1. /\ stage' = "qemu" /\ binary' = {b} /\ skipped' = skip /\ (skip \/ TargetStart!Suits(b))
        /\ TargetStart!Fits(places) # {} /\ target_path' = TargetStart!FirstFit(places)
    BY <1>3, <1>5
  <2>2. LookedUp(target_path)'
    BY <1>3, <2>1, FirstFound, Zenon
  <2>3. TargetTypes' /\ Limited'
    BY <1>1, <1>2, LimitUntouched DEF TargetTypes
  <2>4. ArgsRight(argv)
    BY <1>1, <1>2 DEF ArgsKnown
  <2>5. ArgsKnown'
    BY <1>2, <2>1, <2>4 DEF ArgsKnown, ArgsRight, ArgRight, TargetStart!HasFile
  <2>6. env # "lacking"
    BY <1>1, <1>2 DEF Settled
  <2>7. ASSUME ~skip
        PROVE  /\ b.kind = "ELF" /\ (b.instrumented \/ flag' # {}) /\ ~(b.instrumented /\ "Q" \in flag')
               /\ (persistent_mode' <=> b.persistent) /\ (deferred_mode' <=> b.deferred)
    <3>1. TargetStart!Suits(b)
      BY <2>1, <2>7
    <3>2. b.kind = "ELF" /\ (b.instrumented \/ flag' # {}) /\ ~(b.instrumented /\ "Q" \in flag')
      BY <1>2, <3>1, Zenon DEF TargetStart!Suits
    <3>3. (persistent_mode' <=> b.persistent) /\ (deferred_mode' <=> b.deferred)
      BY <1>3, <2>1, <2>7, Zenon
    <3> QED
      BY <3>2, <3>3, Zenon
  <2>8. \A x : x \in binary' <=> x = b
    BY <2>1
  <2>9. ~skipped' =>
          \A x \in binary' :
            /\ x.kind = "ELF"
            /\ x.instrumented \/ flag' # {}
            /\ ~(x.instrumented /\ "Q" \in flag')
            /\ (persistent_mode' <=> x.persistent) /\ (deferred_mode' <=> x.deferred)
    BY <2>1, <2>7, <2>8, Zenon
  <2>10. Settled'
    BY <1>2, <2>1, <2>2, <2>6, <2>9, Zenon DEF Settled
  <2> QED
    BY <2>1, <2>3, <2>5, <2>10, NotReady DEF TargetParts
<1> QED
  BY <1>4, <1>5

(* The tools replace @@ before QEMU comes in, afl-fuzz before the search.  *)
LEMMA ToolArgsStep ==
    ASSUME TargetParts, TargetStart!detect_file_args \/ TargetStart!detect_showmap_args
    PROVE  TargetParts'
<1>1. TargetTypes /\ Limited /\ ArgsKnown /\ Settled
  BY DEF TargetParts
<1>2. /\ stage = "arguments" /\ program # "afl-fuzz"
      /\ UNCHANGED <<program, user, flag, mem_limit, none_given, file, env, searched, target_path>>
      /\ \/ stage' = "failed"
         \/ /\ stage' = "qemu" /\ argv' = TargetStart!Arguments(file)
            /\ \/ program = "afl-tmin" \/ program = "afl-analyze"
               \/ file # "none" \/ \A k \in DOMAIN argv : ~TargetStart!HasFile(argv[k])
  BY DEF TargetStart!detect_file_args, TargetStart!detect_showmap_args, TargetStart!set,
         TargetStart!found, TargetStart!Fail
<1>3. TargetTypes' /\ Limited'
  BY <1>1, <1>2, LimitUntouched DEF TargetTypes
<1>4. argv = user /\ (program = "afl-tmin" \/ program = "afl-analyze" => file # "none")
  BY <1>1, <1>2 DEF ArgsKnown
<1>5. CASE stage' = "failed"
  BY <1>3, <1>5, NotReady DEF TargetParts, ArgsKnown, Settled
<1>6. CASE stage' # "failed"
  <2>1. /\ stage' = "qemu" /\ argv' = TargetStart!Arguments(file)
        /\ file # "none" \/ \A k \in DOMAIN user : ~TargetStart!HasFile(user[k])
    BY <1>2, <1>4, <1>6, Zenon
  <2>2. /\ argv' \in Lines /\ Len(argv') = Len(user)
        /\ \A k \in 1 .. Len(user) : file # "none" \/ ~TargetStart!HasFile(user[k]) => ArgRight(argv'[k], user[k])
    BY <1>1, <1>4, <2>1, ArgumentsOf, Zenon DEF TargetTypes
  <2>3. \A k \in 2 .. Len(user) : k \in 1 .. Len(user) /\ k \in DOMAIN user
    BY <1>1 DEF TargetTypes, Lines
  <2>4. \A k \in 2 .. Len(user) : ArgRight(argv'[k], user[k])
    BY <2>1, <2>2, <2>3, Zenon
  <2>5. ArgsRight(argv)'
    BY <1>2, <2>2, <2>4, Zenon DEF ArgsRight, ArgRight, TargetStart!HasFile
  <2>6. ArgsKnown'
    BY <1>2, <2>1, <2>5, Zenon DEF ArgsKnown
  <2>7. LookedUp(target_path) /\ (program # "afl-showmap" => env # "lacking")
    BY <1>1, <1>2 DEF Settled
  <2>8. LookedUp(target_path)'
    BY <1>2, <2>7 DEF LookedUp
  <2>9. Settled'
    BY <1>2, <2>1, <2>7, <2>8, Zenon DEF Settled
  <2> QED
    BY <1>3, <2>1, <2>6, <2>9, NotReady DEF TargetParts
<1> QED
  BY <1>5, <1>6

LEMMA FuzzerArgsStep ==
    ASSUME TargetParts, TargetStart!detect_fuzzer_args
    PROVE  TargetParts'
<1>1. TargetTypes /\ Limited /\ ArgsKnown /\ Settled
  BY DEF TargetParts
<1>2. /\ stage = "arguments" /\ program = "afl-fuzz" /\ stage' = "program"
      /\ UNCHANGED <<program, user, flag, mem_limit, none_given, env>>
      /\ file' = (IF file = "none" /\ (\E k \in 2 .. Len(argv) : TargetStart!HasFile(argv[k]))
                  THEN "cur_input" ELSE file)
      /\ argv' = <<argv[1]>> \o Tail(TargetStart!Arguments(file'))
  BY DEF TargetStart!detect_fuzzer_args, TargetStart!set
<1>3. argv = user /\ user \in Lines
  BY <1>1, <1>2 DEF ArgsKnown, TargetTypes
<1>4. PICK f \in FileNames : f = file' /\ (f # "none" \/ \A k \in 2 .. Len(user) : ~TargetStart!HasFile(user[k]))
  BY <1>1, <1>2, <1>3 DEF TargetTypes, FileNames
<1>5. TargetTypes' /\ Limited'
  BY <1>1, <1>2, <1>4, LimitUntouched DEF TargetTypes
<1>6. PICK all \in Lines : all = TargetStart!Arguments(f)
  BY <1>3, ArgumentsOf
<1>7. /\ Len(all) = Len(user)
      /\ \A k \in 1 .. Len(user) : f # "none" \/ ~TargetStart!HasFile(user[k]) => ArgRight(all[k], user[k])
  BY <1>3, <1>6, ArgumentsOf, Zenon
<1>8. PICK n \in Nat \ {0} : n = Len(user) /\ n = Len(all) /\ Len(user) = Len(all)
  BY <1>3, <1>7 DEF Lines
<1>9. PICK new : new = <<user[1]>> \o Tail(all)
  OBVIOUS
<1>10. new \in Lines /\ Len(new) = n /\ \A k \in 2 .. n : new[k] = all[k]
  <2>1. all \in Seq(Seq(Pieces)) /\ all # <<>> /\ user[1] \in Seq(Pieces)
    BY <1>3 DEF Lines
  <2>2. Tail(all) \in Seq(Seq(Pieces)) /\ Len(Tail(all)) = n - 1 /\ \A k \in 1 .. n - 1 : Tail(all)[k] = all[k + 1]
    BY <1>8, <2>1
  <2>3. PICK rest \in Seq(Seq(Pieces)) : rest = Tail(all) /\ Len(rest) = n - 1 /\ \A k \in 1 .. n - 1 : rest[k] = all[k + 1]
    BY <2>2, Zenon
  <2>4. PICK first \in Seq(Seq(Pieces)) : first = <<user[1]>> /\ Len(first) = 1
    <3>1. PICK target \in Seq(Pieces) : target = user[1]
      BY <2>1
    <3>2. <<target>> \in Seq(Seq(Pieces)) /\ Len(<<target>>) = 1
      OBVIOUS
    <3> QED
      BY <3>1, <3>2, Zenon
  <2>5. new = first \o rest
    BY <1>9, <2>3, <2>4, Zenon
  <2>6. /\ new \in Seq(Seq(Pieces)) /\ Len(new) = Len(first) + Len(rest)
        /\ \A k \in 1 .. Len(first) + Len(rest) : new[k] = IF k <= Len(first) THEN first[k] ELSE rest[k - Len(first)]
    BY <2>5, ConcatProperties
  <2>7. Len(first) + Len(rest) = n
    BY <2>3, <2>4
  <2>8. Len(new) = n /\ \A k \in 1 .. n : new[k] = IF k <= 1 THEN first[k] ELSE rest[k - 1]
    BY <2>4, <2>6, <2>7, Zenon
  <2>9. \A k \in 2 .. n : k \in 1 .. n /\ ~(k <= 1) /\ k - 1 \in 1 .. n - 1 /\ k - 1 + 1 = k
    OBVIOUS
  <2>10. \A k \in 2 .. n : new[k] = all[k]
    BY <2>3, <2>8, <2>9, Zenon
  <2>11. new # <<>>
    BY <2>6, <2>8
  <2> QED
    BY <2>6, <2>8, <2>10, <2>11, Zenon DEF Lines
<1>11. \A k \in 2 .. Len(user) : k \in 1 .. Len(user)
  BY <1>8
<1>12. \A k \in 2 .. Len(user) : ArgRight(new[k], user[k])
  BY <1>4, <1>7, <1>8, <1>10, <1>11, Zenon
<1>13. argv' = new
  BY <1>2, <1>3, <1>4, <1>6, <1>9, Zenon
<1>14. ArgsRight(argv)'
  BY <1>2, <1>8, <1>10, <1>12, <1>13, Zenon DEF ArgsRight, ArgRight, TargetStart!HasFile
<1>15. ArgsKnown'
  BY <1>2, <1>14 DEF ArgsKnown
<1>16. Settled'
  BY <1>1, <1>2 DEF Settled
<1> QED
  BY <1>2, <1>5, <1>15, <1>16, NotReady DEF TargetParts

(* QEMU is put before the arguments and told the target, or left out.      *)
LEMMA ReadyStep ==
    ASSUME TargetParts, TargetStart!get_qemu_argv \/ TargetStart!UseArgv
    PROVE  TargetParts'
<1>1. TargetTypes /\ Limited /\ ArgsKnown /\ Settled
  BY DEF TargetParts
<1>2. /\ stage = "qemu" /\ (stage' = "ready" \/ stage' = "failed")
      /\ UNCHANGED <<program, user, flag, mem_limit, none_given, file, env, searched, binary, skipped,
                     persistent_mode, deferred_mode>>
  BY DEF TargetStart!get_qemu_argv, TargetStart!UseArgv, TargetStart!set, TargetStart!found, TargetStart!Fail
<1>3. TargetTypes' /\ Limited'
  BY <1>1, <1>2, LimitUntouched DEF TargetTypes
<1>4. ArgsKnown' /\ Settled'
  BY <1>1, <1>2 DEF ArgsKnown, Settled
<1>5. ArgsRight(argv) /\ LookedUp(target_path)
  BY <1>1, <1>2 DEF ArgsKnown, Settled
<1>6. PICK n \in Nat \ {0} : n = Len(user) /\ n = Len(argv) /\ argv \in Seq(Seq(Pieces)) /\ argv # <<>>
  BY <1>1, <1>5 DEF ArgsRight, TargetTypes, Lines
<1>7. PICK args \in Seq(Seq(Pieces)) : args = Tail(argv) /\ Len(args) = n - 1 /\ \A k \in 1 .. n - 1 : args[k] = argv[k + 1]
  <2>1. /\ Tail(argv) \in Seq(Seq(Pieces)) /\ Len(Tail(argv)) = Len(argv) - 1
        /\ \A k \in 1 .. Len(Tail(argv)) : Tail(argv)[k] = argv[k + 1]
    BY <1>6, HeadTailProperties
  <2>2. Len(Tail(argv)) = n - 1
    BY <1>6, <2>1
  <2> QED
    BY <2>1, <2>2, Zenon
<1>8. DOMAIN args = 1 .. n - 1
  BY <1>7
<1>9. \A k \in 1 .. n - 1 : ArgRight(args[k], user[k + 1])
  <2>1. \A k \in 1 .. n - 1 : k + 1 \in 2 .. n
    OBVIOUS
  <2> QED
    BY <1>5, <1>6, <1>7, <2>1, Zenon DEF ArgsRight
<1>10. ASSUME stage' = "ready" PROVE TargetStart!ExecutesTarget'
  <2>1. /\ IF "Q" \in flag' THEN argv'[3][1] = target_path /\ SubSeq(argv', 4, Len(argv')) = args
           ELSE target_path' = target_path /\ Tail(argv') = args
    <3>1. CASE "Q" \in flag
      <4>1. argv' = <<<<"afl-qemu-trace">>, <<"--">>, <<target_path>>>> \o args
        BY <1>2, <1>7, <1>10, <3>1, Zenon DEF TargetStart!get_qemu_argv, TargetStart!UseArgv, TargetStart!Fail
      <4>2. PICK before : before = <<<<"afl-qemu-trace">>, <<"--">>, <<target_path>>>>
        OBVIOUS
      <4>3. PICK S : S = {<<"afl-qemu-trace">>, <<"--">>, <<target_path>>} \cup Seq(Pieces)
        OBVIOUS
      <4>4. before \in Seq(S) /\ Len(before) = 3 /\ before[3] = <<target_path>>
        BY <4>2, <4>3
      <4>5. args \in Seq(S)
        BY <4>3
      <4>6. PICK new : new = argv'
        OBVIOUS
      <4>7. new = before \o args
        BY <4>1, <4>2, <4>6, Zenon
      <4>8. /\ new \in Seq(S) /\ Len(new) = Len(before) + Len(args)
            /\ \A k \in 1 .. Len(before) + Len(args) :
                 new[k] = IF k <= Len(before) THEN before[k] ELSE args[k - Len(before)]
        BY <4>4, <4>5, <4>7, ConcatProperties
      <4>9. Len(new) = n + 2 /\ \A k \in 1 .. n + 2 : new[k] = IF k <= 3 THEN before[k] ELSE args[k - 3]
        <5>1. Len(before) + Len(args) = n + 2
          BY <1>7, <4>4
        <5> QED
          BY <4>4, <4>8, <5>1, Zenon
      <4>10. new[3] = <<target_path>>
        <5>1. 3 \in 1 .. n + 2 /\ 3 <= 3
          OBVIOUS
        <5> QED
          BY <4>4, <4>9, <5>1, Zenon
      <4>11. SubSeq(new, 4, n + 2) = args
        <5>1. \A k \in 4 .. n + 2 : new[k] \in S
          BY <4>8, <4>9
        <5>2. PICK part : part = SubSeq(new, 4, n + 2)
          OBVIOUS
        <5>3. /\ part \in Seq(S) /\ Len(part) = IF 4 <= n + 2 THEN n + 2 - 4 + 1 ELSE 0
              /\ \A k \in 1 .. n + 2 - 4 + 1 : part[k] = new[4 + k - 1]
          BY <5>1, <5>2, SubSeqProperties
        <5>4. Len(part) = n - 1 /\ n + 2 - 4 + 1 = n - 1
          BY <5>3
        <5>5. \A k \in 1 .. n - 1 : \E j \in 1 .. n + 2 : j = 4 + k - 1 /\ ~(j <= 3) /\ j - 3 = k
          OBVIOUS
        <5>6. \A k \in 1 .. n - 1 : part[k] = args[k]
          <6>1. \A k \in 1 .. n - 1 : part[k] = new[4 + k - 1]
            BY <5>3, <5>4, Zenon
          <6>2. \A k \in 1 .. n + 2 : ~(k <= 3) => new[k] = args[k - 3]
            BY <4>9, Zenon
          <6> QED
            BY <5>5, <6>1, <6>2, Zenon
        <5> QED
          BY <1>7, <4>5, <5>2, <5>3, <5>4, <5>6
      <4>12. new[3][1] = target_path
        BY <4>10
      <4> QED
        BY <1>2, <3>1, <4>6, <4>9, <4>11, <4>12, Zenon
    <3>2. CASE "Q" \notin flag
      BY <1>2, <1>7, <3>2 DEF TargetStart!get_qemu_argv, TargetStart!UseArgv
    <3> QED
      BY <1>2, <3>1, <3>2
  <2>2. searched'[target_path] = "fit" /\ \A k \in 1 .. target_path - 1 : searched'[k] # "fit"
    BY <1>2, <1>5 DEF LookedUp
  <2>3. Len(args) = Len(user') - 1
    BY <1>2, <1>6, <1>7
  <2>4. \A k \in DOMAIN args :
          /\ ~TargetStart!HasFile(user[k + 1]) => args[k] = user[k + 1]
          /\ TargetStart!HasFile(user[k + 1]) =>
               Len(args[k]) = Len(user[k + 1]) /\ \E piece \in TargetStart!ToSet(args[k]) : piece \in FullNames
    BY <1>8, <1>9, Zenon DEF ArgRight
  <2>5. \A k \in DOMAIN args :
          /\ ~TargetStart!HasFile(user[k + 1])' => args[k] = user'[k + 1]
          /\ TargetStart!HasFile(user[k + 1])' =>
               Len(args[k]) = Len(user'[k + 1]) /\ \E piece \in TargetStart!ToSet(args[k]) : piece \in FullNames
    BY <1>2, <2>4 DEF TargetStart!HasFile
  <2> DEFINE name == IF "Q" \in flag' THEN argv'[3][1] ELSE target_path'
             rest == IF "Q" \in flag' THEN SubSeq(argv', 4, Len(argv')) ELSE Tail(argv')
  <2>6. name = target_path /\ rest = args
    BY <2>1, Zenon
  <2> HIDE DEF name, rest
  <2>7. /\ searched'[name] = "fit" /\ \A k \in 1 .. name - 1 : searched'[k] # "fit"
        /\ Len(rest) = Len(user') - 1
        /\ \A k \in DOMAIN rest :
             /\ ~TargetStart!HasFile(user[k + 1])' => rest[k] = user'[k + 1]
             /\ TargetStart!HasFile(user[k + 1])' =>
                  Len(rest[k]) = Len(user'[k + 1]) /\ \E piece \in TargetStart!ToSet(rest[k]) : piece \in FullNames
    BY <2>2, <2>3, <2>5, <2>6, Zenon
  <2> QED
    BY <2>7, Zenon DEF TargetStart!ExecutesTarget, FullNames, name, rest
<1> QED
  BY <1>2, <1>3, <1>4, <1>10, NotReady DEF TargetParts

(* Whatever the options, the environment and the command line are: the     *)
(* target that is executed is the first that fits, with the arguments that *)
(* were asked for; that of the three tools (not afl-fuzz) under the limit  *)
(* that was asked for; that of afl-tmin, afl-analyze and afl-fuzz (not     *)
(* afl-showmap) with no sanitizer options that hide its crashes; and that  *)
(* of afl-fuzz is one it can trace, unless it was told not to look.        *)
THEOREM TargetsAreRight == Spec => []TargetRight
<1>1. TargetInv /\ [Next]_vars => TargetInv'
  <2> SUFFICES ASSUME TargetInv, [Next]_vars, running' = "target" PROVE TargetParts'
    BY DEF TargetInv
  <2>1. running = "target" /\ (TargetStart!Next \/ UNCHANGED vars)
    BY Steps
  <2>2. TargetParts
    BY <2>1 DEF TargetInv
  <2>3. CASE UNCHANGED vars
    <3>1. UNCHANGED <<program, user, file, flag, mem_limit, none_given, stage, argv, env, searched, binary,
                      skipped, persistent_mode, deferred_mode, target_path>>
      BY <2>3 DEF vars, sharedVars, targetVars
    <3>2. TargetTypes' /\ Limited'
      BY <2>2, <3>1, LimitUntouched DEF TargetParts, TargetTypes
    <3>3. ArgsKnown'
      BY <2>2, <3>1 DEF TargetParts, ArgsKnown, ArgsRight, ArgRight, TargetStart!HasFile
    <3>4. Settled'
      BY <2>2, <3>1 DEF TargetParts, Settled, LookedUp
    <3>5. TargetStart!ExecutesTarget'
      BY <2>2, <3>1 DEF TargetParts, TargetStart!ExecutesTarget, TargetStart!HasFile
    <3> QED
      BY <3>2, <3>3, <3>4, <3>5 DEF TargetParts
  <2> QED
    BY <2>1, <2>2, <2>3, OptionsEnd, EnvironmentSteps, FindBinaryStep, CheckBinaryStep, ToolArgsStep,
       FuzzerArgsStep, ReadyStep, Zenon DEF TargetStart!Next
<1>2. TargetInv => TargetRight
  <2> SUFFICES ASSUME TargetParts
               PROVE  TargetStart!LimitSound /\ TargetStart!ExecutesTarget /\ TargetStart!TargetSuits
    BY DEF TargetInv, TargetRight, TargetStart!TargetRight
  <2>1. TargetStart!LimitSound
    BY DEF TargetParts, Limited, TargetStart!LimitSound, TargetStart!Qemu, TargetStart!Default
  <2>2. TargetStart!TargetSuits
    BY Zenon DEF TargetParts, Settled, TargetStart!TargetSuits
  <2> QED
    BY <2>1, <2>2 DEF TargetParts
<1> QED
  BY TargetInit, <1>1, <1>2, PTL DEF Spec
=============================================================================
