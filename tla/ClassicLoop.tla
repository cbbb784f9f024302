---------------------------- MODULE ClassicLoop -----------------------------
(***************************************************************************)
(* The loop of main without state-aware mode: the queue is walked from end *)
(* to end, fuzz_one passes over entries by chance, an import comes every   *)
(* so many fuzzed entries, and cycles that find nothing turn splicing on.  *)
(* fuzzer_stats keeps the position for the session that resumes this one;  *)
(* it is written once when the loop is about to begin, with 0, then about  *)
(* once a minute, and at the end.                                          *)
(*                                                                         *)
(* An entry is its index.  Which are favored, and whether any is pending,  *)
(* is for cull_queue (module Corpus) to say: any answer is taken here.     *)
(***************************************************************************)
EXTENDS Integers, FiniteSets

CONSTANTS
    MaxPaths, MaxCycles,    \* bounds
    SYNC_INTERVAL,
    ManyPaths               \* from more entries than this on, even old ones are passed over

VARIABLES
    queued_paths, favored, was_fuzzed, pending_favored,
    queue_cur,          \* an entry, or NULL
    queue_cycle, current_entry, seek_to, use_splicing, cycles_wo_finds, prev_queued,
    sync_id, import_first, sync_interval_cnt, stop_soon,
    place,              \* main: before its loop, at the head of it, behind fuzz_one, or "ended"
    cur_path,           \* in fuzzer_stats: where the session was, or -1
    visited,            \* history: the entries of this cycle
    fuzzed_since        \* history: fuzzed entries since the last import

queue    == <<queued_paths, favored, was_fuzzed, pending_favored>>
cycle    == <<queue_cycle, seek_to, use_splicing, cycles_wo_finds, prev_queued>>
position == <<queue_cur, current_entry, visited>>
sync     == <<sync_id, import_first, sync_interval_cnt, fuzzed_since>>
vars     == <<queue, cycle, position, sync, stop_soon, place, cur_path>>

NULL == -1

Init ==
    /\ queued_paths \in 1 .. 2 /\ favored = {} /\ was_fuzzed = {} /\ pending_favored = FALSE
    /\ queue_cur = NULL /\ queue_cycle = 0 /\ current_entry = 0 /\ seek_to = 0
    /\ use_splicing \in BOOLEAN /\ cycles_wo_finds = 0 /\ prev_queued = 0
    /\ sync_id \in BOOLEAN /\ import_first \in {FALSE, sync_id} /\ sync_interval_cnt = 0
    /\ stop_soon = FALSE /\ place = "start" /\ cur_path = -1
    /\ visited = {} /\ fuzzed_since = 0

\* Test cases that are found or imported join the end of the queue.
Grow(most) == queued_paths' \in queued_paths .. (IF most < MaxPaths THEN most ELSE MaxPaths)

cull_queue == favored' \in SUBSET (0 .. queued_paths - 1) /\ pending_favored' \in BOOLEAN

SyncFuzzers == Grow(queued_paths + 1) /\ fuzzed_since' = 0

\* Mutant: the walk to the start leaves the index behind.
EntryNotCounted == 0

EntryAtStart == seek_to

\* write_stats_file, when the position to start from has been found and is not taken yet.
write_stats_file ==
    /\ place = "start"
    /\ cur_path' = current_entry
    /\ place' = "ready"
    /\ UNCHANGED <<queue, cycle, position, sync, stop_soon>>

\* main ends without a word about the position when it was stopped before the loop.
Enter ==
    /\ place = "ready"
    /\ place' = IF stop_soon THEN "ended" ELSE "head"
    /\ UNCHANGED <<queue, cycle, position, sync, stop_soon, cur_path>>

\* show_stats writes the position if the last time was a minute ago.
MayShow == cur_path' \in {cur_path, current_entry}

\* A new cycle from the first entry on, or from where the session before was.  The first call of
\* show_stats always writes.
NextCycle ==
    /\ place = "head" /\ queue_cur = NULL /\ queue_cycle < MaxCycles
    /\ cull_queue
    /\ queue_cycle' = queue_cycle + 1
    /\ queue_cur' = seek_to /\ current_entry' = EntryAtStart /\ seek_to' = 0
    /\ visited' = 0 .. seek_to - 1
    /\ IF queued_paths = prev_queued
         THEN /\ cycles_wo_finds' = IF use_splicing THEN cycles_wo_finds + 1 ELSE cycles_wo_finds
              /\ use_splicing' = TRUE
         ELSE cycles_wo_finds' = 0 /\ UNCHANGED use_splicing
    /\ prev_queued' = queued_paths
    /\ cur_path' \in IF queue_cycle' = 1 THEN {current_entry'} ELSE {cur_path, current_entry'}
    /\ IF sync_id /\ queue_cycle' = 1 /\ import_first THEN SyncFuzzers
       ELSE UNCHANGED <<queued_paths, fuzzed_since>>
    /\ place' = "fuzz"
    /\ UNCHANGED <<was_fuzzed, sync_id, import_first, sync_interval_cnt, stop_soon>>

\* The head of the loop within a cycle.
Head ==
    /\ place = "head" /\ queue_cur # NULL
    /\ cull_queue /\ place' = "fuzz"
    /\ UNCHANGED <<queued_paths, was_fuzzed, cycle, position, sync, stop_soon, cur_path>>

\* What fuzz_one may pass over, with a probability below 100 %.
MaySkip ==
    IF pending_favored THEN queue_cur \in was_fuzzed \/ queue_cur \notin favored
    ELSE queue_cur \notin favored /\ queued_paths > ManyPaths

\* fuzz_one: the entry is passed over, fails, or is fuzzed, which may find others.
FuzzOne ==
    /\ place = "fuzz"
    /\ visited' = visited \cup {queue_cur}
    /\ \/ /\ MaySkip /\ place' = "skipped"
          /\ UNCHANGED <<queued_paths, was_fuzzed, fuzzed_since, cur_path>>
       \/ /\ place' = "skipped"     \* it cannot be executed, or gives up
          /\ MayShow /\ UNCHANGED <<queued_paths, was_fuzzed, fuzzed_since>>
       \/ /\ Grow(queued_paths + 1) /\ was_fuzzed' = was_fuzzed \cup {queue_cur}
          /\ fuzzed_since' = fuzzed_since + 1
          /\ MayShow
          /\ place' = "fuzzed"
    /\ UNCHANGED <<favored, pending_favored, cycle, queue_cur, current_entry, sync_id, import_first,
                   sync_interval_cnt, stop_soon>>

CountsEntry == sync_id /\ ~stop_soon /\ place = "fuzzed"

\* The end of the body: an import every SYNC_INTERVAL fuzzed entries, and the next entry.
Advance ==
    /\ place \in {"skipped", "fuzzed"}
    /\ IF CountsEntry
         THEN /\ sync_interval_cnt' = sync_interval_cnt + 1
              /\ IF sync_interval_cnt % SYNC_INTERVAL = 0 THEN SyncFuzzers
                 ELSE UNCHANGED <<queued_paths, fuzzed_since>>
         ELSE UNCHANGED <<sync_interval_cnt, queued_paths, fuzzed_since>>
    /\ IF stop_soon
         THEN place' = "ended" /\ cur_path' = current_entry /\ UNCHANGED <<queue_cur, current_entry>>
         ELSE /\ queue_cur' = IF queue_cur + 1 < queued_paths' THEN queue_cur + 1 ELSE NULL
              /\ current_entry' = current_entry + 1
              /\ place' = "head"
              /\ IF CountsEntry /\ sync_interval_cnt % SYNC_INTERVAL = 0 THEN MayShow ELSE UNCHANGED cur_path
    /\ UNCHANGED <<favored, was_fuzzed, pending_favored, cycle, visited, sync_id, import_first,
                   stop_soon>>

\* A signal, or AFL_EXIT_WHEN_DONE and the like.
Stop ==
    /\ place # "ended" /\ ~stop_soon /\ stop_soon' = TRUE
    /\ UNCHANGED <<queue, cycle, position, sync, place, cur_path>>

find_start_position == IF cur_path >= queued_paths' \/ cur_path < 0 THEN 0 ELSE cur_path

\* Another session resumes this one's directory, whether this one was stopped or broke down; test
\* cases may have been deleted.
Resume ==
    /\ queued_paths' \in 1 .. queued_paths
    /\ seek_to' = find_start_position
    /\ favored' = {} /\ was_fuzzed' = {} /\ pending_favored' = FALSE
    /\ queue_cur' = NULL /\ queue_cycle' = 0 /\ current_entry' = 0
    /\ use_splicing' \in BOOLEAN /\ cycles_wo_finds' = 0 /\ prev_queued' = 0
    /\ sync_interval_cnt' = 0 /\ stop_soon' = FALSE /\ place' = "start"
    /\ visited' = {} /\ fuzzed_since' = 0
    /\ UNCHANGED <<sync_id, import_first, cur_path>>

Next == write_stats_file \/ Enter \/ NextCycle \/ Head \/ FuzzOne \/ Advance \/ Stop \/ Resume

Spec == Init /\ [][Next]_vars

-----------------------------------------------------------------------------
(* The index that is shown is that of the entry being fuzzed; a cycle      *)
(* comes to its end only when every entry has had its turn in it, those    *)
(* that joined during the cycle too.                                       *)
CycleComplete ==
    /\ place = "fuzz" => queue_cur = current_entry
    /\ queue_cur # NULL => queue_cur < queued_paths
    /\ place = "head" /\ queue_cur = NULL /\ queue_cycle > 0 => visited = 0 .. queued_paths - 1

(* From the first cycle of a session on, fuzzer_stats (cur_path) never     *)
(* runs ahead of the work: whenever the session breaks down, the one that  *)
(* resumes starts at an entry of the queue, in the first cycle one that    *)
(* was passed or is in work; and a session that is stopped leaves exactly  *)
(* the entry in work.                                                      *)
PositionReached ==
    queue_cycle > 0 =>
        /\ cur_path \in 0 .. queued_paths - 1
        /\ queue_cycle = 1 => cur_path \in visited \cup {queue_cur}
        /\ place = "ended" => cur_path = queue_cur

(* While the fuzzer runs beside others, it never fuzzes more entries than  *)
(* SYNC_INTERVAL before it looks for theirs, however many it passes over.  *)
ImportsInTime == sync_id /\ place = "head" /\ ~stop_soon => fuzzed_since < SYNC_INTERVAL

LoopTrue == CycleComplete /\ PositionReached /\ ImportsInTime

(* "make resumption pick up from the last known offset in the queue,       *)
(* rather than always rewinding to the start" (docs/ChangeLog:1590): the   *)
(* offset that a session has found is still there for the next one when it *)
(* is stopped before its first cycle.  It is not: write_stats_file has     *)
(* put 0 in its place.                                                     *)
PositionKept == place = "ended" /\ queue_cycle = 0 => cur_path = seek_to
=============================================================================
