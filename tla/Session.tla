------------------------------ MODULE Session -------------------------------
(***************************************************************************)
(* The output directory of a fuzzer over its sessions (afl-fuzz.c): set up *)
(* anew or resumed in place, written while fuzzing goes on, read by the    *)
(* other fuzzers of a sync directory.  A step is one operation on a file   *)
(* that another process or a later session can tell from its neighbours,   *)
(* and the process may be killed between any two.                          *)
(*                                                                         *)
(* A file of a queue is known by the number in its name: pivot_inputs      *)
(* gives the number i to the i-th entry whatever it was called, and the    *)
(* rest of a name only informs.  Of queue/.state the module has            *)
(* deterministic_done: the other directories are deleted alike and read by *)
(* nobody.  Crashes stand for hangs too.                                   *)
(***************************************************************************)
EXTENDS Integers, Sequences, FiniteSets, SequencesExt, FiniteSetsExt

CONSTANTS
    Fuzzers,        \* the fuzzers that share a sync directory
    Deterministic,  \* those that run the deterministic stages (not -S, not -d)
    Cases,          \* test cases, each with coverage of its own
    Crash,          \* a case that crashes the target
    InDir,          \* the files of the input directory, in the order of their names
    Discoverable,   \* what mutation may come upon in each fuzzer
    HardLinks,      \* those whose out_dir is on a file system where link works
    Unsent,         \* cases of which it may happen that no message is sent
    Parties,        \* whom each fuzzer finds in the sync directory
    Missing, Empty, \* no such file or directory; an empty file
    Grace,          \* OUTPUT_GRACE
    MaxAge,         \* bound: how long a session of each fuzzer lasts
    MaxStarts, MaxKills,    \* bounds: starts and kills of each fuzzer
    StartCost, Budget       \* bound: starts, weighed, and kills of all together

ASSUME SessionAssumption ==
    /\ Deterministic \subseteq Fuzzers /\ HardLinks \subseteq Fuzzers /\ Unsent \subseteq Cases
    /\ Grace \in Nat /\ MaxAge \in [Fuzzers -> Nat]
    /\ InDir # <<>> /\ InDir \in Seq(Cases)
    /\ Discoverable \in [Fuzzers -> SUBSET (Cases \cup {Crash})]
    /\ \A f \in Fuzzers : Parties[f] \subseteq Fuzzers \ {f}
    /\ Empty \notin Cases /\ Crash \notin Cases

\* Missing is none of the directories with files of these numbers, nor one of their
\* marks: it is a value of its own.
MissingIsApart(numbers) ==
    /\ \A S \in SUBSET {Crash} : Missing # S
    /\ \A S \in SUBSET numbers :
         Missing # S /\ \A dir \in [S -> Cases \cup {Empty}] : Missing # dir

VARIABLES
    \* on disk
    queue, deterministic_done,  \* out_dir/queue: number -> content; its .state
    resume, resume_done,        \* out_dir/_resume
    crashes, backups,           \* replayable-crashes, and those set aside
    fuzzer_stats,               \* how long the session had lasted, or Empty
    synced,                     \* .synced: party -> the next number to accept
    \* the process
    pc, in_place_resume,
    entries, pos,               \* the queue in memory; the entry of a loop
    known,                      \* virgin_bits: what is covered
    mem, age,                   \* the case at hand; how long the session has lasted
    party, min_accept, next_min_accept,
    handle, listed, returned,   \* the opened directory: which one, what is
                                \* left of its files, what readdir has returned
    dirent,
    \* bounds and history
    starts, kills, made,        \* made: how often queue/ was created
    saved,      \* cases written since the directory was last set up anew
    mixed,      \* _resume was left half deleted, or to another session
    finished,   \* cases whose deterministic stages have been run
    accepted,   \* numbers of a party's files that this process has executed
    owed        \* files that were there when the scan began, not yet executed

diskVars == <<queue, deterministic_done, resume, resume_done, crashes, backups,
              fuzzer_stats, synced>>
scanVars == <<party, min_accept, next_min_accept, handle, listed, returned, dirent,
              accepted, owed>>
coreVars == <<entries, pos, known, mem, age, in_place_resume>>
history  == <<starts, kills, made, saved, mixed, finished>>
vars     == <<diskVars, scanVars, coreVars, history, pc>>

Files(dir) == IF dir = Missing THEN {} ELSE DOMAIN dir
Contents(dir) == {dir[n] : n \in Files(dir)} \ {Empty}
Put(dir, n, data) == [m \in Files(dir) \cup {n} |-> IF m = n THEN data ELSE dir[m]]
Unlink(dir, n) == [m \in DOMAIN dir \ {n} |-> dir[m]]
EmptyDir == [n \in {} |-> Empty]

queued_paths(f) == Len(entries[f])

At(f, labels) == pc[f] \in labels
Affordable(cost) ==
    MapThenSumSet(LAMBDA f : StartCost[f] * starts[f] + kills[f], Fuzzers) + cost <= Budget
Goto(f, label) == pc' = [pc EXCEPT ![f] = label]

Init ==
    /\ queue = [f \in Fuzzers |-> Missing] /\ deterministic_done = [f \in Fuzzers |-> Missing]
    /\ resume = [f \in Fuzzers |-> Missing] /\ resume_done = [f \in Fuzzers |-> Missing]
    /\ crashes = [f \in Fuzzers |-> Missing] /\ backups = [f \in Fuzzers |-> {}]
    /\ fuzzer_stats = [f \in Fuzzers |-> Missing]
    /\ synced = [f \in Fuzzers |-> [p \in Parties[f] |-> 0]]
    /\ pc = [f \in Fuzzers |-> "down"] /\ in_place_resume = [f \in Fuzzers |-> FALSE]
    /\ entries = [f \in Fuzzers |-> <<>>] /\ pos = [f \in Fuzzers |-> 0]
    /\ known = [f \in Fuzzers |-> {}] /\ mem = [f \in Fuzzers |-> Empty]
    /\ age = [f \in Fuzzers |-> 0] /\ party = [f \in Fuzzers |-> f]
    /\ min_accept = [f \in Fuzzers |-> 0] /\ next_min_accept = [f \in Fuzzers |-> 0]
    /\ handle = [f \in Fuzzers |-> 0] /\ listed = [f \in Fuzzers |-> {}]
    /\ returned = [f \in Fuzzers |-> {}] /\ dirent = [f \in Fuzzers |-> 0]
    /\ starts = [f \in Fuzzers |-> 0] /\ kills = [f \in Fuzzers |-> 0] /\ made = [f \in Fuzzers |-> 0]
    /\ saved = [f \in Fuzzers |-> {}] /\ mixed = [f \in Fuzzers |-> FALSE]
    /\ finished = [f \in Fuzzers |-> {}]
    /\ accepted = [f \in Fuzzers |-> [p \in Parties[f] |-> {}]]
    /\ owed = [f \in Fuzzers |-> {}]

(***************************************************************************)
(* Setting up the directory                                                *)
(***************************************************************************)

\* A process that ends leaves nothing behind but its files.
ClearMemory(f) ==
    /\ entries' = [entries EXCEPT ![f] = <<>>] /\ pos' = [pos EXCEPT ![f] = 0]
    /\ known' = [known EXCEPT ![f] = {}] /\ mem' = [mem EXCEPT ![f] = Empty]
    /\ age' = [age EXCEPT ![f] = 0] /\ party' = [party EXCEPT ![f] = f]
    /\ min_accept' = [min_accept EXCEPT ![f] = 0]
    /\ next_min_accept' = [next_min_accept EXCEPT ![f] = 0]
    /\ handle' = [handle EXCEPT ![f] = 0] /\ listed' = [listed EXCEPT ![f] = {}]
    /\ returned' = [returned EXCEPT ![f] = {}] /\ dirent' = [dirent EXCEPT ![f] = 0]
    /\ accepted' = [accepted EXCEPT ![f] = [p \in Parties[f] |-> {}]]
    /\ owed' = [owed EXCEPT ![f] = {}]
    /\ in_place_resume' = [in_place_resume EXCEPT ![f] = FALSE]
    /\ Goto(f, "down")

Exit(f) == ClearMemory(f) /\ UNCHANGED <<diskVars, history>>

Begin(f, in_place) ==
    /\ At(f, {"down"}) /\ starts[f] < MaxStarts[f] /\ Affordable(StartCost[f])
    /\ starts' = [starts EXCEPT ![f] = @ + 1]
    /\ in_place_resume' = [in_place_resume EXCEPT ![f] = in_place]
    /\ UNCHANGED <<scanVars, entries, pos, known, mem, age, kills, made, crashes, backups,
                   fuzzer_stats, synced>>

\* A session from the input directory.  It refuses a directory that holds the
\* work of a long session, or statistics that it cannot read.
StartFresh(f) ==
    /\ fuzzer_stats[f] # Missing => fuzzer_stats[f] # Empty /\ fuzzer_stats[f] <= Grace
    /\ Begin(f, FALSE)
    /\ saved' = [saved EXCEPT ![f] = {}]
    /\ mixed' = [mixed EXCEPT ![f] = resume[f] # Missing]
    /\ Goto(f, IF starts[f] = 0 THEN "dirs" ELSE "clean")
    /\ UNCHANGED <<queue, deterministic_done, resume, resume_done, finished>>

\* Mutant: whatever is in _resume, the queue replaces it.
StartResumeOverwriting(f) ==
    /\ starts[f] > 0 /\ fuzzer_stats[f] # Empty
    /\ Begin(f, TRUE)
    /\ IF queue[f] # Missing
       THEN /\ resume' = [resume EXCEPT ![f] = queue[f]]
            /\ resume_done' = [resume_done EXCEPT ![f] = deterministic_done[f]]
            /\ queue' = [queue EXCEPT ![f] = Missing]
            /\ deterministic_done' = [deterministic_done EXCEPT ![f] = Missing]
       ELSE UNCHANGED <<queue, deterministic_done, resume, resume_done>>
    /\ Goto(f, "clean")
    /\ UNCHANGED <<saved, finished, mixed>>

\* A session that goes on (-i -).  The queue becomes _resume, unless there is a
\* _resume with something in it: then rename fails, and the error is ignored.
StartResume(f) ==
    /\ starts[f] > 0 /\ fuzzer_stats[f] # Empty
    /\ Begin(f, TRUE)
    /\ IF queue[f] # Missing /\ Files(resume[f]) = {} /\ resume_done[f] = Missing
       THEN /\ resume' = [resume EXCEPT ![f] = queue[f]]
            /\ resume_done' = [resume_done EXCEPT ![f] = deterministic_done[f]]
            /\ queue' = [queue EXCEPT ![f] = Missing]
            /\ deterministic_done' = [deterministic_done EXCEPT ![f] = Missing]
       ELSE UNCHANGED <<queue, deterministic_done, resume, resume_done>>
    /\ Goto(f, "clean")
    /\ UNCHANGED <<saved, finished, mixed>>

CleanMetadata(f) ==
    /\ At(f, {"clean"}) /\ Goto(f, "clean_queue")
    /\ deterministic_done' = [deterministic_done EXCEPT ![f] = Missing]
    /\ synced' = IF in_place_resume[f] THEN synced
                 ELSE [synced EXCEPT ![f] = [p \in Parties[f] |-> 0]]
    /\ finished' = IF in_place_resume[f] \/ mixed[f] THEN finished
                   ELSE [finished EXCEPT ![f] = {}]
    /\ UNCHANGED <<scanVars, coreVars, starts, kills, made, saved, mixed, queue, resume,
                   resume_done, crashes, backups, fuzzer_stats>>

CleanQueueFile(f) ==
    /\ At(f, {"clean_queue"})
    /\ \E n \in Files(queue[f]) : queue' = [queue EXCEPT ![f] = Unlink(@, n)]
    /\ UNCHANGED <<scanVars, coreVars, history, pc, deterministic_done, resume, resume_done,
                   crashes, backups, fuzzer_stats, synced>>

QueueCleaned(f) ==
    /\ At(f, {"clean_queue"}) /\ Files(queue[f]) = {}
    /\ queue' = [queue EXCEPT ![f] = Missing] /\ Goto(f, "clean_crashes")
    /\ UNCHANGED <<scanVars, coreVars, history, deterministic_done, resume, resume_done,
                   crashes, backups, fuzzer_stats, synced>>

\* A resumed session sets the crashes aside, a new one deletes them.
CleanCrashes(f) ==
    /\ At(f, {"clean_crashes"}) /\ Goto(f, "clean_rest")
    /\ backups' = IF in_place_resume[f] /\ crashes[f] # Missing
                  THEN [backups EXCEPT ![f] = @ \cup crashes[f]] ELSE backups
    /\ crashes' = [crashes EXCEPT ![f] = Missing]
    /\ UNCHANGED <<scanVars, coreVars, history, queue, deterministic_done, resume,
                   resume_done, fuzzer_stats, synced>>

CleanRest(f) ==
    /\ At(f, {"clean_rest"}) /\ Goto(f, "dirs")
    /\ fuzzer_stats' = IF in_place_resume[f] THEN fuzzer_stats
                       ELSE [fuzzer_stats EXCEPT ![f] = Missing]
    /\ UNCHANGED <<scanVars, coreVars, history, queue, deterministic_done, resume,
                   resume_done, crashes, backups, synced>>

MakeDirs(f) ==
    /\ At(f, {"dirs"}) /\ Goto(f, "read")
    /\ queue' = [queue EXCEPT ![f] = EmptyDir]
    /\ deterministic_done' = [deterministic_done EXCEPT ![f] = {}]
    /\ crashes' = [crashes EXCEPT ![f] = {}]
    /\ made' = [made EXCEPT ![f] = @ + 1]
    /\ UNCHANGED <<scanVars, coreVars, starts, kills, saved, mixed, finished, resume,
                   resume_done, backups, fuzzer_stats, synced>>

(***************************************************************************)
(* Filling the queue                                                       *)
(***************************************************************************)

Entry(data, det) == [data |-> data, passed_det |-> det]

\* The file with i - 1 smaller numbers: scandir sorts them.
Nth(S, i) == CHOOSE n \in S : Cardinality({m \in S : m <= n}) = i

Usable(dir) == {n \in Files(dir) : dir[n] # Empty}

UsableEntries(dir, done) ==
    [i \in 1..Cardinality(Usable(dir)) |->
       LET n == Nth(Usable(dir), i) IN Entry(dir[n], done # Missing /\ n \in done)]

Scanned(f) ==
    IF in_place_resume[f] THEN UsableEntries(resume[f], resume_done[f])
    ELSE [i \in 1..Len(InDir) |-> Entry(InDir[i], FALSE)]

ReadTestcases(f) ==
    /\ At(f, {"read"})
    /\ IF Scanned(f) = <<>> THEN Exit(f)
       ELSE /\ entries' = [entries EXCEPT ![f] = Scanned(f)]
            /\ pos' = [pos EXCEPT ![f] = 1]
            /\ Goto(f, "pivot")
            /\ UNCHANGED <<diskVars, scanVars, history, known, mem, age, in_place_resume>>

\* Entry i gets the number i, counted from 0.
PivotNumber(f) == pos[f] - 1

NextEntry(f) ==
    IF entries[f][pos[f]].passed_det
    THEN Goto(f, "pivot_det") /\ UNCHANGED pos
    ELSE Goto(f, "pivot") /\ pos' = [pos EXCEPT ![f] = @ + 1]

WriteInput(f, data) ==
    /\ queue' = [queue EXCEPT ![f] = Put(@, PivotNumber(f), data)]
    /\ UNCHANGED <<scanVars, history, deterministic_done, resume, resume_done, crashes,
                   backups, fuzzer_stats, synced, entries, known, mem, age,
                   in_place_resume>>

\* A hard link, or a copy where link fails.
LinkInput(f) ==
    /\ At(f, {"pivot"}) /\ pos[f] <= queued_paths(f) /\ f \in HardLinks
    /\ WriteInput(f, entries[f][pos[f]].data)
    /\ NextEntry(f)

CreateCopy(f) ==
    /\ At(f, {"pivot"}) /\ pos[f] <= queued_paths(f) /\ f \notin HardLinks
    /\ WriteInput(f, Empty)
    /\ Goto(f, "copy") /\ UNCHANGED pos

WriteCopy(f) ==
    /\ At(f, {"copy"})
    /\ WriteInput(f, entries[f][pos[f]].data)
    /\ NextEntry(f)

PivotDetDone(f) ==
    /\ At(f, {"pivot_det"}) /\ Goto(f, "pivot")
    /\ deterministic_done' = [deterministic_done EXCEPT ![f] = @ \cup {PivotNumber(f)}]
    /\ pos' = [pos EXCEPT ![f] = @ + 1]
    /\ UNCHANGED <<scanVars, history, queue, resume, resume_done, crashes, backups,
                   fuzzer_stats, synced, entries, known, mem, age, in_place_resume>>

PivotDone(f) ==
    /\ At(f, {"pivot"}) /\ pos[f] > queued_paths(f)
    /\ Goto(f, IF in_place_resume[f] THEN "nuke" ELSE "dry_run")
    /\ UNCHANGED <<diskVars, scanVars, coreVars, history>>

NukeMetadata(f) ==
    /\ At(f, {"nuke"}) /\ Goto(f, "nuke_queue")
    /\ resume_done' = [resume_done EXCEPT ![f] = Missing]
    /\ UNCHANGED <<scanVars, coreVars, history, queue, deterministic_done, resume, crashes,
                   backups, fuzzer_stats, synced>>

NukeFile(f) ==
    /\ At(f, {"nuke_queue"})
    /\ \E n \in Files(resume[f]) : resume' = [resume EXCEPT ![f] = Unlink(@, n)]
    /\ UNCHANGED <<scanVars, coreVars, history, pc, queue, deterministic_done, resume_done,
                   crashes, backups, fuzzer_stats, synced>>

NukeDone(f) ==
    /\ At(f, {"nuke_queue"}) /\ Files(resume[f]) = {}
    /\ resume' = [resume EXCEPT ![f] = Missing] /\ Goto(f, "dry_run")
    /\ UNCHANGED <<scanVars, coreVars, history, queue, deterministic_done, resume_done,
                   crashes, backups, fuzzer_stats, synced>>

\* The dry run covers what the entries cover; one that crashes or times out ends
\* the process.
DryRun(f) ==
    /\ At(f, {"dry_run"})
    /\ \/ /\ known' = [known EXCEPT ![f] = {e.data : e \in ToSet(entries[f])}]
          /\ pos' = [pos EXCEPT ![f] = 0]
          /\ Goto(f, "stats")
          /\ UNCHANGED <<diskVars, scanVars, history, entries, mem, age, in_place_resume>>
       \/ Exit(f)

(***************************************************************************)
(* Fuzzing                                                                 *)
(***************************************************************************)

\* The statistics are rewritten in place: truncated, then written.  A stop by the
\* user or by the program writes them a last time.
OpenStats(f) ==
    /\ \/ At(f, {"stats", "fuzz"}) /\ Goto(f, "write_stats")
       \/ At(f, {"fuzz", "import"}) /\ Goto(f, "last_stats")
    /\ fuzzer_stats' = [fuzzer_stats EXCEPT ![f] = Empty]
    /\ UNCHANGED <<scanVars, coreVars, history, queue, deterministic_done, resume,
                   resume_done, crashes, backups, synced>>

WriteStats(f) ==
    /\ At(f, {"write_stats", "last_stats"})
    /\ \E now \in age[f]..MaxAge[f] :
         /\ fuzzer_stats' = [fuzzer_stats EXCEPT ![f] = now]
         /\ IF At(f, {"last_stats"})
            THEN ClearMemory(f)
            ELSE /\ age' = [age EXCEPT ![f] = now] /\ Goto(f, "fuzz")
                 /\ UNCHANGED <<scanVars, entries, pos, known, mem, in_place_resume>>
    /\ UNCHANGED <<history, queue, deterministic_done, resume, resume_done, crashes,
                   backups, synced>>

\* save_if_interesting opens a file with the next number ...
CreateCase(f, c) ==
    /\ known' = [known EXCEPT ![f] = @ \cup {c}]
    /\ queue' = [queue EXCEPT ![f] = Put(@, queued_paths(f), Empty)]
    /\ mem' = [mem EXCEPT ![f] = c]
    /\ Goto(f, "save")

Discover(f) ==
    /\ At(f, {"fuzz"})
    /\ \E c \in Discoverable[f] \ (known[f] \cup {Crash}) : CreateCase(f, c)
    /\ UNCHANGED <<scanVars, history, entries, pos, age, in_place_resume,
                   deterministic_done, resume, resume_done, crashes, backups,
                   fuzzer_stats, synced>>

\* Mutant: a file to which nothing was written gets no entry.
SaveCaseUnlessEmpty(f, data) ==
    /\ queue' = [queue EXCEPT ![f] = Put(@, queued_paths(f), data)]
    /\ entries' = IF data = Empty THEN entries
                  ELSE [entries EXCEPT ![f] = Append(@, Entry(data, FALSE))]
    /\ saved' = [saved EXCEPT ![f] = @ \cup ({data} \ {Empty})]
    /\ mem' = [mem EXCEPT ![f] = Empty]
    /\ Goto(f, IF party[f] = f THEN "fuzz" ELSE "scan")

\* ... and writes the messages that were sent, if any were.
SaveCase(f, data) ==
    /\ queue' = [queue EXCEPT ![f] = Put(@, queued_paths(f), data)]
    /\ entries' = [entries EXCEPT ![f] = Append(@, Entry(data, FALSE))]
    /\ saved' = [saved EXCEPT ![f] = @ \cup ({data} \ {Empty})]
    /\ mem' = [mem EXCEPT ![f] = Empty]
    /\ Goto(f, IF party[f] = f THEN "fuzz" ELSE "scan")

FinishSave(f) ==
    /\ At(f, {"save"})
    /\ SaveCase(f, mem[f]) \/ (mem[f] \in Unsent /\ SaveCase(f, Empty))
    /\ UNCHANGED <<scanVars, pos, known, age, in_place_resume, starts, kills, made, mixed,
                   finished, deterministic_done, resume, resume_done, crashes, backups,
                   fuzzer_stats, synced>>

DiscoverCrash(f) ==
    /\ At(f, {"fuzz"}) /\ Crash \in Discoverable[f] \ known[f]
    /\ known' = [known EXCEPT ![f] = @ \cup {Crash}]
    /\ crashes' = [crashes EXCEPT ![f] = @ \cup {Crash}]
    /\ saved' = [saved EXCEPT ![f] = @ \cup {Crash}]
    /\ UNCHANGED <<scanVars, entries, pos, mem, age, in_place_resume, starts, kills, made, mixed,
                   finished, pc, queue, deterministic_done, resume, resume_done, backups,
                   fuzzer_stats, synced>>

\* The deterministic stages of an entry end, and a file says so.
MarkAsDetDone(f) ==
    /\ At(f, {"fuzz"}) /\ f \in Deterministic
    /\ \E i \in DOMAIN entries[f] :
         /\ entries[f][i].data # Empty /\ ~entries[f][i].passed_det
         /\ deterministic_done' = [deterministic_done EXCEPT ![f] = @ \cup {i - 1}]
         /\ entries' = [entries EXCEPT ![f][i].passed_det = TRUE]
         /\ finished' = [finished EXCEPT ![f] = @ \cup {entries[f][i].data}]
    /\ UNCHANGED <<scanVars, pos, known, mem, age, in_place_resume, starts, kills, made, saved,
                   mixed, pc, queue, resume, resume_done, crashes, backups, fuzzer_stats,
                   synced>>

(***************************************************************************)
(* Synchronisation                                                         *)
(***************************************************************************)

\* What the loop would pass over without a trace, the numbers seen in earlier scans,
\* counts as returned.
BeginScan(f) ==
    /\ At(f, {"fuzz"})
    /\ \E p \in Parties[f] :
         /\ queue[p] # Missing
         /\ party' = [party EXCEPT ![f] = p]
         /\ min_accept' = [min_accept EXCEPT ![f] = synced[f][p]]
         /\ next_min_accept' = [next_min_accept EXCEPT ![f] = synced[f][p]]
         /\ handle' = [handle EXCEPT ![f] = made[p]]
         /\ listed' = [listed EXCEPT ![f] = {n \in Files(queue[p]) : n >= synced[f][p]}]
         /\ returned' = [returned EXCEPT ![f] = {n \in Files(queue[p]) : n < synced[f][p]}]
         /\ owed' = [owed EXCEPT ![f] = {n \in Files(queue[p]) :
                                           n >= synced[f][p] /\ queue[p][n] # Empty}]
    /\ Goto(f, "scan")
    /\ UNCHANGED <<diskVars, coreVars, history, dirent, accepted>>

\* The directory that was opened is still the queue of the party.
Current(f) == handle[f] = made[party[f]] /\ queue[party[f]] # Missing

\* What readdir may return next: what was there, in any order, and what has been
\* added since.
Returnable(f) ==
    listed[f] \cup (IF Current(f) THEN Files(queue[party[f]]) \ returned[f] ELSE {})

\* Mutant: a number is compared with what the scan has come to, not with where it began.
SeenBeforeInScan(f, n) == n < next_min_accept[f]

SeenBefore(f, n) == n < min_accept[f]

Passed(f, n) == IF n >= next_min_accept[f] THEN n + 1 ELSE next_min_accept[f]

Theirs(f) == queue[party[f]]

\* The next file is opened.  One that is gone or empty is not looked at again.
ReadDirent(f) ==
    /\ At(f, {"scan"})
    /\ \E n \in Returnable(f) :
         /\ listed' = [listed EXCEPT ![f] = @ \ {n}]
         /\ returned' = [returned EXCEPT ![f] = @ \cup {n}]
         /\ next_min_accept' = [next_min_accept EXCEPT ![f] =
                                   IF SeenBefore(f, n) THEN @ ELSE Passed(f, n)]
         /\ IF ~SeenBefore(f, n) /\ n \in Files(Theirs(f)) /\ Theirs(f)[n] # Empty
            THEN /\ dirent' = [dirent EXCEPT ![f] = n]
                 /\ mem' = [mem EXCEPT ![f] = Theirs(f)[n]]
                 /\ Goto(f, "reopen")
            ELSE UNCHANGED <<dirent, mem, pc>>
    /\ UNCHANGED <<diskVars, history, party, min_accept, handle, accepted, owed, entries, pos,
                   known, age, in_place_resume>>

\* construct_kl_messages opens it again, and ends the process if it cannot.
ReopenCase(f) ==
    /\ At(f, {"reopen"})
    /\ IF dirent[f] \in Files(Theirs(f))
       THEN Goto(f, "import") /\ UNCHANGED <<diskVars, scanVars, coreVars, history>>
       ELSE Exit(f)

ImportCase(f) ==
    /\ At(f, {"import"})
    /\ accepted' = [accepted EXCEPT ![f][party[f]] = @ \cup {dirent[f]}]
    /\ owed' = [owed EXCEPT ![f] = @ \ {dirent[f]}]
    /\ IF mem[f] \in known[f]
       THEN /\ mem' = [mem EXCEPT ![f] = Empty]
            /\ Goto(f, "scan") /\ UNCHANGED <<known, queue>>
       ELSE CreateCase(f, mem[f])
    /\ dirent' = [dirent EXCEPT ![f] = 0]
    /\ UNCHANGED <<history, party, min_accept, next_min_accept, handle, listed, returned,
                   entries, pos, age, in_place_resume, deterministic_done, resume,
                   resume_done, crashes, backups, fuzzer_stats, synced>>

\* readdir has returned all that was there when the directory was opened; of a
\* directory that is being deleted it may return less.
EndScan(f) ==
    /\ At(f, {"scan"}) /\ (Current(f) => listed[f] \cap Files(Theirs(f)) = {})
    /\ synced' = [synced EXCEPT ![f][party[f]] = next_min_accept[f]]
    /\ party' = [party EXCEPT ![f] = f] /\ handle' = [handle EXCEPT ![f] = 0]
    /\ min_accept' = [min_accept EXCEPT ![f] = 0]
    /\ next_min_accept' = [next_min_accept EXCEPT ![f] = 0]
    /\ listed' = [listed EXCEPT ![f] = {}] /\ returned' = [returned EXCEPT ![f] = {}]
    /\ owed' = [owed EXCEPT ![f] = {}]
    /\ Goto(f, "fuzz")
    /\ UNCHANGED <<coreVars, history, dirent, accepted, queue, deterministic_done, resume,
                   resume_done, crashes, backups, fuzzer_stats>>

(***************************************************************************)
(* The process is killed, or the machine goes down.                        *)
(***************************************************************************)

\* _resume has lost a case, and what it still holds will be taken for the queue.
HalfDeleted(f) == Files(resume[f]) # {} /\ ~(saved[f] \subseteq Contents(resume[f]) \cup {Crash})

Kill(f) ==
    /\ ~At(f, {"down"}) /\ kills[f] < MaxKills[f] /\ Affordable(1)
    /\ kills' = [kills EXCEPT ![f] = @ + 1]
    /\ mixed' = [mixed EXCEPT ![f] = @ \/ (At(f, {"nuke_queue"}) /\ HalfDeleted(f))]
    /\ ClearMemory(f)
    /\ UNCHANGED <<diskVars, starts, made, saved, finished>>

StartStep(f) ==
    \/ StartFresh(f) \/ StartResume(f)
    \/ CleanMetadata(f) \/ CleanQueueFile(f) \/ QueueCleaned(f) \/ CleanCrashes(f)
    \/ CleanRest(f) \/ MakeDirs(f) \/ ReadTestcases(f)
    \/ LinkInput(f) \/ CreateCopy(f) \/ WriteCopy(f) \/ PivotDetDone(f) \/ PivotDone(f)
    \/ NukeMetadata(f) \/ NukeFile(f) \/ NukeDone(f) \/ DryRun(f)

FuzzStep(f) ==
    \/ OpenStats(f) \/ WriteStats(f)
    \/ Discover(f) \/ FinishSave(f) \/ DiscoverCrash(f) \/ MarkAsDetDone(f)

SyncStep(f) ==
    \/ BeginScan(f) \/ ReadDirent(f) \/ ReopenCase(f) \/ ImportCase(f)
    \/ EndScan(f)

Next == \E f \in Fuzzers : StartStep(f) \/ FuzzStep(f) \/ SyncStep(f) \/ Kill(f)

Spec == Init /\ [][Next]_vars

(***************************************************************************)
(* Properties                                                              *)
(***************************************************************************)

\* What the directory and the process hold is of the types the code gives it.
TypeOK ==
    \A f \in Fuzzers :
      /\ Files(queue[f]) \subseteq Nat /\ Contents(queue[f]) \subseteq Cases
      /\ Files(resume[f]) \subseteq Nat /\ Contents(resume[f]) \subseteq Cases
      /\ deterministic_done[f] # Missing => deterministic_done[f] \subseteq Nat
      /\ crashes[f] # Missing => crashes[f] \subseteq {Crash}
      /\ backups[f] \subseteq {Crash}
      /\ fuzzer_stats[f] \notin {Missing, Empty} => fuzzer_stats[f] \in 0..MaxAge[f]
      /\ \A p \in Parties[f] : synced[f][p] \in Nat
      /\ \A i \in DOMAIN entries[f] : entries[f][i].data \in Cases \cup {Empty}
      /\ known[f] \subseteq Cases \cup {Crash}
      /\ party[f] \in Parties[f] \cup {f}
      /\ saved[f] \subseteq Cases \cup {Crash}

Fuzzing(f) == At(f, {"fuzz", "stats", "write_stats", "last_stats", "save", "scan",
                     "reopen", "import"})

\* File i of the queue is entry i and holds its case, whatever files earlier
\* sessions left behind: a new case never takes the number of another one, and a
\* file that says an entry has been through the deterministic stages says so of a
\* case that has.
QueueOnDisk ==
    \A f \in Fuzzers : Fuzzing(f) =>
      /\ Files(queue[f]) = 0..queued_paths(f) - (IF At(f, {"save"}) THEN 0 ELSE 1)
      /\ \A i \in DOMAIN entries[f] : queue[f][i - 1] = entries[f][i].data
      /\ \A n \in deterministic_done[f] : queue[f][n] \in finished[f]

\* What is on disk is what the process and its marks say of it.
DiskTrue == TypeOK /\ QueueOnDisk

\* No case that was written is lost by a kill at any moment of a session or of a
\* resume, except that one in the middle of the deletion of _resume, or an old
\* _resume left in a directory set up anew, makes a later resume take a part for
\* the whole.
CasesSurvive ==
    \A f \in Fuzzers : ~mixed[f] =>
      saved[f] \subseteq Contents(queue[f]) \cup Contents(resume[f]) \cup backups[f]
                       \cup (IF crashes[f] = Missing THEN {} ELSE crashes[f])

\* A scan that ends has executed every case that was in the queue of the party when
\* the scan began and that no earlier scan had got to, in whatever order the files
\* came, as long as the party goes on with that queue.
ScanComplete ==
    \A f \in Fuzzers :
      At(f, {"scan"}) /\ Current(f) /\ listed[f] \cap Files(Theirs(f)) = {}
        => owed[f] \cap Files(Theirs(f)) = {}

\* A process executes a case of another fuzzer at most once, if that fuzzer goes on
\* with its queue.
ImportedOnce ==
    \A f \in Fuzzers :
      At(f, {"import"}) => dirent[f] \notin accepted[f][party[f]]

\* What a fuzzer takes from another one: all of it, and each case once.
ImportsSound == ScanComplete /\ ImportedOnce

\* "Allow this to fail in case the other fuzzer is resuming or so": a case that was
\* opened is there when its messages are read, so that a resume of the other fuzzer
\* does not end this one.  It does: the file is opened by its name a second time.
CaseStillThere ==
    \A f \in Fuzzers : At(f, {"reopen"}) => dirent[f] \in Files(Theirs(f))
=============================================================================
