# AFLNet in TLA+

AFLNet fuzzes a network server: it replays recorded client messages, mutates
some of them, and uses the codes the server answers with to build a model of
the server's states, which then decides what to fuzz next. This directory holds
TLA+ modules of `afl-fuzz` and `aflnet.c` and of the tools, wrappers and
libraries around them, TLC configurations that check them on small instances,
and TLAPS proofs for every instance of all but the deterministic stages. `PROJECT.json` maps each
definition to the lines it models and lists runs, mutants, hazards, findings
and theorems.

    tlc -workers 2 -config state_aware.cfg MCStateAware     # one run
    tlapm StateAware_proofs.tla                             # the proofs

## 1. The system

| Component | State it keeps | Operations | Modules |
|---|---|---|---|
| Queue and favored set | `queue`, `top_rated[]`, `tc_ref`, `trace_mini`, `favored`, `pending_*`, `queued_*` | `add_to_queue`, `calibrate_case`, `update_bitmap_score`, `cull_queue`, `abandon_entry` | `Corpus` |
| Map of fuzzed pairs | `was_fuzzed_map[state][entry]` and its dimensions | `expand_was_fuzzed_map` and the writes of two functions | `Corpus` |
| State machine of the server, table of states | `ipsm`, `khms_states`, `state_ids`, seeds and cursor of each state | `update_state_aware_variables`, `is_state_sequence_interesting` | `StateAware` |
| Selection | target, cursors, cycles | `choose_target_state`, `choose_seed`, M2 of `fuzz_one`, the state-aware loop of `main` | `StateAware` |
| Score of states | `fuzzs` of each state | `update_fuzzs`, `update_scores_and_select_next_state` | `Scores` |
| Classic loop | `queue_cur`, `queue_cycle`, `current_entry` | the other loop of `main`, the skips of `fuzz_one`, `find_start_position` | `ClassicLoop` |
| Deterministic stages | `eff_map`, stage counters, the buffer | fifteen stages of `fuzz_one`, `could_be_*` | `Deterministic` |
| Dictionaries | `extras`, `a_extras`, `auto_changed`, files | `load_extras`, `maybe_add_auto`, `save_auto`, `load_auto` | `Dictionary`, `Deterministic` |
| Havoc, splicing, power schedule | `out_buf` and its length, `stage_max`, `perf_score` | `calculate_score`, `choose_block_len`, the stages | `Havoc` |
| Coverage map | `trace_bits`, three virgin maps, `fuzz_bitmap` | `classify_counts`, `has_new_bits`, `simplify_trace`, the verdicts of `save_if_interesting` and `calibrate_case` | `Coverage` |
| Messages of a test case | `kl_messages`, a linked list on a pool; `M2_prev`, `M2_next` | `construct_kl_messages`, `common_fuzz_stuff`, `delete_kl_messages` | `Execution`, `TestCase` |
| Network session | `response_buf`, `response_bytes`, `messages_sent` | `send_over_network`, `update_region_annotations`, `net_send`, `net_recv` | `Execution`, `Network` |
| Run of the server | `child_pid`, `child_timed_out`, `stop_soon`, timer, two pipes, `child_stopped` | `run_target`, the signal handlers, `__afl_start_forkserver`, the end of `main` | `ForkServer` |
| Request extractors, files of messages | regions, the cursors of a scan | `extract_requests_*`, `save_kl_messages_to_file`, `convert_kl_messages_to_regions` | `Requests` |
| Response extractors | the cursors of a scan, the codes | `extract_response_codes_*` | `Responses` |
| Output directory | the files of a session | `setup_dirs_fds`, `maybe_delete_out_dir`, `read_testcases`, `pivot_inputs`, `nuke_resume_dir`, what fuzzing writes | `Session` |
| Synchronisation | `.synced/*`, other fuzzers' queues | `sync_fuzzers` | `Session` |
| Start-up | option flags, settings | `main` up to its loop; the option loops of the tools; `check_binary`, `detect_file_args`, `get_qemu_argv` | `Startup`, `TargetStart` |
| Replay tools | as the network session | `aflnet-replay`, `afl-replay` | `Network` |
| Corpus tools | the file and its copy; a run | `afl-tmin`, `afl-showmap`, `afl-analyze` | `Minimizer`, `ToolRun`, `Analyzer` |
| Wrappers | a command line, the flags of a scan | `afl-gcc`, `afl-clang-fast`, `afl-as` | `Toolchain`, `Assembler` |
| Allocators | heap, canaries, list of what is tracked | `libdislocator`, `alloc-inl.h` | `Dislocator`, `AllocInl` |
| Not modelled | - | screen and statistics, LLM helper, libtokencap, afl-gotcpu, vendored and dead code | section 6 |

How they interact. `main` reads the options and sets the directory up, reads
the seeds into the queue, dry-runs each (`calibrate_case`, then
`update_state_aware_variables` on the response), culls the queue and enters one
of its loops: choose a target state, cull, choose a seed that reaches it,
`fuzz_one`. A turn marks the messages M2 that follow the arrival in the target
state, takes them through the deterministic stages, havoc and splicing, and
runs each mutant: splice it into the list of messages, ask the fork server for
a runner, send the messages, read the status, compare the coverage. A mutant
that covers something new is written to the output directory and joins the
queue; its response grows the state machine, and it is calibrated. Other
fuzzers read the files. The program has one thread; what runs beside it is the
fork server, the server under test, the timer and the user (both as signal
handlers between any two of its steps), and other fuzzers, through files only.

What is hard. The same facts are kept twice and updated in different places
(state machine / table / `state_ids` / rows of the map; entries / columns /
files; favored entries / counters; `virgin_bits` / `fuzz_bitmap`), cursors
outlive the lists they point into growing, and frees are decided by a count. The
list of messages is edited through pointers into it, one of which is a sentinel
that moves. Stages leave a buffer to each other and each restores by hand what
it changed. A session can break off at any byte. Signals interrupt any step of
a run, and who waits for the runner depends on the mode. Files are written and
read by several processes and deleted halfway by an interrupted start. The list
"hazards" of `PROJECT.json` has forty such places, with the properties that
would notice.

What makes the parts correct, in short: *queue* - the reference count equals
the slots held, favored entries cover everything covered. *Map, table,
machine* - every index fits, the records agree, nothing is forgotten.
*Selection* - a turn has something to mutate, nobody starves. *Stages* - what
is passed over has been tried, the buffer comes back, nothing is written behind
it, they end. *Coverage* - the virgin map is what no run has shown, in memory
and on disk; a saved fault is a new one. *Messages, session* - M1 and M3 are
untouched, a mutant is sent whole, only what was written and sent is read. *Run* - one
runner, two processes in step, true verdicts, an end. *Extractors* - regions
tile any buffer, every scan ends, a later look at a response takes nothing
back. *Directory, synchronisation* - a kill at any moment loses no case, a file
stands for its entry, a scan misses nothing. *Tools, wrappers, allocators* -
what is kept was tried, trampolines fit where they are put, blocks end at a
fence.

## 2. The modules

**Corpus**: the queue, one operator per routine that changes it. An entry is
its index; a trace the set of its non-zero bytes, as hit counts belong to
`Coverage`; `exec_us * len` one number; a region its annotation. `Decrement`
keeps the width of a `u32`. `was_fuzzed_map` is a total function with
`Unallocated` outside its dimensions, so that an access outside shows.
`LeavesSlot` repeats both conditions of `update_bitmap_score`, the second as
written, unreachable as it is; `PickedBytes` is the loop of `cull_queue`.

**StateAware** extends it: `phase` walks through `read`, `dry_run`, the three
loops of `update_state_aware_variables` (one step per iteration), `calibrate`,
`select` and `fuzz`. What the server does is a member of `Sessions`: codes,
annotations, a trace, a speed. The annotations of a region may name a state that
the whole response has no more; then graph and table take the state in twice. Random numbers are nondeterminism; every state
scores more than 0, so the draw by score may return any (`Scores` says which it
never does). Mutants are kept, or cases imported, at any point of a turn.

**TestCase** says in fifty lines what a test case is: three sequences of
messages, of which mutants replace the middle one, and a wire on which they
appear in order. **Execution** has the list as klist.h builds it (nodes, the
pool, the sentinel whose storage takes the next message), the pointer surgery of
`common_fuzz_stuff` step by step, and a session in which any send may be short
and any receive bring bytes or fail. `ImplementsTestCase` is the refinement:
`Parts` cuts the list at `M2_prev` and `M2_next`, and every step of the list is
a step of the abstract test case or a stutter.

**ForkServer**: two programs, two pipes, the runners, a timer and a user. `pc`
is the point in `run_target` (and in `init_forkserver` and the end of `main`),
`fs` that in `__afl_start_forkserver`. A handler is an action enabled at every
`pc`. `SA_RESTART` shows as reads that a handler does not end. A killed process
is a zombie until its parent has waited for it; `kill(pid, 0)` finds a zombie;
process 1 waits for orphans. In persistent mode the runner may stop, and is
woken for the next run.

**Requests**: the sixteen functions that cut a buffer into messages, one turn of
their loop a step. Eleven look for a delimiter and share a loop, each with its
own condition; DNS, SSH, TLS, DICOM and DTLS skip by lengths read from the
buffer. `UINT` is the size of an `unsigned int`, and sums wrap where the code
lets them. Then the messages are loaded, some are sent, two loops save them and
make regions of them, and the entry is loaded again. **Responses**: the sixteen
functions that read codes off a response, run anew on all of it as it grows; what
a scan reads behind the response is any byte. **Extraction** runs one of the two
at a time; `MCExtractors` gives it the buffers and the bytes.

**Session**: an output directory over its sessions, one operation on a file a
step, a kill between any two, and a second fuzzer that reads the queue
meanwhile. A file is known by its number, as `pivot_inputs` knows it;
`deterministic_done` stands for the marks beside it; a crash for hangs too.
`readdir` returns what is in the directory in any order, files that came since
it was opened or not. The history variables `saved`, `finished`, `accepted` and
`owed` are what the properties compare the disk with.

**Deterministic** (on **Dictionary**): all stages from the walking bits to the
automatic dictionary, a position of a stage a step, with the effector map,
`could_be_bitflip`, `could_be_arith` and `could_be_interest` on words of the
buffer, and the tokens the first stage collects. `qsort` may leave any sorted
order. **Havoc**: a buffer is its length; a tweak is the length it leaves, the
size of the allocation and the end of what it wrote, so that a byte behind the
allocation shows whatever it holds. The score has the code's steps and caps.

**Coverage**: a hit count, its class of one bit, the three virgin maps, and the
callers that run the target again (calibration, a time-out run longer) and so
overwrite the trace that another decision is about to be made from.

**Minimizer**: `afl-tmin` on a target that is deterministic and otherwise free.
**ToolRun**: `run_target` of the three tools line by line, with handlers at any
point. **Analyzer**: the four changes of each byte and the report.
**Dislocator**, **AllocInl**: pages and canaries; heads, tails and tracking.
**Assembler**: the six flags of `afl-as` on lines of every kind, beside a
history of what the assembler makes of the same lines; `lost` says in what the
two differ after a directive that only one of them understands. **Toolchain**: a command
line through a wrapper to the end of the assembler. **Startup**: options of
`afl-fuzz` in any order, values refused, conflicts, dry run, opening of the log.
**TargetStart**: environment, the directory of the temporary input, search, `@@`,
QEMU, in all four programs.
**Network**: `net_send` and `net_recv` call by call against a server that
reads, answers and closes when it likes. **ClassicLoop**: cycles, skips, imports
by count, and the position in `fuzzer_stats`, which `main` overwrites with 0
before its loop and `show_stats` writes once a minute. **Scores**: the draw by
cumulated scores. **Tools** instantiates these twelve with one shared state and
runs one at a time; its actions are named for them. Their bounds are its
constants, which `MCTools` and `tools.cfg` give.

## 3. What the runs check

| Run | Question | Properties | Result |
|---|---|---|---|
| `state_aware` | Do the records of the state-aware mode agree in every state, for random, round-robin and FAVOR selection, and when annotations are taken back? | `TypeOK`, `TracesHeld`, `IndicesFit`, `TurnsRecorded`, `FavoredCover`, `StatesSound`, `TurnIsMeaningful`, `MapMonotone` | hold |
| `every_turn_kept` | Is a turn recorded for the state it was for? | `EveryTurnKept` | violated |
| `seeds_kept` | Does a state keep its seeds? | `SeedsKept` | violated |
| `state_aware_live` | Does round-robin selection reach every state and every seed of the initial one, while both lists grow? | `EveryStateTargeted`, `NoSeedStarves` | hold |
| `execution` | Does the linked list implement the test case; is what is recorded what was written and sent? Do stacked tweaks stay in their allocations, and does `fuzz_one` end? | `SpliceSound`, `RecordsTrue`, `ImplementsTestCase`, `HavocSound`, `FuzzOneEnds` | hold |
| `fuzz_one` | Whenever a signal strikes: true verdicts, one runner, an end? Is every word that the stages promise executed; does a token in use survive? | `VerdictIsCause`, `ProcessesAgree`, `NothingHangs`, `StagesSound`, `TokensKept` | hold |
| `extractors` | Do regions tile any buffer, do messages come back from a file, do annotations only grow, do scans end? | `CutSound`, `SavedMessagesComeBack`, `ResponsesGrow`, `ExtractorsEnd` | hold |
| `campaign` | Do kills at any moment lose a case; does a file stand for its entry; does a scan miss any? Is the virgin map what no run has shown; is a saved fault a new one? | `DiskTrue`, `CasesSurvive`, `ImportsSound`, `VirginMapTrue`, `FaultsUnique` | hold |
| `sync_survives_resume` | Does a fuzzer that imports survive the other's resume? | `CaseStillThere` | violated |
| `tools` | The twelve programs and parts of `Tools`, each its question | `MinimizedWell`, `VerdictIsOwn`, `AnalyzedWell`, `HeapsSound`, `CommandSound`, `StartSound`, `TargetRight`, `NetworkTrue`, `LoopTrue`, `TrampolinesFit`, `ToolsEnd` | hold |
| `position_lost` | Does a resumed session that is stopped early leave the position it found? | `PositionKept` | violated |
| `log_before_open` | Is the log open when it is written to? | `LogIsOpen` | violated |

`execution`, `fuzz_one` and `campaign` run two modules that share no state, one
at a time: `MCExecution` has `Execution` and `Havoc`, `MCFuzzOne` `ForkServer` and
`Deterministic`, `MCCampaign` `Session` and `Coverage`. `part` says which of the
two works; the other rests in a state of its own, and the properties and the
fairness are those of the two modules.

**The five violations.** `abandon_entry` writes the cell of a turn only if the
entry has had no turn yet, so that the turn for a second state leaves no mark in
`was_fuzzed_map`, which is to be "state-specific". A state that a region has
brought into the table is not in the graph; when a later response has it, the
graph enters it again, and the list of its seeds, to be "kept", is dropped.
`main` finds the position of the session it resumes and then writes
`fuzzer_stats` with 0 in its place: stopped before its first cycle, the session
makes the next one start from 0, though resumption is to "pick up from the last
known offset". `sync_fuzzers` allows for a case that cannot be opened
"in case the other fuzzer is resuming or so", but `construct_kl_messages` opens
the same path a second time and ends the process if it cannot; between the two
the other fuzzer renames its queue. And `perform_dry_run` calls
`update_state_aware_variables`, which logs to `log_file`, a null pointer until
`main` opens it after the dry run.

`TurnsRecorded` and `StatesSound`, which hold, say what is left: the counter, the
mark of an entry and the map agree on whether an entry has had a turn; graph,
table, `state_ids`, seeds and map agree on every state that was entered once, a
state is entered twice at most, and only after a region brought it.

**Bounds.** Each is as small as the cases allow.

* `state_aware`: three states (the initial one, one reached from it, one
  beyond), three entries, a bitmap of two bytes. Two bytes are the least with
  which one winner can lose a slot and keep another; three entries the least
  with which a slot changes hands twice; three states the least with a cursor
  that wraps over a grown list. The sessions are chosen by kind: answered in
  two steps, answered with a region whose state the response takes back, answered
  late, silent. `MaxRows` (5) leaves room for each state beyond the first to be
  entered twice. States are chosen in rounds with seeds at random, or both by
  FAVOR; the two violation runs choose states at random. `FewSeeds`, `FewPaths`, `WarmupCycles` stand for
  10, 10 and 5, low enough to be on both sides; `U32Max = 7` lets a wrap happen.
* `execution`, messages: up to three messages with M1, M2, M3 each empty or not, mutants
  of up to three regions over a `MaxRegionCount` of one (so that merging
  happens), two executions (so that nodes are recycled); `MaxNodes` (13) exceeds
  what those can allocate, which `Execution_proofs` shows of any that exceeds
  twice the lengths of a seed and a mutant.
* `fuzz_one`, runs: three runs, the least in which a run can be disturbed by the one
  before it and disturb the next.
* `extractors`: every string of five to seven bytes over those a protocol looks
  for and one more, or headers and delimiters strung together and cut off
  anywhere, with lengths of zero, one too few, one too many and next to the
  largest; `UINT = 65536`. Responses of two to eight bytes, fields narrower than
  the protocols' in the same order, numbers taken modulo `Width = 32`.
* `campaign`, files: two seeds, two cases to be found and a crash; a fuzzer with three
  starts and two kills (an interrupted resume, interrupted again, and the start
  that counts), beside one that imports, or alone with a crash and a gap in its
  numbers. `Budget` says which of these come together. `Grace` and `MaxAge` put
  a session on either side of `OUTPUT_GRACE`.
* `execution`, havoc: lengths of 1 to 7 under a `MAX_FILE` of 6, block limits and stage
  limits in the code's order, scores at both ends, stacks of two.
* `fuzz_one`, stages: bytes of five bits, so that 16- and 32-bit words have carries
  and order within reach of TLC; messages of one to four bytes, since the last
  stages start at four; tokens that fill the automatic list and overflow it.
* `campaign`, coverage: two tuples, one whose count changes class, one whose counter wraps
  at 256 to 0; a bitmap from an earlier session (`-B`) that knew one count of the
  first, so that a new tuple and a new count of a known one both turn up; calibration of one or two rounds.
* `tools`: the bounds stand in `tools.cfg` and `MCTools`. Files of up to three
  characters with all outcomes of the target; two runs for handlers that come
  late; every byte and the runs of up to five that `dump_hex` tells apart; two
  threads and three blocks; six lines of assembly, of every kind; two arguments
  of a compiler, so that one changes the meaning of the next; every subset of
  the options on which others depend, in any order; a test case of two messages
  with sends cut anywhere; two cycles of a queue of three; three states.

**Fairness.** `StateAware!FairSpec` asks that the loop goes on: it waits for
nothing outside, since `run_target` returns (`NothingHangs`) and the stages end
(`FuzzOneEnds`). Whether a mutant is kept, or a stop arrives, is not asked for.
`ForkServer!FairSpec` asks that the two programs run, that an armed timer
expires and that process 1 waits for orphans; nothing is asked of the runner,
of a target that starts or of the user. `Extraction!ExtractionSpec` and
`Havoc!HavocSpec` ask that the loop goes on, which nothing can keep it from.
`Tools!Spec` asks the same of `minimize` and of `run_target`, that a target
that ends by itself does and that an armed timer expires. The other
specifications state none: their properties are safety.

**Mutants.** Each property of a passing run has a mutant: a definition changed
the way a slip of the code would change it (`Mutant` in the modules), which TLC
finds to violate it: a trace freed at any loss, a sentinel not followed, a read
not restarted after a signal, a resume that writes over an older one's `_resume`, a
scan that skips what comes out of order, a canary left in the middle of a grown
buffer.

**Deadlock** is not checked where the system may stop: in `extractors` (a
scan is over), `tools` (a program ends), and in three of the violation runs. In
`campaign` and `fuzz_one` a session whose starts are used up and a resumed one
stutter instead, so that it is checked of the other part.

## 4. What is proved

Of the forty properties the passing runs check, thirty-three are theorems: all
that are not liveness but `StagesSound`, of which three of four parts are. The
proofs are in eight modules:

| Module | About |
|---|---|
| `StateAware_proofs` | `Corpus` and `StateAware`: the queue, the map, the choice of states and seeds |
| `Execution_proofs` | `Execution`: the list, the session, the refinement |
| `TestCase_proofs` | `Requests`, `Responses` (in `Extraction`) and `Havoc` |
| `FuzzOne_proofs` | `ForkServer` and `Deterministic` with `Dictionary`: the stages that make mutants of a message, and the run of each |
| `Coverage_proofs`, `Session_proofs` | the modules they are named for |
| `Tools_proofs` | of `Tools`: `ClassicLoop`, `Scores`, `Dislocator`, `AllocInl`, `Minimizer`, `Assembler`, `Startup`, `Analyzer`, `TargetStart` |
| `Programs_proofs` | of `Tools`: `ToolRun`, `Network`, `Toolchain` |

Each follows one pattern: an inductive invariant, a lemma that `Init` establishes
it, one lemma per action that the action preserves it, and the theorems it
implies. TLC has checked each of these invariants on the run of its module, but
for two that it cannot enumerate: `FencedInv`, which asks for a number of pages,
and `SteadyInv`, which speaks of all sets of scans.

### The state-aware loop

For every set of states and sessions and every bound, theorems of
`StateAware!Spec`:

| Theorem | Says |
|---|---|
| `TypeCorrect` | every variable keeps its type (`TypeOK`) |
| `TracesAreHeld` | `tc_ref` is the number of slots held, and who holds a slot has a trace that contains it: `cull_queue` never reads `NULL` (`TracesHeld`) |
| `IndicesAlwaysFit` | a row per state, a column per entry, cursors inside lists that grow, row 0 the row of state 0 (`IndicesFit`) |
| `PendingCount` | `pending_not_fuzzed` is the number of entries without a recorded turn |
| `MapGrows` | no step takes a cell of the map back (`MapMonotone`) |
| `TurnsAreRecorded` | counter, `was_fuzzed` and map agree on which entries have had a turn: those that have are not pending and have a cell that says so (`TurnsRecorded`) |
| `FavoredAlwaysCover` | when no cull is due, the favored entries cover what the queue covers (`FavoredCover`) |
| `StatesAreSound` | the table and `state_ids` have the same states, the graph no others, each entered twice at most; seeds and map agree on who reaches each state that was entered once (`StatesSound`) |
| `TurnsAreMeaningful` | a turn has a non-empty M2, a row of the map and a cell that says its target is reached; its entry is a seed of the target, unless that was entered twice (`TurnIsMeaningful`) |
| `SeedsAreKept` | no list of seeds loses one (`SeedsKept`, an action property), if annotations name states of the response |
| `Invariance` | the inductive invariant the others rest on |

The assumptions are `CorpusAssumption` and `StateAwareAssumption`: the bounds
are positive, a `u32` can count the entries and the bytes, and a non-empty
sequence of codes starts with 0, as every `extract_response_codes_*` makes it.
`SeedsAreKept` has a hypothesis besides, `AnnotationsInResponse`: the state of a
region is a state of the whole response. It is what `ResponsesGrow` says of the
extractors, and `ResponsesAlwaysGrow` proves (see below), so it holds of all
protocols but those in `Unsteady`. It does not hold of the sessions of
`MCStateAware`, and the run `seeds_kept` shows what happens without it. The other
theorems are about all sessions.

The argument. `IInv` is inductive; none of the properties is alone. That the
reference count is exact rests on an entry being rated once (`RatedOnce`):
`update_bitmap_score` would count a slot twice for an entry that holds it
already, and it never does because calibration visits entries in order, each
before any of its slots exists. That the map fits rests on the table,
`state_ids` and the state machine having the same first state (`TableOK`) and
on the map having no row but row 0 before it (`FirstRow`). The cursors rest on
a cursor of an empty list being at its start (`CursorStart`). That a cell never
goes back rests on a recorded cell belonging to an entry whose turn is over
(`FuzzedIsRecorded`) while only an entry without one is made reachable.
`ControlOK` says at which phase what is known. Each action has one lemma
(`<Action>IInv`); the operators of `Corpus` have theirs at the head of
`StateAware_proofs`, stated for any state in which their conditions hold.

The second half of `StateAware_proofs` goes on from there. `FuzzedSomewhere` adds
the cell of a turn: no step takes it back, the growth of the map included.
`FavoredCover` is about the loop of `cull_queue`, which
`Corpus` has as a recursive function over the bytes: the proof first shows that
the function exists, by the least byte at which it would not, and then that a
byte that nobody picked covers is covered by the entry the loop would have
picked at it.

`SelectionInv` is about the two records of states. `StatesEntered` says how often
a state can have been entered: a step that enters one does so through the graph,
which had it not, or through a region, when the table had it not (`StepEnters`);
the second entering is therefore the graph's, and then both have it.
`NoRowBefore` says that a row beyond those of the map is not allocated yet, so
that a state enters with an empty column of seeds and reachable cells alike
(`FreshRow`, `NotYetSeed`); from there `SeedsMatchMap` follows through each of the
steps that add a seed. A state entered again keeps its old row, the first of the
two, and loses its list, so one direction of the match survives. `TurnHeld` is
`TurnIsMeaningful` with what selection needs for it. For `SeedsAreKept`,
`KnownStates` says that under the hypothesis the graph has every state of the
response before the regions are looked at, and so nothing is entered twice.

### A test case

For seeds and mutants of any length, any number of executions and any
`max_seed_region_count`, theorems of `Execution!Spec`:

| Theorem | Says |
|---|---|
| `ListImplementsTestCase` | every step of the list is a step of the test case in three parts, or a stutter: M1 and M3 stay, a mutant replaces M2 as a whole, messages are sent in their order (`ImplementsTestCase`) |
| `SplicesAreSound` | no node leaks, is freed twice or is free while it is in use; the sentinel is where the list ends; the messages of a mutant are its regions, all of them (`SpliceSound`) |
| `RecordsAreTrue` | wherever a session breaks off, what annotates the regions was written, and for messages that were sent (`RecordsTrue`) |
| `ListInvariance` | the invariant below |

The pointers get their meaning from a sequence that the program does not have:
there are `s`, the nodes of the list in their order with the sentinel last, `d`,
the nodes of the old M2 still to be freed, and three lengths, those of M1, M2
and M3 (`Related`). Each pointer is the node at a place that follows from the
lengths (`Pointed`); `s`, `d` and the pool have each node allocated, once
(`Shaped`). `MaxNodes` need only exceed twice the messages of a seed and a
mutant together: a list never outgrows that, so the array of nodes of the model
never ends before the heap of the program does.
Lemmas about the list then say what the routines of `klist.h` do
to `s`: `PushExtends` appends the storage of a new sentinel, `SpliceJoins` moves
what was pushed to where M2 was and leaves M2 in `d`, `FreeDrops` takes the
first node of `d`, `WalkVisits` finds the nodes in their order, `PartsAreCut`
cuts the refinement mapping at the lengths. With these each action has one lemma
(`<Action>Step`), which gives both the invariant of the next state and the step
of the test case. The assumption is `ExecutionAssumption`.

### The extractors

For every buffer of bytes and every width of an `unsigned int` of sixteen bits
or more, theorems of `Requests!Spec`:

| Theorem | Says |
|---|---|
| `TypeCorrectness` | no bound of a region is negative, every list keeps its type |
| `CursorsStayInStep` | the loops over bytes read the byte at `cur_end`, and `mem` is the message so far |
| `RegionsAlwaysTile` | regions lie one behind the other from the first byte on, none empty |
| `BufferCovered` | they reach the last byte or the one before; only those of DNS reach behind it |
| `MessagesFromRegions` | the messages loaded are the regions of the seed, byte for byte |
| `CutIsSound` | the five together (`CutSound`) |
| `SavedAlwaysComeBack` | a queue entry gives back the messages that were sent of it (`SavedMessagesComeBack`) |

`Covered` is where the next region starts, and for each kind of loop the
invariant says that `cur_start` (or `byte_count`, in DICOM) is there. That no
region ends behind the buffer rests on the byte loops not standing before the
last byte with a message begun, since they stop one byte early, unless it is an
SSH identification, which reads on to the end. `construct_kl_messages` reads on
without regard to `start_byte`: that it is at the start of the next region
follows from `RegionsTile`. What is saved comes back since there is one list of
offsets (`SavedAs`) at which the loops that save, convert and load all find the
messages, the empty ones among them, and one number of them (`Kept`) that each
loop stops at by a condition of its own. `RequestsAssumption` is that a buffer has a byte at
least and fits an `unsigned int` with six to spare.

For every protocol but the unsteady ones, every width of the numbers and every
response that fits it, a theorem of `Extraction!ExtractionSpec`, whose steps take
in a byte and scan all there is anew, `ResponsesAlwaysGrow`: the states that
annotate a message begin those that annotate the next (`ResponsesGrow`). It is
about two runs of one function, the scan of a response and that of the response
one byte shorter. `NextState` is the loop as a function of where it stands, and
`Leads` what its steps reach. The invariant (`SteadyInv`) says that, as long as
the shorter scan has not ended, it leads on from where the longer one is now to
the end whose codes are the annotation; once it has ended, that the codes of the
longer one begin with the annotation, which nothing can change any more since
codes are only appended. So it suffices that the two never part before. Scans
for a line, and DNS, read the same byte at the same place and do the same with it
(`LineScan`, `DnsScan`, `SameByte`). A TLS record that ends behind the shorter
response ends that scan, and the two part only there (`TlsScan`, `EndsHere`).
`GoesOnKept` puts these together. DICOM looks at the first byte only (`PduInv`).
`ResponseAssumption` and `WidthAssumption` say that lengths and bytes fit the
numbers that count them.

### A run of the server

For every set of modes and every number of runs, theorems of
`ForkServer!Spec`:

| Theorem | Says |
|---|---|
| `VerdictsAreCauses` | a crash is reported only of a runner that crashed, a timeout only of one the timer killed (`VerdictIsCause`) |
| `AgreeOnRunner` | one runner at most; the one alive is the one afl-fuzz would kill; the fork server never waits for a process twice; afl-fuzz aborts only for a failed fork or an expired start (`ProcessesAgree`) |
| `TypeCorrect` | two bounded pipes, and types |
| `Invariance` | the table |

The invariant is a table of the dialogue: for each place where afl-fuzz may be,
what the fork server may be doing and what the two pipes hold; and beside it
which process may live, whose child it is and who has killed it. A signal may
come between any two rows and must leave the row it finds.

### Coverage

For every map, every set of counts and every campaign, theorems of
`Coverage!Spec`:

| Theorem | Says |
|---|---|
| `VirginMapAlwaysTrue` | `virgin_bits` has exactly the bits no run has shown, in memory and, unless `bitmap_changed`, on disk (`VirginMapTrue`) |
| `SavedAreDistinct` | a fault is saved exactly if its tuples set it apart from all put to the test before (`FaultsUnique`, an action property) |
| `Invariance` | the invariant below |

Calibration judges no run whose checksum it knows; that it misses nothing is
`ChecksumJudged`: the trace of that checksum has no bit left in the virgin map.
A simplified trace has bit 7 for a tuple that was hit and bit 0 for one that was
not; `TellsApart` says of a map of faults which tuples every fault, or none, has
hit, and the comparison of the code follows from it.

### Havoc

For all limits, lengths, tokens, regions and scores, theorems of
`Havoc!HavocSpec`: `HavocIsSound` (`HavocSound`: no tweak reads or writes behind
the allocation it works on, no mutant is empty or exceeds `MAX_FILE`, the
original fits when it is copied back, finds prolong a stage only to a bound) and
`HavocInvariance`. `Buffers` is the table of the lengths at each label. The bound
on finds is a product: `stage_max` and `perf_score` are doubled together, so
`stage_max * orig_perf` never exceeds `LongestStart * perf_score`.

### The deterministic stages

For every message, dictionary, set of saved tokens, width of a byte and size,
theorems of `Deterministic!StagesSpec`:

| Theorem | Says |
|---|---|
| `StagesCorrect` | between two positions the buffer is the message again (`BufferRestored`); what a stage announced and what it did agree when it ends (`StageCounts`); types, the order of both lists of tokens, no twins (`StagesTypes`) |
| `TokensAreKept` | `TokensKept`: who leaves the list of found tokens has half of it above it (`EvictsUnpopular`, an action property), and a resumed session has just the tokens that were in use (`TokensSurvive`) |

`StagesInv` says what is left of a stage: its mutants at each position that is
left. A position takes as many from that as it tries and passes over, which is
a count of candidates (`Parted`, `ArithCount`, `InterestCount`). A dictionary
stage does not restore the buffer between two tokens; `Underway` says that it
differs from the message in the bytes of the last token only, because the tokens
come in the order of length: `OverwriteFacts` follows from it.

Of the list of found tokens `ListSound` says that it has no twins, that the part
in use is in the order of length, and that nothing behind that part is used more
than anything before it (`UsedFirst`): the second sort destroys the order of the
first in its upper part, and eviction relies on what is left of it. `SortFacts`
proves it of any two sorts that `qsort` may make, `AddedFacts` of `maybe_add_auto`,
`TurnsSound` of any row of tokens, and `LoadedSaved` that the files of the tokens
in use, read in their order, are all taken. `SizesAssumption` has what this rests on:
`2 * USE_AUTO_EXTRAS <= MAX_AUTO_EXTRAS` (50 and 500 in the code), without which
an eviction may strike the part in use.

### The output directory

For any number of fuzzers, cases, starts and kills, theorems of `Session!Spec`:

| Theorem | Says |
|---|---|
| `DiskIsTrue` | the files of a queue are its entries, in order, and its marks are true (`DiskTrue`) |
| `CasesAlwaysSurvive` | a kill at any moment loses no case that was written, but for the two windows that `mixed` names (`CasesSurvive`) |
| `ImportsAreSound` | a scan that ends has executed all that was there for it, and nothing twice (`ImportsSound`) |
| `SessionsInvariance` | the invariant below |

The invariant follows one fuzzer through its labels: how far its queue is laid
out (`Laid`), what its marks and entries are worth (`MarksTrue`,
`EntriesTrue`), in which of the two directories its cases are (`Survival`), what
its scan has executed (`OnceEach`). What a scan has still to execute
(`OwedToCome`) is about two fuzzers, as the owner of the queue goes on writing,
is killed and starts again meanwhile: `QueueOnward` is all that any of its
steps may do to the queue, and enough for the scan. The hypothesis
`MissingIsApart(Nat)` says that `Missing`, which stands for a directory that
is not there, is none of the directories and none of the sets of marks. TLC is
given a model value for it and evaluates the same for the numbers of the run.

### The programs and tools

For all values of the constants of `Tools`, theorems of `Tools!Spec`:

| Theorem | Says |
|---|---|
| `VerdictsAreOwn` | wherever a handler strikes, no run it cut short counts as a crash or as complete; in the mode of afl-cmin no tuples of one are written, unless afl-showmap itself was stopped (`VerdictIsOwn`) |
| `MinimizedIsWell` | what afl-tmin keeps behaved as the original did, and nothing can be deleted from it if it ended by itself (`MinimizedWell`) |
| `AnnotationsAreWell` | afl-analyze changes one byte at a time, puts it back, shows the whole file and no byte as less than it is (`AnalyzedWell`) |
| `TargetsAreRight` | four programs execute the target they were given, with its arguments; the three tools under the memory limit asked for; all but afl-showmap only with sanitizer options that show crashes; afl-fuzz only what it can trace, unless told not to look (`TargetRight`) |
| `StartsAreSound` | no option undoes another, and the loop starts only from something to fuzz (`StartSound`) |
| `LoopIsTrue` | every cycle takes in every entry; from the first cycle on the position in `fuzzer_stats` is an entry that was reached, and after a stop the one in work; imports come in time; the draw by score can give every state it should (`LoopTrue`) |
| `NetworkIsTrue` | the server gets the messages in their order and whole, the response is what it wrote, no answer counts for an earlier message (`NetworkTrue`) |
| `CommandsAreSound` | wrappers pass on what must be passed on; success is reported of what was assembled, or when a signal has killed the assembler, and of nothing else (`CommandSound`) |
| `TrampolinesAlwaysFit` | as long as afl-as and the assembler read directives alike, a trampoline stands where it can be assembled, before the first instruction after each label that is due one, behind the conditional jumps that the ratio chooses, and nowhere else (`TrampolinesFit`, an action property) |
| `HeapsAreSound` | fences hold, and a correct caller of `alloc-inl.h` is not accused (`HeapsSound`) |

One specification has twelve programs, of which `running` says which one it is;
each invariant is an implication from that, and each action of another program
keeps it since `running` does not change. What each rests on:

* *A run of a tool.* `RunKept`: as long as a child that was killed may be judged,
  `stop_soon` or `child_timed_out` is set, and a child lives only while the
  program is between the fork and the wait. So a status is read as a crash or as
  a complete run only of a child that no handler has killed.
* *afl-tmin.* `Kept`: once a run was accepted, the file in hand is one that was,
  and nothing else is written. `Tried`: in a pass over single characters that
  has changed nothing, each character up to the position reached was tried
  without; a pass that follows and changes nothing either leaves that true.
* *afl-analyze.* `Perturbed`: the four files tried differ from the original in
  the byte at hand, in that only, and from each other; each change starts from
  what the one before left, so that this is arithmetic modulo 256. `Annotated`:
  the runs of the report follow each other from the first byte on, and none is
  shown as less than one of its bytes.
* *Targets and options.* `ArgsKnown`, `Settled`: which arguments are replaced by
  then and by what, and what the look at the program and at the environment has
  settled; afl-fuzz replaces `@@` before it looks for the program, the tools
  after. `OptionsKnown`: which flags and settings the options so far amount to,
  in whatever order they came; `DryKnown`: what became of the seeds so far.
* *The classic loop.* `Walk`: the entry and its index are counted together, and
  what was visited lies before them. `Shown`: what `fuzzer_stats` says, in the
  first cycle and later, at the head of the loop and behind `fuzz_one`. `Counted`: no more entries were fuzzed since
  the last import than the counter says, which is not reset by an import.
* *The network.* `Accounts`: messages counted, sizes recorded and the message
  being sent agree in each phase, and a size that is final covers answers to its
  message and earlier ones only. `Sending`: of a message, the server has the
  bytes up to the count of `net_send`, all of each earlier one and none of a
  later one. `Heard`: the response and what is on its way are, together and in
  order, what the server wrote.
* *The wrappers.* `PassedSoFar`: each argument that should be was passed on as
  often as it was given, for lines of any length. `Noted`: what afl-clang-fast
  noted of them. `EnvTold`: afl-as is told of a sanitizer exactly if the user or
  the wrapper asked for one.
* *afl-as.* `FlagsTrue`: but for what is in `lost`, the flags know in which
  section, syntax and width of code the assembler is, and `instrument_next` whether a label is owed its trampoline.
* *The allocators.* `HeapOK`: each block has pages of its own and a fence behind
  them, no page belongs to two, and a page can be touched exactly if a live block
  owns it. `AllocTypes`: heads and tails of live buffers are in
  place, and under `DEBUG_BUILD` each is in the bucket of its address, once.

The assumptions are named for the parts (`LoopAssumption` to
`AnalyzerAssumption`) and say what the code or the system grants: intervals and
page sizes are positive, no buffer lies at `NULL`, a test case has a message, a
file of afl-tmin is not empty and there is a power of two no less than its
length (`read_initial_file` refuses others), bytes are below 256, options are
those in the string given to `getopt`, a target has a name.

### What the proofs changed

The attempt to prove `VerdictIsCause` showed two cases of `Verdict` whose
guards overlapped, which made it a choice of the model and not of the code;
they are disjoint now, in the order in which `run_target` asks. `Session` had a
bound on the numbers of files, which the code has not. `Execution` walked its
list with a `RECURSIVE` operator, in reach of which tlapm proves nothing, and
built the list of a seed in one step; it has a recursive function now (`NodesOf`)
and pushes one message a step (`Construct`), as the loop does. The twelve
programs had their bounds in the module for TLC; `Tools` and `Extraction` have
them as constants, so that theorems can speak of all. `Fenced` did not say that
a block without pages of its own has its fence. `Network` kept, for each
message, what the server had of it; it has the bytes as they come now, each with
its message, and one loop for both programs that send.

Some definitions were rewritten for the provers and mean the same:
comprehensions over pairs (`Havoc!Differences`, `Coverage`); `UsableEntries`, by
rank instead of by a fold; the exclusive-or of `Analyzer` as arithmetic on
bytes; `Atoi` of `Responses` as a number with the digits it has; the test of an
argument that follows another in `Toolchain`, by the row of arguments before it
(`RowBefore`); in `Dictionary` and `Deterministic`, the rows of tokens as recursive
functions of their length, and `Mutants` for what a stage does at a position.

### Only model-checked

* `NothingLost`, the fourth part of `StagesSound`. It compares words before and
  after `could_be_bitflip`, `could_be_arith` and `could_be_interest`; the bits a
  stage flips, and the number of a word, are folds over its bytes, and what a fold
  computes for every input needs an induction over data. That the skips agree with
  the stages for words of the real width is arithmetic on bits that the provers do
  not have.
* All liveness: `EveryStateTargeted`, `NoSeedStarves`, `NothingHangs`,
  `ExtractorsEnd`, `FuzzOneEnds`, `ToolsEnd`.

## 5. Deviations found

Places where the code does not do what it, its comments or its documents say,
as the models have it (paths are in `src/`):

* *Selection.* `fuzz_one` decrements `pending_favored` for entries `cull_queue`
  never counted, and the `u32` wraps (`afl-fuzz.c:7998`). An entry is marked as
  fuzzed once, for one state (7994), though the map is to hold it by state
  (520): `EveryTurnKept`. A state that the table meets before the graph does is
  entered twice and loses its seeds (1157): `SeedsKept`. If the first response has no code the program aborts
  for want of state 0 (1262). The tie rule of `update_bitmap_score` repeats a
  condition that already failed, so that the faster of two is not favored
  (2466-2468). A last state with a score of 1 is never drawn (743, 782).
* *Runs.* Without a fork server a run over the network never ends, as afl-fuzz
  polls for the end of a process only it could wait for (1478), though
  `docs/env_variables.txt:96` offers that setting; for this reason it is not in
  `SupportedModes`, and neither is persistent mode over the network. A stop that
  strikes before the runner's identifier has been read leaves the runner (8176).
  A failed connect leaves `messages_sent` of the run before (1410-1419).
  `likely_buggy` stays set though the last receive brings the answer (1453-1460).
* *Directory.* A resumed session overwrites the position it has just found
  (9632), and loses it if it is stopped before its first cycle: `PositionKept`.
  A resume takes a half-deleted `_resume` for the whole old queue
  (4877, 4955-4960): the one window in which a kill loses cases, named by
  `mixed` in `CasesSurvive`.
* *Extractors.* A record longer than the response, or of length 0, makes
  `extract_response_codes_dtls12` read on or stand still (`aflnet.c:1842`), and
  the scan of SSH may not end either: `Endless`. Those in `Unsteady` may take
  back a state when more of the response arrives. The last byte of a buffer is
  lost if a message ends right before it; a DNS query cut short is filled up
  with zeros. `parse_net_config` scans a buffer that nothing terminates (2482).
* *Options.* `-W` is refused by the flag of `-w` (`afl-fuzz.c:9402`).
  afl-showmap refuses `-Z -q` and takes `-q -Z`. A limit of `-m` in terabytes
  wraps when it is made bytes.
* *Tools.* A stopped afl-showmap writes the part of the trace it has and exits
  with 0; Ctrl-C between fork and the store of `child_pid` kills nobody
  (`afl-showmap.c:260`). aflnet-replay gives up on messages above 10,000 bytes
  that afl-fuzz sends (`aflnet-replay.c:126`) and takes TCP for SNMP, TFTP, NTP,
  DHCP and SNTP (77). afl-as reports success when the assembler is killed by a
  signal (`afl-as.c:554`). afl-as does not know `.code16`, `.pushsection` and its kin, nor
  a section directive that names `.text` behind a space (`afl-as.c:297-311`): it may
  then put trampolines where they cannot be assembled, or none. `ck_memdup_str`
  writes its 0 over the canary of its own buffer (`alloc-inl.h:333`), but nothing
  calls it. afl-showmap alone looks at no sanitizer options
  (`afl-showmap.c:376-392`), though it tells crashes by the signal. afl-clang-fast never sees a stray `-v`
  (`llvm_mode/afl-clang-fast.c:144`). `-fsanitize=address` goes with
  `AFL_HARDEN`, which `AFL_USE_ASAN` does not (`afl-gcc.c:232-244`). The limit
  of libdislocator is one of each thread (`libdislocator.so.c:86`), not of the
  heap (`docs/env_variables.txt:227`). `AFL_SKIP_BIN_CHECK` skips the detection
  of persistent and deferred mode too.

## 6. What is not modelled

* Screen, statistics and plots (`show_stats`, `maybe_update_plot_file`): output
  only. The one decision in them, the programmatic stop, is in `ForkServer` and
  `ClassicLoop`; `fuzzer_stats`, which a later session reads, is in `Session`.
* `chat-llm.c`: neither compiled nor linked by the Makefile, and called by no
  program that is. `afl-fuzz-mutation-rule.c`: linked, and a comment from its
  first line to its last. `afl-fuzz copy.c`: an older copy that is not built.
* `libs/cJSON.c` and `khash.h`: third-party code; the list of `klist.h` is in
  `Execution`. qemu_mode, experimental, testcases, tutorials, dictionaries:
  patches, examples, data.
* The LLVM pass, which instruments every block it is given and keeps no state;
  `libtokencap`, which prints what strings are compared with; `afl-gotcpu`.
* `ck_memdup_str` of `alloc-inl.h`, which no program calls.
* Within modelled parts: the diagnosis of a failed start, pipes and resource
  limits; reuse of process identifiers; a runner killed by somebody else; the
  bytes of a havoc mutant; the value of a state's score; directories nothing
  reads back; `save_regions_to_file` and the text of a network address.

What a module takes as given from another: `StateAware` takes responses and
traces, `Requests` how many messages were sent, `Execution` the regions of a
mutant, `ForkServer` a session of any length, `ClassicLoop` which entries are
favored, `Session` cases by the coverage they have.

## 7. What comes next

A model: the composition of `Coverage` with `StateAware`, so that traces are
decided by one and kept by the other. A proof: `NothingLost`, from a model of
words as sets of bits.
