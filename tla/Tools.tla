------------------------------- MODULE Tools --------------------------------
(***************************************************************************)
(* The programs and libraries beside the fuzzer, and the parts of it that  *)
(* have few variables, one of them at a time: running says which.  The     *)
(* variables of the others keep the value None.                            *)
(***************************************************************************)
EXTENDS Integers, Sequences, FiniteSets

CONSTANTS
    Running,                                                    \* the programs and parts that run
    MinimizedFiles, SetSteps, SetMinSize, StartSteps, Checksums, NoTuples,          \* Minimizer
    MaxRuns,                                                                        \* ToolRun
    AnalyzedFiles, Answers, AnalyzedCksum, MAX_AUTO_EXTRA,                          \* Analyzer
    Threads, PAGE_SIZE, Header, HeapSizes, Counts, max_mem, SizeT, MaxBlocks,       \* Dislocator
    Addresses, AllocSizes, MAX_ALLOC, ALLOC_BLK_INC,                                \* AllocInl
    MaxLines, Ratios,                                                               \* Assembler
    Wrappers, MaxArguments, MaxAsArguments, InstRatio,                              \* Toolchain
    StartOptions, Seeds,                                                            \* Startup
    ToolOptions, CommandLines,                                                      \* TargetStart
    TestCases, MaxAnswer, TempBuf, MaxPacket,                                       \* Network
    MaxPaths, MaxCycles, SYNC_INTERVAL, ManyPaths,                                  \* ClassicLoop
    States, Tables, MaxScore, MaxExecutions                                         \* Scores

ASSUME LoopAssumption == MaxPaths \in Nat /\ SYNC_INTERVAL \in Nat \ {0}

ASSUME DislocatorAssumption ==
    /\ PAGE_SIZE \in Nat \ {0} /\ Header \in Nat \ {0} /\ SizeT \in Nat \ {0}
    /\ HeapSizes \subseteq Nat /\ Counts \subseteq Nat

\* No buffer lies at the address NULL.
ASSUME AllocAssumption ==
    /\ IsFiniteSet(Addresses) /\ "NULL" \notin Addresses
    /\ AllocSizes \subseteq Nat /\ ALLOC_BLK_INC \in Nat

\* A test case has a message, which may be empty.
ASSUME NetworkAssumption ==
    TestCases \subseteq Seq(Nat) \ {<<>>} /\ MaxAnswer \in Nat /\ TempBuf \in Nat \ {0}

ASSUME ScoresAssumption ==
    Tables \subseteq Seq(States) \ {<<>>} /\ MaxScore \in Nat /\ MaxExecutions \in Nat

VARIABLES
    running,
    stage, failure, program, flag, mem_limit, stop_soon, env, in_data, exit_crash, out_file,
                        \* variables of several
    tmp_buf, pos, block, prev_del, cur_pass, changed_any, crash_mode, exact_mode, orig_cksum,
    accepted, rejected,
    tool, exec_tmout, cmin_mode, caa, cco, line, child_pid, it, child_timed_out, child_crashed,
    nature, child, verdict, runs,
    i, b_data, prev, report, original, tried,
    hard_fail, no_calloc_over, total_mem, blocks, protection, answer,
    DEBUG_BUILD, heap, TRK, live, abort,
    pass_thru, clang_mode, use_64bit, inst_ratio, instr_ok, skip_csect, skip_next_label,
    skip_intel, skip_app, instrument_next, ins_lines, payload, count,
    section, syntax, code, app, lost, owed, put,
    wrapper, given, value, kept, added, asan_set, fortify_set, x_set, maybe_linking,
    bit_mode, as_args, just_version, modified_file, status,
    times, timeout_given, skip_deterministic, use_splicing,
    resuming_fuzz, skip_crashes, seed, result, cal_failures, states_seen, log_file, last_log,
    none_given, use_stdin, file, quiet_mode, user, searched, binary, skipped, uses_asan,
    persistent_mode, deferred_mode, target_path, argv,
    messages, udp, phase, io, m, byte_count, messages_sent, response_buf, response_bytes,
    prev_buf_size, likely_buggy, wire, read, written, inbox, closed,
    queued_paths, favored, was_fuzzed, pending_favored, queue_cur, queue_cycle, current_entry,
    seek_to, cycles_wo_finds, prev_queued, sync_id, import_first, sync_interval_cnt, place,
    cur_path, visited, fuzzed_since,
    state_ids, fuzzs, executions, state_scores, randV, target_state_id

\* What several share, and the rest by the module that declares it (or declares it first).
sharedVars    == <<stage, failure, program, flag, mem_limit, stop_soon, in_data, exit_crash, out_file,
                   exec_tmout, cmin_mode, pass_thru, use_64bit, inst_ratio, use_splicing, env>>
minimizerVars == <<tmp_buf, pos, block, prev_del, cur_pass, changed_any, crash_mode, exact_mode,
                   orig_cksum, accepted, rejected>>
runVars       == <<tool, caa, cco, line, child_pid, it, child_timed_out, child_crashed,
                   nature, child, verdict, runs>>
analyzerVars  == <<i, b_data, prev, report, original, tried>>
heapVars      == <<hard_fail, no_calloc_over, total_mem, blocks, protection, answer>>
allocVars     == <<DEBUG_BUILD, heap, TRK, live, abort>>
asVars        == <<clang_mode, instr_ok, skip_csect, skip_next_label, skip_intel, skip_app,
                   instrument_next, ins_lines, payload, count, section, syntax, code, app, lost,
                   owed, put>>
chainVars     == <<wrapper, given, value, kept, added, asan_set, fortify_set, x_set,
                   maybe_linking, bit_mode, as_args, just_version, modified_file, status>>
startVars     == <<times, timeout_given, skip_deterministic, resuming_fuzz, skip_crashes, seed,
                   result, cal_failures, states_seen, log_file, last_log>>
targetVars    == <<none_given, use_stdin, file, quiet_mode, user, searched, binary, skipped,
                   uses_asan, persistent_mode, deferred_mode, target_path, argv>>
netVars       == <<messages, udp, phase, io, m, byte_count, messages_sent, response_buf,
                   response_bytes, prev_buf_size, likely_buggy, wire, read, written, inbox, closed>>
loopVars      == <<queued_paths, favored, was_fuzzed, pending_favored, queue_cur, queue_cycle,
                   current_entry, seek_to, cycles_wo_finds, prev_queued, sync_id, import_first,
                   sync_interval_cnt, place, cur_path, visited, fuzzed_since>>
scoreVars     == <<state_ids, fuzzs, executions, state_scores, randV, target_state_id>>
vars          == <<running, sharedVars, minimizerVars, runVars, analyzerVars, heapVars, allocVars,
                   asVars, chainVars, startVars, targetVars, netVars, loopVars, scoreVars>>

-----------------------------------------------------------------------------
Minimizer   == INSTANCE Minimizer WITH InFiles <- MinimizedFiles
ToolRun     == INSTANCE ToolRun
Analyzer    == INSTANCE Analyzer WITH InFiles <- AnalyzedFiles, orig_cksum <- AnalyzedCksum
Dislocator  == INSTANCE Dislocator WITH Sizes <- HeapSizes
AllocInl    == INSTANCE AllocInl WITH Sizes <- AllocSizes
Assembler   == INSTANCE Assembler
Toolchain   == INSTANCE Toolchain
Startup     == INSTANCE Startup WITH Options <- StartOptions
TargetStart == INSTANCE TargetStart WITH Options <- ToolOptions
Network     == INSTANCE Network
ClassicLoop == INSTANCE ClassicLoop
Scores      == INSTANCE Scores

\* Options have names of their own beside the flags that several of them share.
ASSUME StartAssumption ==
    /\ StartOptions \cap {"sync_id", "timeout_given", "force_deterministic"} = {}
    /\ Seeds \in Nat

\* read_initial_file refuses an empty file and one of TMIN_MAX_FILE bytes, so that next_p2 is only
\* asked for powers of two that there are.  TLC evaluates what the powers are.
ASSUME MinimizerAssumption ==
    /\ MinimizedFiles \subseteq Seq(Nat) \ {<<>>}
    /\ SetSteps \in Nat \ {0} /\ StartSteps \in Nat \ {0} /\ SetMinSize \in Nat \ {0}
    /\ Minimizer!Power2 \subseteq Nat \ {0}
    /\ \A f \in MinimizedFiles : \E p \in Minimizer!Power2 : Len(f) <= p

\* The options are those that getopt is told of, and a target has a name.
ASSUME TargetAssumption ==
    /\ DOMAIN ToolOptions \subseteq {"afl-tmin", "afl-analyze", "afl-showmap"}
    /\ \A p \in DOMAIN ToolOptions : ToolOptions[p] \subseteq
         CASE p = "afl-tmin" -> {"i", "o", "f", "m", "t", "B", "x", "e", "Q"}
           [] p = "afl-analyze" -> {"i", "f", "m", "t", "e", "Q"}
           [] p = "afl-showmap" -> {"o", "m", "t", "A", "e", "q", "Z", "Q", "b", "c"}
    /\ CommandLines \subseteq Seq(Seq(STRING)) \ {<<>>}

\* A file to analyse is made of bytes.
ASSUME AnalyzerAssumption ==
    AnalyzedFiles \subseteq Seq(Nat) /\ \A f \in AnalyzedFiles : \A k \in DOMAIN f : f[k] < 256

-----------------------------------------------------------------------------
None == "none"

NoMinimizer ==
    /\ tmp_buf = None /\ pos = None /\ block = None /\ prev_del = None /\ cur_pass = None
    /\ changed_any = None /\ crash_mode = None /\ exact_mode = None /\ orig_cksum = None
    /\ accepted = None /\ rejected = None

NoRun ==
    /\ tool = None /\ caa = None /\ cco = None /\ line = None /\ child_pid = None /\ it = None
    /\ child_timed_out = None /\ child_crashed = None /\ nature = None /\ child = None
    /\ verdict = None /\ runs = None

NoAnalyzer ==
    /\ i = None /\ b_data = None /\ prev = None /\ report = None /\ original = None /\ tried = None

NoHeap ==
    /\ hard_fail = None /\ no_calloc_over = None /\ total_mem = None /\ blocks = None
    /\ protection = None /\ answer = None

NoAlloc ==
    /\ DEBUG_BUILD = None /\ heap = None /\ TRK = None /\ live = None /\ abort = None

NoAs ==
    /\ clang_mode = None /\ instr_ok = None /\ skip_csect = None /\ skip_next_label = None
    /\ skip_intel = None /\ skip_app = None /\ instrument_next = None /\ ins_lines = None
    /\ payload = None /\ count = None /\ section = None /\ syntax = None /\ code = None
    /\ app = None /\ lost = None /\ owed = None /\ put = None

NoChain ==
    /\ wrapper = None /\ given = None /\ value = None /\ kept = None /\ added = None
    /\ asan_set = None /\ fortify_set = None /\ x_set = None /\ maybe_linking = None
    /\ bit_mode = None /\ as_args = None /\ just_version = None /\ modified_file = None
    /\ status = None

NoStart ==
    /\ times = None /\ timeout_given = None /\ skip_deterministic = None /\ resuming_fuzz = None
    /\ skip_crashes = None /\ seed = None /\ result = None /\ cal_failures = None
    /\ states_seen = None /\ log_file = None /\ last_log = None

NoTarget ==
    /\ none_given = None /\ use_stdin = None /\ file = None /\ quiet_mode = None /\ user = None
    /\ searched = None /\ binary = None /\ skipped = None /\ uses_asan = None
    /\ persistent_mode = None /\ deferred_mode = None /\ target_path = None /\ argv = None

NoNet ==
    /\ messages = None /\ udp = None /\ phase = None /\ io = None /\ m = None /\ byte_count = None
    /\ messages_sent = None /\ response_buf = None /\ response_bytes = None /\ prev_buf_size = None
    /\ likely_buggy = None /\ wire = None /\ read = None /\ written = None /\ inbox = None
    /\ closed = None

NoLoop ==
    /\ queued_paths = None /\ favored = None /\ was_fuzzed = None /\ pending_favored = None
    /\ queue_cur = None /\ queue_cycle = None /\ current_entry = None /\ seek_to = None
    /\ cycles_wo_finds = None /\ prev_queued = None /\ sync_id = None /\ import_first = None
    /\ sync_interval_cnt = None /\ place = None /\ cur_path = None /\ visited = None
    /\ fuzzed_since = None

NoScores ==
    /\ state_ids = None /\ fuzzs = None /\ executions = None /\ state_scores = None /\ randV = None
    /\ target_state_id = None

Init ==
    /\ running \in Running
    /\ \/ /\ running = "tmin" /\ Minimizer!Init
          /\ NoRun /\ NoAnalyzer /\ NoHeap /\ NoAlloc /\ NoAs /\ NoChain /\ NoStart /\ NoTarget
          /\ NoNet /\ NoLoop /\ NoScores /\ failure = None /\ program = None /\ flag = None
          /\ mem_limit = None /\ stop_soon = None /\ exec_tmout = None /\ cmin_mode = None
          /\ pass_thru = None /\ use_64bit = None /\ inst_ratio = None /\ use_splicing = None
          /\ env = None
       \/ /\ running = "run" /\ ToolRun!Init
          /\ NoMinimizer /\ NoAnalyzer /\ NoHeap /\ NoAlloc /\ NoAs /\ NoChain /\ NoStart
          /\ NoTarget /\ NoNet /\ NoLoop /\ NoScores /\ stage = None /\ failure = None
          /\ program = None /\ flag = None /\ mem_limit = None /\ in_data = None
          /\ pass_thru = None /\ use_64bit = None /\ inst_ratio = None /\ use_splicing = None
          /\ env = None
       \/ /\ running = "analyze" /\ Analyzer!Init
          /\ NoMinimizer /\ NoRun /\ NoHeap /\ NoAlloc /\ NoAs /\ NoChain /\ NoStart /\ NoTarget
          /\ NoNet /\ NoLoop /\ NoScores /\ stage = None /\ failure = None /\ program = None
          /\ flag = None /\ mem_limit = None /\ stop_soon = None /\ exit_crash = None
          /\ out_file = None /\ exec_tmout = None /\ cmin_mode = None /\ pass_thru = None
          /\ use_64bit = None /\ inst_ratio = None /\ use_splicing = None /\ env = None
       \/ /\ running = "dislocator" /\ Dislocator!Init
          /\ NoMinimizer /\ NoRun /\ NoAnalyzer /\ NoAlloc /\ NoAs /\ NoChain /\ NoStart
          /\ NoTarget /\ NoNet /\ NoLoop /\ NoScores /\ stage = None /\ failure = None
          /\ program = None /\ flag = None /\ mem_limit = None /\ stop_soon = None
          /\ in_data = None /\ exit_crash = None /\ out_file = None /\ exec_tmout = None
          /\ cmin_mode = None /\ pass_thru = None /\ use_64bit = None /\ inst_ratio = None
          /\ use_splicing = None /\ env = None
       \/ /\ running = "alloc" /\ AllocInl!Init
          /\ NoMinimizer /\ NoRun /\ NoAnalyzer /\ NoHeap /\ NoAs /\ NoChain /\ NoStart
          /\ NoTarget /\ NoNet /\ NoLoop /\ NoScores /\ stage = None /\ failure = None
          /\ program = None /\ flag = None /\ mem_limit = None /\ stop_soon = None
          /\ in_data = None /\ exit_crash = None /\ out_file = None /\ exec_tmout = None
          /\ cmin_mode = None /\ pass_thru = None /\ use_64bit = None /\ inst_ratio = None
          /\ use_splicing = None /\ env = None
       \/ /\ running = "as" /\ Assembler!Init
          /\ NoMinimizer /\ NoRun /\ NoAnalyzer /\ NoHeap /\ NoAlloc /\ NoChain /\ NoStart
          /\ NoTarget /\ NoNet /\ NoLoop /\ NoScores /\ failure = None /\ program = None
          /\ flag = None /\ mem_limit = None /\ stop_soon = None /\ in_data = None
          /\ exit_crash = None /\ out_file = None /\ exec_tmout = None /\ cmin_mode = None
          /\ use_splicing = None /\ env = None
       \/ /\ running = "cc" /\ Toolchain!Init
          /\ NoMinimizer /\ NoRun /\ NoAnalyzer /\ NoHeap /\ NoAlloc /\ NoAs /\ NoStart
          /\ NoTarget /\ NoNet /\ NoLoop /\ NoScores /\ program = None /\ flag = None
          /\ mem_limit = None /\ stop_soon = None /\ in_data = None /\ exit_crash = None
          /\ out_file = None /\ exec_tmout = None /\ cmin_mode = None /\ use_splicing = None
       \/ /\ running = "start" /\ Startup!Init
          /\ NoMinimizer /\ NoRun /\ NoAnalyzer /\ NoHeap /\ NoAlloc /\ NoAs /\ NoChain
          /\ NoTarget /\ NoNet /\ NoLoop /\ NoScores /\ program = None /\ in_data = None
          /\ exit_crash = None /\ out_file = None /\ exec_tmout = None /\ cmin_mode = None
          /\ pass_thru = None /\ use_64bit = None /\ inst_ratio = None /\ env = None
       \/ /\ running = "target" /\ TargetStart!Init
          /\ NoMinimizer /\ NoRun /\ NoAnalyzer /\ NoHeap /\ NoAlloc /\ NoAs /\ NoChain /\ NoStart
          /\ NoNet /\ NoLoop /\ NoScores /\ stop_soon = None /\ in_data = None
          /\ exit_crash = None /\ out_file = None /\ pass_thru = None /\ use_64bit = None
          /\ inst_ratio = None /\ use_splicing = None
       \/ /\ running = "net" /\ Network!Init
          /\ NoMinimizer /\ NoRun /\ NoAnalyzer /\ NoHeap /\ NoAlloc /\ NoAs /\ NoChain /\ NoStart
          /\ NoTarget /\ NoLoop /\ NoScores /\ stage = None /\ failure = None /\ flag = None
          /\ mem_limit = None /\ stop_soon = None /\ in_data = None /\ exit_crash = None
          /\ out_file = None /\ exec_tmout = None /\ cmin_mode = None /\ pass_thru = None
          /\ use_64bit = None /\ inst_ratio = None /\ use_splicing = None /\ env = None
       \/ /\ running = "loop" /\ ClassicLoop!Init
          /\ NoMinimizer /\ NoRun /\ NoAnalyzer /\ NoHeap /\ NoAlloc /\ NoAs /\ NoChain /\ NoStart
          /\ NoTarget /\ NoNet /\ NoScores /\ stage = None /\ failure = None /\ program = None
          /\ flag = None /\ mem_limit = None /\ in_data = None /\ exit_crash = None
          /\ out_file = None /\ exec_tmout = None /\ cmin_mode = None /\ pass_thru = None
          /\ use_64bit = None /\ inst_ratio = None /\ env = None
       \/ /\ running = "scores" /\ Scores!Init
          /\ NoMinimizer /\ NoRun /\ NoAnalyzer /\ NoHeap /\ NoAlloc /\ NoAs /\ NoChain /\ NoStart
          /\ NoTarget /\ NoNet /\ NoLoop /\ stage = None /\ failure = None /\ program = None
          /\ flag = None /\ mem_limit = None /\ stop_soon = None /\ in_data = None
          /\ exit_crash = None /\ out_file = None /\ exec_tmout = None /\ cmin_mode = None
          /\ pass_thru = None /\ use_64bit = None /\ inst_ratio = None /\ use_splicing = None
          /\ env = None

-----------------------------------------------------------------------------
MinimizerOthers ==
    UNCHANGED <<running, failure, program, flag, mem_limit, stop_soon, exec_tmout, cmin_mode,
                pass_thru, use_64bit, inst_ratio, use_splicing, env, runVars, analyzerVars,
                heapVars, allocVars, asVars, chainVars, startVars, targetVars, netVars, loopVars,
                scoreVars>>

ToolRunOthers ==
    UNCHANGED <<running, stage, failure, program, flag, mem_limit, in_data, pass_thru, use_64bit,
                inst_ratio, use_splicing, env, minimizerVars, analyzerVars, heapVars, allocVars,
                asVars, chainVars, startVars, targetVars, netVars, loopVars, scoreVars>>

AnalyzerOthers ==
    UNCHANGED <<running, stage, failure, program, flag, mem_limit, stop_soon, exit_crash,
                out_file, exec_tmout, cmin_mode, pass_thru, use_64bit, inst_ratio, use_splicing,
                env, minimizerVars, runVars, heapVars, allocVars, asVars, chainVars, startVars,
                targetVars, netVars, loopVars, scoreVars>>

DislocatorOthers ==
    UNCHANGED <<running, stage, failure, program, flag, mem_limit, stop_soon, in_data, exit_crash,
                out_file, exec_tmout, cmin_mode, pass_thru, use_64bit, inst_ratio, use_splicing,
                env, minimizerVars, runVars, analyzerVars, allocVars, asVars, chainVars,
                startVars, targetVars, netVars, loopVars, scoreVars>>

AllocInlOthers ==
    UNCHANGED <<running, stage, failure, program, flag, mem_limit, stop_soon, in_data, exit_crash,
                out_file, exec_tmout, cmin_mode, pass_thru, use_64bit, inst_ratio, use_splicing,
                env, minimizerVars, runVars, analyzerVars, heapVars, asVars, chainVars, startVars,
                targetVars, netVars, loopVars, scoreVars>>

AssemblerOthers ==
    UNCHANGED <<running, failure, program, flag, mem_limit, stop_soon, in_data, exit_crash,
                out_file, exec_tmout, cmin_mode, use_splicing, env, minimizerVars, runVars,
                analyzerVars, heapVars, allocVars, chainVars, startVars, targetVars, netVars,
                loopVars, scoreVars>>

ToolchainOthers ==
    UNCHANGED <<running, program, flag, mem_limit, stop_soon, in_data, exit_crash, out_file,
                exec_tmout, cmin_mode, use_splicing, minimizerVars, runVars, analyzerVars,
                heapVars, allocVars, asVars, startVars, targetVars, netVars, loopVars, scoreVars>>

StartupOthers ==
    UNCHANGED <<running, program, in_data, exit_crash, out_file, exec_tmout, cmin_mode, pass_thru,
                use_64bit, inst_ratio, env, minimizerVars, runVars, analyzerVars, heapVars,
                allocVars, asVars, chainVars, targetVars, netVars, loopVars, scoreVars>>

TargetStartOthers ==
    UNCHANGED <<running, stop_soon, in_data, exit_crash, out_file, pass_thru, use_64bit,
                inst_ratio, use_splicing, minimizerVars, runVars, analyzerVars, heapVars,
                allocVars, asVars, chainVars, startVars, netVars, loopVars, scoreVars>>

NetworkOthers ==
    UNCHANGED <<running, stage, failure, flag, mem_limit, stop_soon, in_data, exit_crash,
                out_file, exec_tmout, cmin_mode, pass_thru, use_64bit, inst_ratio, use_splicing,
                env, minimizerVars, runVars, analyzerVars, heapVars, allocVars, asVars, chainVars,
                startVars, targetVars, loopVars, scoreVars>>

ClassicLoopOthers ==
    UNCHANGED <<running, stage, failure, program, flag, mem_limit, in_data, exit_crash, out_file,
                exec_tmout, cmin_mode, pass_thru, use_64bit, inst_ratio, env, minimizerVars,
                runVars, analyzerVars, heapVars, allocVars, asVars, chainVars, startVars,
                targetVars, netVars, scoreVars>>

ScoresOthers ==
    UNCHANGED <<running, stage, failure, program, flag, mem_limit, stop_soon, in_data, exit_crash,
                out_file, exec_tmout, cmin_mode, pass_thru, use_64bit, inst_ratio, use_splicing,
                env, minimizerVars, runVars, analyzerVars, heapVars, allocVars, asVars, chainVars,
                startVars, targetVars, netVars, loopVars>>

Minimize == running = "tmin" /\ Minimizer!Work /\ MinimizerOthers
StopMinimizing == running = "tmin" /\ Minimizer!Stop /\ MinimizerOthers
RunStep == running = "run" /\ ToolRun!Step /\ ToolRunOthers
RunTargetEnds == running = "run" /\ ToolRun!TargetEnds /\ ToolRunOthers
RunTimeout == running = "run" /\ ToolRun!handle_timeout /\ ToolRunOthers
RunStopSig == running = "run" /\ ToolRun!handle_stop_sig /\ ToolRunOthers
AnalyzerStep == running = "analyze" /\ Analyzer!Next /\ AnalyzerOthers
DislocatorStep == running = "dislocator" /\ Dislocator!Next /\ DislocatorOthers
AllocInlStep == running = "alloc" /\ AllocInl!Next /\ AllocInlOthers
AssemblerStep == running = "as" /\ Assembler!Next /\ AssemblerOthers
ToolchainStep == running = "cc" /\ Toolchain!Next /\ ToolchainOthers
StartupStep == running = "start" /\ Startup!Next /\ StartupOthers
TargetStartStep == running = "target" /\ TargetStart!Next /\ TargetStartOthers
NetworkStep == running = "net" /\ Network!Next /\ NetworkOthers
ClassicLoopStep == running = "loop" /\ ClassicLoop!Next /\ ClassicLoopOthers
ScoresStep == running = "scores" /\ Scores!Next /\ ScoresOthers

Next ==
    \/ Minimize \/ StopMinimizing \/ RunStep \/ RunTargetEnds
    \/ RunTimeout \/ RunStopSig \/ AnalyzerStep \/ DislocatorStep
    \/ AllocInlStep \/ AssemblerStep \/ ToolchainStep \/ StartupStep
    \/ TargetStartStep \/ NetworkStep \/ ClassicLoopStep \/ ScoresStep

Spec ==
    /\ Init /\ [][Next]_vars
    /\ WF_vars(Minimize)
    /\ WF_vars(RunStep) /\ WF_vars(RunTargetEnds) /\ WF_vars(RunTimeout)

-----------------------------------------------------------------------------
(* The properties of each program, when it is the one that runs.           *)

\* What afl-tmin keeps and writes has been run and behaved like the original, and when it ends by
\* itself no character can be deleted any more.
MinimizedWell == running = "tmin" => Minimizer!KeptWasRun /\ Minimizer!Minimal

\* run_target of the three tools takes no run for a crash or for complete that a handler cut short.
VerdictIsOwn == running = "run" => ToolRun!VerdictIsOwn

\* afl-analyze puts every byte back that it has changed, and shows none as less than it is.
AnalyzedWell == running = "analyze" => Analyzer!PerturbsOneByte /\ Analyzer!AnnotationsSound

\* Every block of libdislocator ends at a fence, and none that was freed can be touched; alloc-inl.h
\* accuses no correct caller, gives clean buffers, and tracks exactly what is in use.
HeapsSound ==
    /\ running = "dislocator" => Dislocator!Fenced
    /\ running = "alloc" => AllocInl!BuffersClean /\ AllocInl!TrackedIsLive

\* Where afl-as and the assembler have read the directives alike, trampolines stand where they can be
\* assembled, in front of the first instruction after a label that is due one and behind a chosen jump.
TrampolinesFit == [][running = "as" => Assembler!PutWell]_asVars

\* A sanitizer that is asked for anywhere thins out the trampolines of afl-as; the compiler gets the
\* user's arguments, and the runtime when it links.
CommandSound == running = "cc" => Toolchain!CommandSound

\* No option of afl-fuzz undoes one that came before it, and the loop is entered with a test case to
\* start from that was tolerated as it was told to.
StartSound == running = "start" => Startup!OptionsCommute /\ Startup!StartsUsable

\* The target that a program executes is the one it was given, with its arguments; of the tools, under
\* the limit they were given; and but for afl-showmap, without sanitizer options that hide crashes.
TargetRight == running = "target" => TargetStart!TargetRight

\* The server gets the test case without a gap, and no answer is counted for an earlier message.
NetworkTrue == running = "net" => Network!NetworkTrue

\* Every cycle is complete, the position in fuzzer_stats (cur_path) never runs ahead of the work of
\* the session and is the entry in work when it is stopped, and imports come in time; every state but
\* a hopeless one can be drawn.
LoopTrue ==
    /\ running = "loop" => ClassicLoop!LoopTrue
    /\ running = "scores" => Scores!ScoresSound

\* What is logged finds an open stream.  It does not: the dry run logs first.
LogIsOpen == running = "start" => Startup!LogIsOpen

\* A session that is stopped before its first cycle leaves the offset it has found to the next one.
\* It does not: 0 is written over it.
PositionKept == running = "loop" => ClassicLoop!PositionKept

\* Minimizing ends for every target, and so does every run that has a timeout.
ToolsEnd ==
    /\ running = "tmin" => Minimizer!MinimizeEnds
    /\ running = "run" => ToolRun!RunEnds
=============================================================================
