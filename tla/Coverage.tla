------------------------------ MODULE Coverage ------------------------------
(***************************************************************************)
(* The coverage map and what is decided from it (afl-fuzz.c): a run of the *)
(* target leaves hit counts in trace_bits, run_target puts them in classes *)
(* of one bit each, and has_new_bits compares them with a map of what has  *)
(* never been seen.  There are three such maps, for test cases, time-outs  *)
(* and crashes.  calibrate_case runs a kept case again and again,          *)
(* save_if_interesting runs a time-out once more, and every one of those   *)
(* runs overwrites trace_bits.                                             *)
(*                                                                         *)
(* A byte is the set of its bits that are set, numbered from 0.  hash32 is *)
(* taken to tell every two traces apart.  dumb_mode is off.                *)
(***************************************************************************)
EXTENDS Integers, FiniteSets

CONSTANTS
    Map,            \* 0 .. MAP_SIZE - 1, the tuples of the target
    Counts,         \* how often a run may pass each of them
    Campaigns,      \* crash_mode (FAULT_CRASH with -C) and what read_bitmap finds (-B)
    CalCycles, CalCyclesLong,       \* CAL_CYCLES, CAL_CYCLES_LONG
    KeepUniqueHang, KeepUniqueCrash,    \* KEEP_UNIQUE_HANG, KEEP_UNIQUE_CRASH
    PatientTmout,   \* exec_tmout < hang_tmout, so that time-outs are run again
    MaxTmouts       \* bound: different time-outs put to the test

Byte   == 0 .. 7
Faults == {"FAULT_NONE", "FAULT_TMOUT", "FAULT_CRASH"}

ASSUME CoverageAssumption ==
    /\ IsFiniteSet(Map) /\ Map # {} /\ Counts \in [Map -> SUBSET Nat]
    /\ Campaigns \subseteq [crash_mode : {"FAULT_NONE", "FAULT_CRASH"},
                            in_bitmap : [Map -> SUBSET Byte]]
    /\ CalCycles \in Nat \ {0} /\ CalCyclesLong \in Nat /\ CalCyclesLong >= CalCycles
    /\ KeepUniqueHang \in Nat /\ KeepUniqueCrash \in Nat /\ PatientTmout \in BOOLEAN
    /\ MaxTmouts \in Nat

VARIABLES
    crash_mode,
    virgin_bits, virgin_tmout, virgin_crash,
    trace_bits,
    bitmap_changed, fuzz_bitmap,    \* the file, or NoFile
    unique_tmouts, unique_hangs, unique_crashes,
    var_bytes,
    exec_cksum, first_trace, stage_cur, stage_max,  \* of the entry being calibrated
    calibrating,        \* for whom: a case just kept, or the queue
    fault,              \* how the last run ended
    at,
    \* what the properties are judged by
    seen,               \* pairs of a tuple and a class a case in use has shown
    hangs, crashed      \* the tuples of each time-out and crash put to the test

maps     == <<virgin_bits, virgin_tmout, virgin_crash>>
uniques  == <<unique_tmouts, unique_hangs, unique_crashes>>
calVars  == <<var_bytes, exec_cksum, first_trace, stage_cur, stage_max, calibrating>>
fileVars == <<bitmap_changed, fuzz_bitmap>>
witness  == <<seen, hangs, crashed>>
coverageVars == <<crash_mode, maps, trace_bits, fileVars, uniques, calVars, fault, at, witness>>

NoFile  == <<>>
NoTrace == <<>>     \* exec_cksum = 0
Blank   == [i \in Map |-> {}]
Virgin  == [i \in Map |-> Byte]

-----------------------------------------------------------------------------
(* Operations on maps                                                      *)

\* The counter of a tuple is one byte and wraps.
CountClass(n) ==
    LET hits == n % 256
        Bit == CHOOSE b \in Byte :
                 hits \in CASE b = 0 -> {1} [] b = 1 -> {2} [] b = 2 -> {3}
                            [] b = 3 -> 4 .. 7 [] b = 4 -> 8 .. 15
                            [] b = 5 -> 16 .. 31 [] b = 6 -> 32 .. 127
                            [] b = 7 -> 128 .. 255
    IN  IF hits = 0 THEN {} ELSE {Bit}

classify_counts(hits) == [i \in Map |-> CountClass(hits[i])]

\* The traces a run may leave behind: every count of every tuple.
Traces == {classify_counts(h) : h \in {f \in [Map -> UNION {Counts[i] : i \in Map}] :
                                         \A i \in Map : f[i] \in Counts[i]}}

\* Mutant: the order of the two values of simplify_lookup.
SimplifyHitsOnly(trace) == [i \in Map |-> IF trace[i] = {} THEN {} ELSE {7}]
simplify_trace(trace)   == [i \in Map |-> IF trace[i] = {} THEN {0} ELSE {7}]

\* What has_new_bits returns, and what it leaves of the map.
NewBits(trace, virgin) ==
    IF \E i \in Map : trace[i] # {} /\ virgin[i] = Byte THEN 2
    ELSE IF \E i \in Map : trace[i] \cap virgin[i] # {} THEN 1
    ELSE 0

Touched(trace, virgin) == [i \in Map |-> virgin[i] \ trace[i]]

count_bytes(trace) == Cardinality({i \in Map : trace[i] # {}})

\* What minimize_bits keeps of a trace.
Hit(trace) == {i \in Map : trace[i] # {}}

\* Mutant: only a new tuple counts as a change of the map.
JudgeTuples ==
    /\ virgin_bits' = Touched(trace_bits, virgin_bits)
    /\ bitmap_changed' = (bitmap_changed \/ NewBits(trace_bits, virgin_bits) = 2)

\* has_new_bits(virgin_bits)
Judge ==
    /\ virgin_bits' = Touched(trace_bits, virgin_bits)
    /\ bitmap_changed' = (bitmap_changed \/ NewBits(trace_bits, virgin_bits) # 0)

-----------------------------------------------------------------------------
(* main: setup_shm, read_bitmap                                            *)
CoverageInit ==
    /\ \E c \in Campaigns : crash_mode = c.crash_mode /\ virgin_bits = c.in_bitmap
    /\ virgin_tmout = Virgin /\ virgin_crash = Virgin
    /\ trace_bits = Blank
    /\ bitmap_changed = TRUE /\ fuzz_bitmap = NoFile
    /\ unique_tmouts = 0 /\ unique_hangs = 0 /\ unique_crashes = 0
    /\ exec_cksum = NoTrace /\ first_trace = Blank /\ var_bytes = {}
    /\ stage_cur = 0 /\ stage_max = 0 /\ calibrating = "queue"
    /\ fault = "FAULT_NONE" /\ at = "dry run"
    /\ seen = {s \in Map \X Byte : s[2] \notin virgin_bits[s[1]]}
    /\ hangs = {} /\ crashed = {}

\* run_target: the map is cleared, the target runs, its counts are classified.
run_target ==
    /\ trace_bits' \in Traces
    /\ fault' \in Faults
    /\ fault' = "FAULT_TMOUT" /\ at # "rerun" => Cardinality(hangs) < MaxTmouts

\* What the last run has shown, of a case that is put to use.
Show == seen' = seen \cup {s \in Map \X Byte : s[2] \in trace_bits[s[1]]}

\* Called by show_stats: between two cases, and in the calibration of a case just kept.
write_bitmap ==
    /\ at = "idle" \/ (at = "calibrate" /\ calibrating = "case")
    /\ bitmap_changed
    /\ bitmap_changed' = FALSE
    /\ fuzz_bitmap' = virgin_bits
    /\ UNCHANGED <<crash_mode, maps, trace_bits, uniques, calVars, fault, at, witness>>

(* common_fuzz_stuff: a mutant is run                                      *)
RunMutant ==
    /\ at = "idle"
    /\ run_target
    /\ at' = "judge"
    /\ UNCHANGED <<crash_mode, maps, fileVars, uniques, calVars, witness>>

\* Back to fuzzing.  Nothing reads trace_bits before the next run clears it, so what is
\* left in it is forgotten here.
Return ==
    /\ at' = IF calibrating = "queue" /\ at \in {"calibrate", "compare"} THEN "dry run" ELSE "idle"
    /\ trace_bits' = Blank /\ fault' = "FAULT_NONE"

-----------------------------------------------------------------------------
(* calibrate_case                                                          *)

\* A checksum is given as the trace it was taken of.
StartCalibration(whose, cksum) ==
    /\ calibrating' = whose
    /\ exec_cksum' = cksum
    /\ first_trace' = IF cksum = NoTrace THEN first_trace ELSE trace_bits
    /\ stage_cur' = 0 /\ stage_max' = CalCycles
    /\ at' = "calibrate"
    /\ UNCHANGED var_bytes

\* What the call leaves behind of its locals is of no use to the next.
EndCalibration ==
    /\ exec_cksum' = NoTrace /\ first_trace' = Blank /\ stage_cur' = 0 /\ stage_max' = 0
    /\ calibrating' = "queue"
    /\ IF calibrating = "case" /\ crash_mode = "FAULT_CRASH"
         THEN at' = "crash" /\ UNCHANGED <<trace_bits, fault>>
         ELSE Return

\* perform_dry_run, before there are mutants.  It aborts the program on some outcomes.
CalibrateQueue ==
    /\ at = "dry run"
    /\ StartCalibration("queue", NoTrace)
    /\ UNCHANGED <<crash_mode, maps, trace_bits, fileVars, uniques, fault, witness>>

StartFuzzing ==
    /\ at = "dry run" /\ at' = "idle"
    /\ UNCHANGED <<crash_mode, maps, trace_bits, fileVars, uniques, calVars, fault, witness>>

CalibrationRun ==
    /\ at = "calibrate" /\ stage_cur < stage_max
    /\ run_target
    /\ at' = "compare"
    /\ UNCHANGED <<crash_mode, maps, fileVars, uniques, calVars, witness>>

Aborts == fault # crash_mode \/ (stage_cur = 0 /\ count_bytes(trace_bits) = 0)

OtherChecksum == exec_cksum # trace_bits

Unsteady == {i \in Map \ var_bytes : first_trace[i] # trace_bits[i]}

\* stage_max goes up when a tuple turns out to vary that has not varied before.
Compare ==
    /\ at = "compare" /\ ~Aborts
    /\ IF OtherChecksum THEN Judge ELSE UNCHANGED <<virgin_bits, bitmap_changed>>
    /\ CASE ~OtherChecksum ->
              UNCHANGED <<var_bytes, stage_max, exec_cksum, first_trace>>
         [] OtherChecksum /\ exec_cksum = NoTrace ->
              /\ exec_cksum' = trace_bits /\ first_trace' = trace_bits
              /\ UNCHANGED <<var_bytes, stage_max>>
         [] OTHER ->
              /\ var_bytes' = var_bytes \cup Unsteady
              /\ stage_max' = IF Unsteady # {} THEN CalCyclesLong ELSE stage_max
              /\ UNCHANGED <<exec_cksum, first_trace>>
    /\ stage_cur' = stage_cur + 1
    /\ at' = "calibrate"
    /\ Show
    /\ UNCHANGED <<crash_mode, virgin_tmout, virgin_crash, trace_bits, fuzz_bitmap, uniques,
                   calibrating, fault, hangs, crashed>>

AbortCalibration ==
    /\ at = "compare" /\ Aborts
    /\ EndCalibration
    /\ UNCHANGED <<crash_mode, maps, fileVars, uniques, var_bytes, witness>>

FinishCalibration ==
    /\ at = "calibrate" /\ stage_cur = stage_max
    /\ EndCalibration
    /\ UNCHANGED <<crash_mode, maps, fileVars, uniques, var_bytes, witness>>

-----------------------------------------------------------------------------
(* save_if_interesting                                                     *)

\* fault == crash_mode: kept if there is anything new, and calibrated
KeepCase ==
    /\ at = "judge" /\ fault = crash_mode
    /\ Judge /\ Show
    /\ IF NewBits(trace_bits, virgin_bits) = 0
         THEN Return /\ UNCHANGED calVars
         ELSE StartCalibration("case", trace_bits) /\ UNCHANGED <<trace_bits, fault>>
    /\ UNCHANGED <<crash_mode, virgin_tmout, virgin_crash, fuzz_bitmap, uniques, hangs, crashed>>

\* stop_soon, skip_requested, or one time-out too many (common_fuzz_stuff)
SkipCase ==
    /\ at = "judge"
    /\ Return
    /\ UNCHANGED <<crash_mode, maps, fileVars, uniques, calVars, witness>>

PassOver ==
    /\ at = "judge" /\ fault # crash_mode
    /\ IF fault = "FAULT_NONE"
         THEN Return
         ELSE /\ at' = IF fault = "FAULT_TMOUT" THEN "tmout" ELSE "crash"
              /\ UNCHANGED <<trace_bits, fault>>
    /\ UNCHANGED <<crash_mode, maps, fileVars, uniques, calVars, witness>>

Differs(trace, virgin)      == NewBits(trace, virgin) # 0

RoomForHang    == unique_hangs < KeepUniqueHang

JudgeTmout ==
    /\ at = "tmout" /\ RoomForHang
    /\ LET simple == simplify_trace(trace_bits)
           unique == Differs(simple, virgin_tmout)
       IN  /\ virgin_tmout' = Touched(simple, virgin_tmout)
           /\ unique_tmouts' = IF unique THEN unique_tmouts + 1 ELSE unique_tmouts
           /\ unique_hangs' = IF unique /\ ~PatientTmout THEN unique_hangs + 1
                                                         ELSE unique_hangs
           /\ IF unique /\ PatientTmout
                THEN at' = "rerun" /\ trace_bits' = simple /\ UNCHANGED fault
                ELSE Return
    /\ hangs' = hangs \cup {Hit(trace_bits)}
    /\ UNCHANGED <<crash_mode, virgin_bits, virgin_crash, fileVars, unique_crashes, calVars,
                   seen, crashed>>

\* Once more, with hang_tmout: only now is a time-out a hang, and it may be a crash.
Rerun ==
    /\ at = "rerun"
    /\ run_target
    /\ at' = "reran"
    /\ UNCHANGED <<crash_mode, maps, fileVars, uniques, calVars, witness>>

JudgeRerun ==
    /\ at = "reran"
    /\ unique_hangs' = IF fault = "FAULT_TMOUT" THEN unique_hangs + 1 ELSE unique_hangs
    /\ IF fault = "FAULT_CRASH" THEN at' = "crash" /\ UNCHANGED <<trace_bits, fault>> ELSE Return
    /\ UNCHANGED <<crash_mode, maps, fileVars, unique_tmouts, unique_crashes, calVars, witness>>

\* keep_as_crash
JudgeCrash ==
    /\ at = "crash" /\ unique_crashes < KeepUniqueCrash
    /\ LET simple == simplify_trace(trace_bits)
       IN  /\ virgin_crash' = Touched(simple, virgin_crash)
           /\ unique_crashes' = IF Differs(simple, virgin_crash) THEN unique_crashes + 1
                                                                ELSE unique_crashes
    /\ crashed' = crashed \cup {Hit(trace_bits)}
    /\ Return
    /\ UNCHANGED <<crash_mode, virgin_bits, virgin_tmout, fileVars, unique_tmouts,
                   unique_hangs, calVars, seen, hangs>>

EnoughSaved ==
    /\ \/ at = "tmout" /\ ~RoomForHang
       \/ at = "crash" /\ unique_crashes >= KeepUniqueCrash
    /\ Return
    /\ UNCHANGED <<crash_mode, maps, fileVars, uniques, calVars, witness>>

-----------------------------------------------------------------------------
Calibration == CalibrationRun \/ Compare \/ AbortCalibration \/ FinishCalibration
Saving      == SkipCase \/ KeepCase \/ PassOver \/ JudgeTmout \/ Rerun \/ JudgeRerun \/ JudgeCrash \/ EnoughSaved
CoverageNext == write_bitmap \/ RunMutant \/ CalibrateQueue \/ StartFuzzing \/ Calibration \/ Saving

CoverageSpec == CoverageInit /\ [][CoverageNext]_coverageVars

-----------------------------------------------------------------------------
(* Properties                                                              *)

CoverageTypes ==
    /\ crash_mode \in {c.crash_mode : c \in Campaigns}
    /\ {virgin_bits, virgin_tmout, virgin_crash, trace_bits, first_trace}
         \subseteq [Map -> SUBSET Byte]
    /\ bitmap_changed \in BOOLEAN /\ fuzz_bitmap \in {NoFile} \cup [Map -> SUBSET Byte]
    /\ unique_hangs \in 0 .. KeepUniqueHang /\ unique_crashes \in 0 .. KeepUniqueCrash
    /\ unique_tmouts \in Nat /\ unique_hangs <= unique_tmouts
    /\ exec_cksum \in {NoTrace} \cup Traces /\ var_bytes \subseteq Map
    /\ stage_max \in {0, CalCycles, CalCyclesLong} /\ stage_cur \in 0 .. stage_max
    /\ calibrating \in {"queue", "case"} /\ fault \in Faults
    /\ at \in {"dry run", "idle", "judge", "calibrate", "compare", "tmout", "rerun", "reran", "crash"}

\* Between two test cases virgin_bits holds exactly the bits that no run has shown, the runs of
\* calibration included, of those that ended as crash_mode asks and were not skipped: though
\* calibration judges no run whose checksum is the entry's (has_new_bits, calibrate_case).
VirginIsUnseen ==
    at \in {"dry run", "idle"} => \A i \in Map, b \in Byte : b \in virgin_bits[i] <=> <<i, b>> \notin seen

\* A fault is saved while there is room just when its trace has a tuple not seen in those put
\* to the test before it or misses one they all have (docs/technical_details.txt:412-418),
\* whatever run of it the trace was taken from, and a clean run of the same case between.
Distinct(tuples, earlier) ==
    \/ tuples \ UNION earlier # {}
    \/ \E i \in Map \ tuples : \A other \in earlier : i \in other

FaultsUnique == [][
    /\ at = "crash" /\ at' = "idle" /\ unique_crashes < KeepUniqueCrash
       => (unique_crashes' > unique_crashes <=> Distinct(Hit(trace_bits), crashed))
    /\ at = "tmout" /\ unique_hangs < KeepUniqueHang
       => (unique_tmouts' > unique_tmouts <=> Distinct(Hit(trace_bits), hangs))]_coverageVars

\* What read_bitmap would find is what the fuzzer knows, unless the flag says that the file
\* has to be written again (write_bitmap, bitmap_changed).
BitmapOnDisk == ~bitmap_changed => fuzz_bitmap = virgin_bits

\* The map of what was never seen is true, in memory and on disk.
VirginMapTrue == CoverageTypes /\ VirginIsUnseen /\ BitmapOnDisk
=============================================================================
