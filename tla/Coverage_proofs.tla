--------------------------- MODULE Coverage_proofs ---------------------------
(***************************************************************************)
(* Theorems about the coverage maps, for every map, every set of hit       *)
(* counts and every campaign: virgin_bits is true to what was run, in      *)
(* memory and on disk, and a fault is saved just when its trace differs.   *)
(***************************************************************************)
EXTENDS Coverage, TLAPS

Bits == SUBSET Byte

(* A hit count falls in one class, or in none when it is a multiple of 256. *)
LEMMA CountClassType ==
    ASSUME NEW n \in Nat
    PROVE  CountClass(n) \in Bits
<1> DEFINE hits == n % 256
           InClass(b) == hits \in CASE b = 0 -> {1} [] b = 1 -> {2} [] b = 2 -> {3}
                                    [] b = 3 -> 4 .. 7 [] b = 4 -> 8 .. 15
                                    [] b = 5 -> 16 .. 31 [] b = 6 -> 32 .. 127
                                    [] b = 7 -> 128 .. 255
           Bit == CHOOSE b \in Byte : InClass(b)
<1>1. hits \in 0 .. 255
  OBVIOUS
<1>2. CountClass(n) = IF hits = 0 THEN {} ELSE {Bit}
  BY DEF CountClass
<1>3. hits # 0 => Bit \in Byte
  <2>1. /\ hits = 1 => InClass(0)
        /\ hits = 2 => InClass(1)
        /\ hits = 3 => InClass(2)
        /\ hits \in 4 .. 7 => InClass(3)
        /\ hits \in 8 .. 15 => InClass(4)
        /\ hits \in 16 .. 31 => InClass(5)
        /\ hits \in 32 .. 127 => InClass(6)
        /\ hits \in 128 .. 255 => InClass(7)
    <3> HIDE DEF hits
    <3> QED
      BY <1>1
  <2>2. hits # 0 => \E b \in Byte : InClass(b)
    <3> HIDE DEF hits, InClass
    <3> QED
      BY <1>1, <2>1 DEF Byte
  <2> HIDE DEF InClass
  <2> QED
    BY <2>2
<1> HIDE DEF hits, Bit
<1> QED
  BY <1>2, <1>3 DEF Bits

(* What a run leaves behind is a map of bytes.                             *)
LEMMA TracesAreMaps == Traces \subseteq [Map -> Bits]
<1> SUFFICES ASSUME NEW h \in [Map -> UNION {Counts[i] : i \in Map}],
                    \A i \in Map : h[i] \in Counts[i]
             PROVE  classify_counts(h) \in [Map -> Bits]
  BY DEF Traces
<1>1. \A i \in Map : CountClass(h[i]) \in Bits
  BY CountClassType, CoverageAssumption
<1> QED
  BY <1>1 DEF classify_counts

(* A map is no empty sequence: there is a tuple.                           *)
LEMMA MapNotEmpty == NoTrace \notin [Map -> Bits]
  BY CoverageAssumption DEF NoTrace

(* simplify_trace keeps the tuples apart that were hit from those missed.  *)
LEMMA SimplifiedType ==
    ASSUME NEW trace
    PROVE  simplify_trace(trace) \in [Map -> Bits]
  BY DEF simplify_trace, Bits, Byte

(* Nothing new: the trace has no bit that the map still has.               *)
LEMMA NothingNew ==
    ASSUME NEW trace \in [Map -> Bits], NEW virgin \in [Map -> Bits]
    PROVE  /\ NewBits(trace, virgin) = 0 <=> \A i \in Map : trace[i] \cap virgin[i] = {}
           /\ Touched(trace, virgin) \in [Map -> Bits]
           /\ NewBits(trace, virgin) = 0 => Touched(trace, virgin) = virgin
<1>1. \A i \in Map : trace[i] \subseteq Byte
  BY DEF Bits
<1>2. NewBits(trace, virgin) = 0 <=> \A i \in Map : trace[i] \cap virgin[i] = {}
  BY <1>1 DEF NewBits
<1>3. Touched(trace, virgin) \in [Map -> Bits]
  BY DEF Touched, Bits
<1>4. ASSUME \A i \in Map : trace[i] \cap virgin[i] = {}
      PROVE  Touched(trace, virgin) = virgin
  <2>1. \A i \in Map : virgin[i] \ trace[i] = virgin[i]
    BY <1>4
  <2> QED
    BY <2>1 DEF Touched
<1> QED
  BY <1>2, <1>3, <1>4

-----------------------------------------------------------------------------
(* The inductive invariant                                                 *)

(* A bit is virgin exactly if no run in use has shown it.                  *)
UnseenExact == \A i \in Map, b \in Byte : b \in virgin_bits[i] <=> <<i, b>> \notin seen

(* The run whose checksum the entry has was judged: calibration may pass   *)
(* over a run that repeats it.                                             *)
ChecksumJudged == exec_cksum # NoTrace => \A i \in Map : exec_cksum[i] \cap virgin_bits[i] = {}

(* What holds while a case is on its way.                                  *)
OnItsWay ==
    /\ at \in {"judge", "compare"} => trace_bits \in Traces
    /\ at = "compare" => stage_cur < stage_max
    /\ at \in {"rerun", "reran"} => unique_hangs < KeepUniqueHang /\ unique_hangs < unique_tmouts

(* A map of faults against the tuples of the faults put to the test: bit 7 *)
(* of a tuple is gone when one of them hit it, bit 0 when one missed it.   *)
TellsApart(virgin, faults) ==
    \A i \in Map :
        /\ 7 \in virgin[i] <=> \A other \in faults : i \notin other
        /\ 0 \in virgin[i] <=> \A other \in faults : i \in other

IInv ==
    /\ CoverageTypes /\ UnseenExact /\ ChecksumJudged /\ BitmapOnDisk /\ OnItsWay
    /\ TellsApart(virgin_tmout, hangs) /\ TellsApart(virgin_crash, crashed)

(* has_new_bits on a simplified trace says whether the fault is distinct,  *)
(* and leaves the map for one fault more.                                  *)
LEMMA SimplifiedTells ==
    ASSUME NEW trace \in [Map -> Bits], NEW virgin \in [Map -> Bits], NEW faults,
           TellsApart(virgin, faults)
    PROVE  /\ Differs(simplify_trace(trace), virgin) <=> Distinct(Hit(trace), faults)
           /\ TellsApart(Touched(simplify_trace(trace), virgin), faults \cup {Hit(trace)})
<1> DEFINE simple == simplify_trace(trace)
           hit == Hit(trace)
<1>1. \A i \in Map : simple[i] = IF i \in hit THEN {7} ELSE {0}
  BY DEF simplify_trace, Hit
<1>2. simple \in [Map -> Bits] /\ hit \subseteq Map
  BY SimplifiedType DEF Hit
<1> HIDE DEF simple, hit
<1>3. Differs(simple, virgin) <=> \E i \in Map : simple[i] \cap virgin[i] # {}
  BY <1>2, NothingNew DEF Differs
<1>4. \A i \in Map : simple[i] \cap virgin[i] # {} <=>
                        IF i \in hit THEN 7 \in virgin[i] ELSE 0 \in virgin[i]
  BY <1>1
<1>5. (\E i \in Map : simple[i] \cap virgin[i] # {}) <=> Distinct(hit, faults)
  BY <1>2, <1>4 DEF TellsApart, Distinct
<1>6. \A i \in Map : Touched(simple, virgin)[i] = virgin[i] \ simple[i]
  BY DEF Touched
<1>7. TellsApart(Touched(simple, virgin), faults \cup {hit})
  BY <1>1, <1>6 DEF TellsApart
<1> QED
  BY <1>3, <1>5, <1>7 DEF simple, hit

(* The invariant holds when main has set up the maps.                      *)
LEMMA InitIInv == CoverageInit => IInv
<1> SUFFICES ASSUME CoverageInit PROVE IInv
  OBVIOUS
<1>1. PICK c \in Campaigns : crash_mode = c.crash_mode /\ virgin_bits = c.in_bitmap
  BY DEF CoverageInit
<1>2. virgin_bits \in [Map -> Bits]
  BY <1>1, CoverageAssumption DEF Bits
<1>3. Virgin \in [Map -> Bits] /\ Blank \in [Map -> Bits]
  BY DEF Virgin, Blank, Bits
<1>4. CoverageTypes
  <2>1. crash_mode \in {k.crash_mode : k \in Campaigns}
    BY <1>1
  <2>2. {virgin_bits, virgin_tmout, virgin_crash, trace_bits, first_trace}
          \subseteq [Map -> SUBSET Byte]
    BY <1>2, <1>3 DEF CoverageInit, Bits
  <2>3. bitmap_changed \in BOOLEAN /\ fuzz_bitmap \in {NoFile} \cup [Map -> SUBSET Byte]
    BY DEF CoverageInit
  <2>4. /\ unique_hangs \in 0 .. KeepUniqueHang /\ unique_crashes \in 0 .. KeepUniqueCrash
        /\ unique_tmouts \in Nat /\ unique_hangs <= unique_tmouts
        /\ stage_max \in {0, CalCycles, CalCyclesLong} /\ stage_cur \in 0 .. stage_max
    <3>1. KeepUniqueHang \in Nat /\ KeepUniqueCrash \in Nat
      BY CoverageAssumption
    <3>2. /\ unique_hangs = 0 /\ unique_crashes = 0 /\ unique_tmouts = 0
          /\ stage_max = 0 /\ stage_cur = 0
      BY DEF CoverageInit
    <3> QED
      BY <3>1, <3>2
  <2>5. /\ exec_cksum \in {NoTrace} \cup Traces /\ var_bytes \subseteq Map
        /\ calibrating \in {"queue", "case"} /\ fault \in Faults
        /\ at \in {"dry run", "idle", "judge", "calibrate", "compare", "tmout", "rerun", "reran", "crash"}
    BY DEF CoverageInit, Faults
  <2> QED
    BY <2>1, <2>2, <2>3, <2>4, <2>5 DEF CoverageTypes
<1>5. UnseenExact
  BY <1>2 DEF CoverageInit, UnseenExact
<1>6. ChecksumJudged /\ BitmapOnDisk /\ OnItsWay
  BY DEF CoverageInit, ChecksumJudged, BitmapOnDisk, OnItsWay
<1>7. TellsApart(virgin_tmout, hangs) /\ TellsApart(virgin_crash, crashed)
  <2>1. \A i \in Map : Virgin[i] = Byte
    BY DEF Virgin
  <2>2. 7 \in Byte /\ 0 \in Byte
    BY DEF Byte
  <2>3. TellsApart(Virgin, {})
    BY <2>1, <2>2 DEF TellsApart
  <2> QED
    BY <2>3 DEF CoverageInit
<1> QED
  BY <1>4, <1>5, <1>6, <1>7 DEF IInv


-----------------------------------------------------------------------------
(* Every step keeps the invariant                                          *)

(* Frame: the maps and what they are compared with.                        *)
MapsOK ==
    /\ UnseenExact /\ ChecksumJudged /\ BitmapOnDisk
    /\ TellsApart(virgin_tmout, hangs) /\ TellsApart(virgin_crash, crashed)

(* A step that leaves the maps, the file and the history alone keeps what  *)
(* is said of them, when it keeps the checksum or forgets it.              *)
LEMMA MapsFrame ==
    ASSUME IInv, UNCHANGED <<maps, fileVars, witness>>, exec_cksum' \in {exec_cksum, NoTrace}
    PROVE  MapsOK'
<1> USE DEF IInv, maps, fileVars, witness
<1>1. UnseenExact' /\ BitmapOnDisk'
  BY DEF UnseenExact, BitmapOnDisk
<1>2. ChecksumJudged'
  BY DEF ChecksumJudged
<1>3. TellsApart(virgin_tmout, hangs)' /\ TellsApart(virgin_crash, crashed)'
  BY DEF TellsApart
<1> QED
  BY <1>1, <1>2, <1>3 DEF MapsOK

(* A run of the target leaves a trace and a fault.                         *)
LEMMA RunTyped == run_target => trace_bits' \in Traces /\ trace_bits' \in [Map -> Bits] /\ fault' \in Faults
  BY TracesAreMaps DEF run_target

(* has_new_bits(virgin_bits) forgets the bits shown, and the flag is up    *)
(* unless there was none.                                                  *)
LEMMA JudgeKeeps ==
    ASSUME IInv, Judge, Show, trace_bits \in [Map -> Bits], UNCHANGED fuzz_bitmap
    PROVE  /\ UnseenExact' /\ BitmapOnDisk' /\ virgin_bits' \in [Map -> Bits]
           /\ bitmap_changed' \in BOOLEAN
           /\ \A i \in Map : trace_bits[i] \cap virgin_bits'[i] = {} /\ virgin_bits'[i] \subseteq virgin_bits[i]
<1>1. /\ virgin_bits \in [Map -> Bits] /\ bitmap_changed \in BOOLEAN
      /\ virgin_bits' = Touched(trace_bits, virgin_bits)
      /\ bitmap_changed' = (bitmap_changed \/ NewBits(trace_bits, virgin_bits) # 0)
  BY DEF IInv, CoverageTypes, Judge, Bits
<1>2. \A i \in Map : virgin_bits'[i] = virgin_bits[i] \ trace_bits[i]
  BY <1>1 DEF Touched
<1>3. \A i \in Map, b \in Byte : <<i, b>> \in seen' <=> <<i, b>> \in seen \/ b \in trace_bits[i]
  BY DEF Show
<1>4. UnseenExact'
  BY <1>2, <1>3 DEF IInv, UnseenExact
<1>5. BitmapOnDisk'
  BY <1>1, NothingNew DEF IInv, BitmapOnDisk
<1> QED
  BY <1>1, <1>2, <1>4, <1>5, NothingNew

(* The constants that are numbers.                                         *)
LEMMA Numbers ==
    /\ KeepUniqueHang \in Nat /\ KeepUniqueCrash \in Nat
    /\ CalCycles \in Nat \ {0} /\ CalCyclesLong \in Nat /\ CalCyclesLong >= CalCycles
  BY CoverageAssumption

(* The parts of the type invariant.                                        *)
MapsTyped ==
    /\ virgin_bits \in [Map -> Bits] /\ virgin_tmout \in [Map -> Bits]
    /\ virgin_crash \in [Map -> Bits]
    /\ bitmap_changed \in BOOLEAN /\ fuzz_bitmap \in {NoFile} \cup [Map -> Bits]

CountsTyped ==
    /\ unique_hangs \in 0 .. KeepUniqueHang /\ unique_crashes \in 0 .. KeepUniqueCrash
    /\ unique_tmouts \in Nat /\ unique_hangs <= unique_tmouts

RunTypes == trace_bits \in [Map -> Bits] /\ fault \in Faults

CalibrationTyped ==
    /\ first_trace \in [Map -> Bits] /\ exec_cksum \in {NoTrace} \cup Traces
    /\ var_bytes \subseteq Map
    /\ stage_max \in {0, CalCycles, CalCyclesLong} /\ stage_cur \in 0 .. stage_max
    /\ calibrating \in {"queue", "case"}

Pcs == {"dry run", "idle", "judge", "calibrate", "compare", "tmout", "rerun", "reran", "crash"}

LEMMA TypeParts ==
    CoverageTypes <=> /\ crash_mode \in {c.crash_mode : c \in Campaigns}
                       /\ MapsTyped /\ CountsTyped /\ RunTypes /\ CalibrationTyped /\ at \in Pcs
  BY DEF CoverageTypes, MapsTyped, CountsTyped, RunTypes, CalibrationTyped, Pcs, Bits

(* What is left to show of a step, when crash_mode stays.                  *)
LEMMA StepIInv ==
    ASSUME IInv, UNCHANGED crash_mode, MapsOK', OnItsWay',
           MapsTyped', CountsTyped', RunTypes', CalibrationTyped', at' \in Pcs
    PROVE  IInv'
<1>1. crash_mode' \in {c.crash_mode : c \in Campaigns}
  BY DEF IInv, CoverageTypes
<1>2. CoverageTypes'
  BY <1>1 DEF CoverageTypes, MapsTyped, CountsTyped, RunTypes, CalibrationTyped, Pcs, Bits
<1> QED
  BY <1>2 DEF IInv, MapsOK

(* A run of the target brings a trace and a fault; the steps before and    *)
(* after it that judge nothing only move on.                               *)
LEMMA MovesIInv ==
    ASSUME IInv,
           \/ write_bitmap \/ RunMutant \/ CalibrationRun \/ Rerun
           \/ CalibrateQueue \/ StartFuzzing \/ AbortCalibration \/ FinishCalibration
           \/ SkipCase \/ PassOver \/ EnoughSaved
    PROVE  IInv'
<1>1. MapsTyped /\ CountsTyped /\ RunTypes /\ CalibrationTyped /\ at \in Pcs
  BY TypeParts DEF IInv
<1>2. Blank \in [Map -> Bits]
  BY DEF Blank, Bits
<1>3. CASE write_bitmap
  <2>1. /\ bitmap_changed' = FALSE /\ fuzz_bitmap' = virgin_bits
        /\ UNCHANGED <<crash_mode, maps, trace_bits, uniques, calVars, fault, at, witness>>
    BY <1>3 DEF write_bitmap
  <2>2. MapsOK'
    <3>1. UnseenExact' /\ BitmapOnDisk'
      BY <2>1 DEF IInv, UnseenExact, BitmapOnDisk, maps, witness
    <3>2. ChecksumJudged'
      BY <2>1 DEF IInv, ChecksumJudged, maps, calVars
    <3>3. TellsApart(virgin_tmout, hangs)' /\ TellsApart(virgin_crash, crashed)'
      BY <2>1 DEF IInv, TellsApart, maps, witness
    <3> QED
      BY <3>1, <3>2, <3>3 DEF MapsOK
  <2>3. OnItsWay'
    BY <2>1 DEF IInv, OnItsWay, calVars, uniques
  <2>4. MapsTyped'
    BY <1>1, <2>1 DEF MapsTyped, maps
  <2>5. CountsTyped' /\ RunTypes' /\ CalibrationTyped' /\ at' \in Pcs
    BY <1>1, <2>1 DEF CountsTyped, RunTypes, CalibrationTyped, uniques, calVars
  <2> QED
    BY <2>1, <2>2, <2>3, <2>4, <2>5, StepIInv
<1>4. CASE RunMutant \/ CalibrationRun \/ Rerun
  <2>1. /\ run_target /\ at' \in {"judge", "compare", "reran"}
        /\ at' = "compare" => stage_cur < stage_max
        /\ at' = "reran" => at = "rerun"
        /\ UNCHANGED <<crash_mode, maps, fileVars, uniques, calVars, witness>>
    BY <1>4 DEF RunMutant, CalibrationRun, Rerun
  <2>2. MapsOK'
    BY <2>1, MapsFrame DEF calVars
  <2>3. OnItsWay'
    BY <2>1, RunTyped DEF IInv, OnItsWay, calVars, uniques
  <2>4. MapsTyped'
    BY <1>1, <2>1 DEF MapsTyped, maps, fileVars
  <2>5. CountsTyped' /\ CalibrationTyped' /\ at' \in Pcs
    BY <1>1, <2>1 DEF CountsTyped, CalibrationTyped, uniques, calVars, Pcs
  <2>6. RunTypes'
    BY <2>1, RunTyped DEF RunTypes
  <2> QED
    BY <2>1, <2>2, <2>3, <2>4, <2>5, <2>6, StepIInv
<1>5. CASE CalibrateQueue
  <2>1. /\ StartCalibration("queue", NoTrace)
        /\ UNCHANGED <<crash_mode, maps, trace_bits, fileVars, uniques, fault, witness>>
    BY <1>5 DEF CalibrateQueue
  <2>2. /\ calibrating' = "queue" /\ exec_cksum' = NoTrace /\ first_trace' = first_trace
        /\ stage_cur' = 0 /\ stage_max' = CalCycles /\ at' = "calibrate" /\ UNCHANGED var_bytes
    BY <2>1 DEF StartCalibration
  <2>3. MapsOK'
    BY <2>1, <2>2, MapsFrame
  <2>4. OnItsWay'
    BY <2>2 DEF OnItsWay
  <2>5. MapsTyped' /\ CountsTyped' /\ RunTypes'
    BY <1>1, <2>1 DEF MapsTyped, CountsTyped, RunTypes, maps, fileVars, uniques
  <2>6. CalibrationTyped' /\ at' \in Pcs
    <3>1. stage_max' \in {0, CalCycles, CalCyclesLong} /\ stage_cur' \in 0 .. stage_max'
      BY <2>2, Numbers
    <3>2. first_trace' \in [Map -> Bits] /\ exec_cksum' \in {NoTrace} \cup Traces /\ var_bytes' \subseteq Map
      BY <1>1, <2>2 DEF CalibrationTyped
    <3> QED
      BY <2>2, <3>1, <3>2 DEF CalibrationTyped, Pcs
  <2> QED
    BY <2>1, <2>3, <2>4, <2>5, <2>6, StepIInv
<1>6. CASE \/ StartFuzzing \/ SkipCase \/ PassOver \/ EnoughSaved
  <2>1. /\ at' \in {"dry run", "idle", "tmout", "crash"}
        /\ \/ UNCHANGED <<trace_bits, fault>>
           \/ trace_bits' = Blank /\ fault' = "FAULT_NONE"
        /\ UNCHANGED <<crash_mode, maps, fileVars, uniques, calVars, witness>>
    BY <1>6 DEF StartFuzzing, SkipCase, PassOver, EnoughSaved, Return
  <2>2. MapsOK'
    BY <2>1, MapsFrame DEF calVars
  <2>3. OnItsWay'
    BY <2>1 DEF OnItsWay
  <2>4. MapsTyped' /\ CountsTyped' /\ CalibrationTyped' /\ at' \in Pcs
    BY <1>1, <2>1 DEF MapsTyped, CountsTyped, CalibrationTyped, maps, fileVars, uniques, calVars, Pcs
  <2>5. RunTypes'
    BY <1>1, <1>2, <2>1 DEF RunTypes, Faults
  <2> QED
    BY <2>1, <2>2, <2>3, <2>4, <2>5, StepIInv
<1>7. CASE AbortCalibration \/ FinishCalibration
  <2>1. /\ EndCalibration
        /\ UNCHANGED <<crash_mode, maps, fileVars, uniques, var_bytes, witness>>
    BY <1>7 DEF AbortCalibration, FinishCalibration
  <2>2. /\ exec_cksum' = NoTrace /\ first_trace' = Blank /\ stage_cur' = 0 /\ stage_max' = 0
        /\ calibrating' = "queue" /\ at' \in {"dry run", "idle", "crash"}
        /\ \/ UNCHANGED <<trace_bits, fault>>
           \/ trace_bits' = Blank /\ fault' = "FAULT_NONE"
    BY <2>1 DEF EndCalibration, Return
  <2>3. MapsOK'
    BY <2>1, <2>2, MapsFrame
  <2>4. OnItsWay'
    BY <2>2 DEF OnItsWay
  <2>5. MapsTyped' /\ CountsTyped'
    BY <1>1, <2>1 DEF MapsTyped, CountsTyped, maps, fileVars, uniques
  <2>6. CalibrationTyped' /\ at' \in Pcs
    <3>1. stage_max' \in {0, CalCycles, CalCyclesLong} /\ stage_cur' \in 0 .. stage_max'
      <4>1. stage_cur' = 0 /\ stage_max' = 0
        BY <2>2
      <4> QED
        BY <4>1
    <3>2. first_trace' \in [Map -> Bits] /\ exec_cksum' \in {NoTrace} \cup Traces /\ var_bytes' \subseteq Map
      BY <1>1, <1>2, <2>1, <2>2 DEF CalibrationTyped
    <3> QED
      BY <2>2, <3>1, <3>2 DEF CalibrationTyped, Pcs
  <2>7. RunTypes'
    BY <1>1, <1>2, <2>2 DEF RunTypes, Faults
  <2> QED
    BY <2>1, <2>3, <2>4, <2>5, <2>6, <2>7, StepIInv
<1> QED
  BY <1>3, <1>4, <1>5, <1>6, <1>7

(* calibrate_case judges a run whose checksum is new; a run that repeats   *)
(* the checksum of the entry shows nothing that was not judged.            *)
LEMMA CompareIInv ==
    ASSUME IInv, Compare
    PROVE  IInv'
<1>1. MapsTyped /\ CountsTyped /\ RunTypes /\ CalibrationTyped /\ at \in Pcs
  BY TypeParts DEF IInv
<1>2. /\ at = "compare" /\ at' = "calibrate" /\ stage_cur' = stage_cur + 1 /\ Show
      /\ IF OtherChecksum THEN Judge ELSE UNCHANGED <<virgin_bits, bitmap_changed>>
      /\ UNCHANGED <<crash_mode, virgin_tmout, virgin_crash, trace_bits, fuzz_bitmap, uniques,
                     calibrating, fault, hangs, crashed>>
  BY DEF Compare
<1>3. /\ \/ UNCHANGED <<exec_cksum, first_trace>>
         \/ OtherChecksum /\ exec_cksum' = trace_bits /\ first_trace' = trace_bits
      /\ \/ UNCHANGED var_bytes
         \/ var_bytes' = var_bytes \cup Unsteady
      /\ stage_max' = stage_max \/ stage_max' = CalCyclesLong
  BY DEF Compare
<1>4. trace_bits \in Traces /\ stage_cur < stage_max /\ trace_bits \in [Map -> Bits]
  BY <1>2, TracesAreMaps DEF IInv, OnItsWay
<1>5. /\ UnseenExact' /\ BitmapOnDisk' /\ virgin_bits' \in [Map -> Bits] /\ bitmap_changed' \in BOOLEAN
      /\ ChecksumJudged'
  <2>1. CASE OtherChecksum
    <3>1. /\ UnseenExact' /\ BitmapOnDisk' /\ virgin_bits' \in [Map -> Bits] /\ bitmap_changed' \in BOOLEAN
          /\ \A i \in Map : /\ trace_bits[i] \cap virgin_bits'[i] = {}
                            /\ virgin_bits'[i] \subseteq virgin_bits[i]
      BY <1>2, <1>4, <2>1, JudgeKeeps
    <3>2. ChecksumJudged'
      BY <1>3, <3>1 DEF IInv, ChecksumJudged
    <3> QED
      BY <3>1, <3>2
  <2>2. CASE ~OtherChecksum
    <3>1. exec_cksum = trace_bits /\ exec_cksum # NoTrace /\ UNCHANGED exec_cksum
      BY <1>3, <1>4, <2>2, MapNotEmpty DEF OtherChecksum
    <3>2. \A i \in Map : trace_bits[i] \cap virgin_bits[i] = {}
      BY <3>1 DEF IInv, ChecksumJudged
    <3>3. \A i \in Map, b \in Byte : <<i, b>> \in seen' <=> <<i, b>> \in seen \/ b \in trace_bits[i]
      BY <1>2 DEF Show
    <3>4. UnseenExact'
      BY <1>2, <2>2, <3>2, <3>3 DEF IInv, UnseenExact
    <3>5. BitmapOnDisk' /\ virgin_bits' \in [Map -> Bits] /\ bitmap_changed' \in BOOLEAN
      BY <1>1, <1>2, <2>2 DEF IInv, BitmapOnDisk, MapsTyped
    <3>6. ChecksumJudged'
      BY <1>2, <2>2, <3>1 DEF IInv, ChecksumJudged
    <3> QED
      BY <3>4, <3>5, <3>6
  <2> QED
    BY <2>1, <2>2
<1>6. TellsApart(virgin_tmout, hangs)' /\ TellsApart(virgin_crash, crashed)'
  BY <1>2 DEF IInv, TellsApart
<1>7. OnItsWay'
  BY <1>2 DEF OnItsWay
<1>8. MapsTyped'
  BY <1>1, <1>2, <1>5 DEF MapsTyped
<1>9. CountsTyped' /\ RunTypes'
  BY <1>1, <1>2 DEF CountsTyped, RunTypes, uniques
<1>10. CalibrationTyped' /\ at' \in Pcs
  <2>1. stage_max' \in {0, CalCycles, CalCyclesLong} /\ stage_cur' \in 0 .. stage_max'
    <3>1. /\ stage_max \in {CalCycles, CalCyclesLong} /\ stage_cur \in Nat
          /\ stage_cur + 1 <= stage_max /\ stage_max <= CalCyclesLong
      BY <1>1, <1>4, Numbers DEF CalibrationTyped
    <3> QED
      BY <1>2, <1>3, <3>1, Numbers
  <2>2. first_trace' \in [Map -> Bits] /\ exec_cksum' \in {NoTrace} \cup Traces
    BY <1>1, <1>3, <1>4 DEF CalibrationTyped
  <2>3. var_bytes' \subseteq Map
    BY <1>1, <1>3 DEF CalibrationTyped, Unsteady
  <2> QED
    BY <1>1, <1>2, <2>1, <2>2, <2>3 DEF CalibrationTyped, Pcs
<1> QED
  BY <1>2, <1>5, <1>6, <1>7, <1>8, <1>9, <1>10, StepIInv DEF MapsOK

(* A mutant that ended as crash_mode asks is judged; one with something    *)
(* new is calibrated, and its checksum is that of the run judged.          *)
LEMMA KeepCaseIInv ==
    ASSUME IInv, KeepCase
    PROVE  IInv'
<1>1. MapsTyped /\ CountsTyped /\ RunTypes /\ CalibrationTyped /\ at \in Pcs
  BY TypeParts DEF IInv
<1>2. /\ at = "judge" /\ Judge /\ Show
      /\ UNCHANGED <<crash_mode, virgin_tmout, virgin_crash, fuzz_bitmap, uniques, hangs, crashed>>
  BY DEF KeepCase
<1>3. trace_bits \in Traces /\ trace_bits \in [Map -> Bits] /\ Blank \in [Map -> Bits]
  BY <1>2, TracesAreMaps DEF IInv, OnItsWay, Blank, Bits
<1>4. /\ UnseenExact' /\ BitmapOnDisk' /\ virgin_bits' \in [Map -> Bits] /\ bitmap_changed' \in BOOLEAN
      /\ \A i \in Map : /\ trace_bits[i] \cap virgin_bits'[i] = {}
                        /\ virgin_bits'[i] \subseteq virgin_bits[i]
  BY <1>2, <1>3, JudgeKeeps
<1>5. /\ \/ UNCHANGED <<exec_cksum, first_trace, stage_cur, stage_max, calibrating>>
         \/ /\ exec_cksum' = trace_bits /\ first_trace' = trace_bits
            /\ stage_cur' = 0 /\ stage_max' = CalCycles /\ calibrating' = "case"
      /\ UNCHANGED var_bytes
      /\ at' \in {"dry run", "idle", "calibrate"}
      /\ \/ UNCHANGED <<trace_bits, fault>>
         \/ trace_bits' = Blank /\ fault' = "FAULT_NONE"
  <2>1. CASE NewBits(trace_bits, virgin_bits) = 0
    BY <2>1 DEF KeepCase, Return, calVars
  <2>2. CASE NewBits(trace_bits, virgin_bits) # 0
    <3>1. StartCalibration("case", trace_bits) /\ UNCHANGED <<trace_bits, fault>>
      BY <2>2 DEF KeepCase
    <3>2. trace_bits # NoTrace
      BY <1>3, MapNotEmpty
    <3> QED
      BY <3>1, <3>2 DEF StartCalibration
  <2> QED
    BY <2>1, <2>2
<1>6. ChecksumJudged'
  BY <1>4, <1>5 DEF IInv, ChecksumJudged
<1>7. TellsApart(virgin_tmout, hangs)' /\ TellsApart(virgin_crash, crashed)'
  BY <1>2 DEF IInv, TellsApart
<1>8. OnItsWay'
  BY <1>5 DEF OnItsWay
<1>9. MapsTyped'
  BY <1>1, <1>2, <1>4 DEF MapsTyped
<1>10. CountsTyped'
  BY <1>1, <1>2 DEF CountsTyped, uniques
<1>11. RunTypes'
  BY <1>1, <1>3, <1>5 DEF RunTypes, Faults
<1>12. CalibrationTyped' /\ at' \in Pcs
  <2>1. stage_max' \in {0, CalCycles, CalCyclesLong} /\ stage_cur' \in 0 .. stage_max'
    <3>1. \/ stage_cur' = stage_cur /\ stage_max' = stage_max
          \/ stage_cur' = 0 /\ stage_max' = CalCycles
      BY <1>5
    <3>2. stage_max \in {0, CalCycles, CalCyclesLong} /\ stage_cur \in 0 .. stage_max
      BY <1>1 DEF CalibrationTyped
    <3> QED
      BY <3>1, <3>2, Numbers
  <2>2. /\ first_trace' \in [Map -> Bits] /\ exec_cksum' \in {NoTrace} \cup Traces
        /\ var_bytes' \subseteq Map /\ calibrating' \in {"queue", "case"}
    BY <1>1, <1>3, <1>5 DEF CalibrationTyped
  <2> QED
    BY <1>5, <2>1, <2>2 DEF CalibrationTyped, Pcs
<1> QED
  BY <1>2, <1>4, <1>6, <1>7, <1>8, <1>9, <1>10, <1>11, <1>12, StepIInv DEF MapsOK

(* A time-out is compared with the earlier ones, and is a hang at once or  *)
(* after the run with hang_tmout.                                          *)
LEMMA JudgeTmoutIInv ==
    ASSUME IInv, JudgeTmout
    PROVE  IInv'
<1> DEFINE simple == simplify_trace(trace_bits)
           unique == Differs(simple, virgin_tmout)
<1>1. MapsTyped /\ CountsTyped /\ RunTypes /\ CalibrationTyped /\ at \in Pcs
  BY TypeParts DEF IInv
<1>2. /\ RoomForHang
      /\ virgin_tmout' = Touched(simple, virgin_tmout)
      /\ unique_tmouts' = IF unique THEN unique_tmouts + 1 ELSE unique_tmouts
      /\ unique_hangs' = IF unique /\ ~PatientTmout THEN unique_hangs + 1 ELSE unique_hangs
      /\ IF unique /\ PatientTmout
           THEN at' = "rerun" /\ trace_bits' = simple /\ UNCHANGED fault
           ELSE Return
      /\ hangs' = hangs \cup {Hit(trace_bits)}
      /\ UNCHANGED <<crash_mode, virgin_bits, virgin_crash, fileVars, unique_crashes, calVars,
                     seen, crashed>>
  BY DEF JudgeTmout
<1>3. simple \in [Map -> Bits] /\ Blank \in [Map -> Bits]
  BY SimplifiedType DEF Blank, Bits
<1>4. /\ TellsApart(Touched(simple, virgin_tmout), hangs \cup {Hit(trace_bits)})
      /\ Touched(simple, virgin_tmout) \in [Map -> Bits]
  BY <1>1, <1>3, SimplifiedTells, NothingNew DEF IInv, MapsTyped, RunTypes
<1> HIDE DEF simple, unique
<1>5. TellsApart(virgin_tmout, hangs)' /\ TellsApart(virgin_crash, crashed)'
  BY <1>2, <1>4 DEF IInv, TellsApart
<1>6. UnseenExact' /\ BitmapOnDisk' /\ ChecksumJudged'
  BY <1>2 DEF IInv, UnseenExact, BitmapOnDisk, ChecksumJudged, fileVars, calVars
<1>7. /\ at' \in {"rerun", "dry run", "idle"}
      /\ at' = "rerun" => unique /\ PatientTmout
      /\ trace_bits' \in [Map -> Bits] /\ fault' \in Faults
  BY <1>1, <1>2, <1>3 DEF Return, RunTypes, Faults
<1>8. CountsTyped' /\ (at' = "rerun" => unique_hangs' < KeepUniqueHang /\ unique_hangs' < unique_tmouts')
  <2>1. unique_hangs \in Nat /\ unique_hangs < KeepUniqueHang /\ unique_hangs <= unique_tmouts /\ unique_tmouts \in Nat
    BY <1>1, <1>2, Numbers DEF CountsTyped, RoomForHang
  <2>2. unique_hangs' \in 0 .. KeepUniqueHang /\ unique_tmouts' \in Nat /\ unique_hangs' <= unique_tmouts'
    BY <1>2, <2>1, Numbers
  <2>3. at' = "rerun" => unique_hangs' < KeepUniqueHang /\ unique_hangs' < unique_tmouts'
    BY <1>2, <1>7, <2>1
  <2> QED
    BY <1>1, <1>2, <2>2, <2>3 DEF CountsTyped
<1>9. OnItsWay'
  BY <1>7, <1>8 DEF OnItsWay
<1>10. MapsTyped' /\ CalibrationTyped' /\ RunTypes' /\ at' \in Pcs
  <2>1. MapsTyped'
    BY <1>1, <1>2, <1>4 DEF MapsTyped, fileVars
  <2>2. CalibrationTyped'
    BY <1>1, <1>2 DEF CalibrationTyped, calVars
  <2> QED
    BY <1>7, <2>1, <2>2 DEF RunTypes, Pcs
<1> QED
  BY <1>2, <1>5, <1>6, <1>8, <1>9, <1>10, StepIInv DEF MapsOK

(* The run with hang_tmout decides whether the time-out is a hang.         *)
LEMMA JudgeRerunIInv ==
    ASSUME IInv, JudgeRerun
    PROVE  IInv'
<1>1. MapsTyped /\ CountsTyped /\ RunTypes /\ CalibrationTyped /\ at \in Pcs
  BY TypeParts DEF IInv
<1>2. /\ at = "reran"
      /\ unique_hangs' = unique_hangs + 1 \/ unique_hangs' = unique_hangs
      /\ at' \in {"crash", "dry run", "idle"}
      /\ \/ UNCHANGED <<trace_bits, fault>>
         \/ trace_bits' = Blank /\ fault' = "FAULT_NONE"
      /\ UNCHANGED <<crash_mode, maps, fileVars, unique_tmouts, unique_crashes, calVars, witness>>
  BY DEF JudgeRerun, Return
<1>3. MapsOK'
  BY <1>2, MapsFrame DEF calVars
<1>4. OnItsWay'
  BY <1>2 DEF OnItsWay
<1>5. CountsTyped'
  <2>1. /\ unique_hangs \in Nat /\ unique_tmouts \in Nat
        /\ unique_hangs < KeepUniqueHang /\ unique_hangs < unique_tmouts
    <3>1. unique_hangs < KeepUniqueHang /\ unique_hangs < unique_tmouts
      BY <1>2 DEF IInv, OnItsWay
    <3> QED
      BY <1>1, <3>1, Numbers DEF CountsTyped
  <2>2. unique_hangs' \in 0 .. KeepUniqueHang /\ unique_hangs' <= unique_tmouts
    <3>1. unique_hangs' = unique_hangs + 1 \/ unique_hangs' = unique_hangs
      BY <1>2
    <3> QED
      BY <2>1, <3>1, Numbers
  <2> QED
    BY <1>1, <1>2, <2>2 DEF CountsTyped
<1>6. MapsTyped' /\ CalibrationTyped' /\ at' \in Pcs
  BY <1>1, <1>2 DEF MapsTyped, CalibrationTyped, maps, fileVars, calVars, Pcs
<1>7. RunTypes'
  <2>1. Blank \in [Map -> Bits]
    BY DEF Blank, Bits
  <2> QED
    BY <1>1, <1>2, <2>1 DEF RunTypes, Faults
<1> QED
  BY <1>2, <1>3, <1>4, <1>5, <1>6, <1>7, StepIInv

(* A crash is compared with the earlier ones.                              *)
LEMMA JudgeCrashIInv ==
    ASSUME IInv, JudgeCrash
    PROVE  IInv'
<1> DEFINE simple == simplify_trace(trace_bits)
           unique == Differs(simple, virgin_crash)
<1>1. MapsTyped /\ CountsTyped /\ RunTypes /\ CalibrationTyped /\ at \in Pcs
  BY TypeParts DEF IInv
<1>2. /\ unique_crashes < KeepUniqueCrash
      /\ virgin_crash' = Touched(simple, virgin_crash)
      /\ unique_crashes' = IF unique THEN unique_crashes + 1 ELSE unique_crashes
      /\ crashed' = crashed \cup {Hit(trace_bits)}
      /\ Return
      /\ UNCHANGED <<crash_mode, virgin_bits, virgin_tmout, fileVars, unique_tmouts,
                     unique_hangs, calVars, seen, hangs>>
  BY DEF JudgeCrash
<1>3. simple \in [Map -> Bits] /\ Blank \in [Map -> Bits]
  BY SimplifiedType DEF Blank, Bits
<1>4. /\ TellsApart(Touched(simple, virgin_crash), crashed \cup {Hit(trace_bits)})
      /\ Touched(simple, virgin_crash) \in [Map -> Bits]
  BY <1>1, <1>3, SimplifiedTells, NothingNew DEF IInv, MapsTyped, RunTypes
<1> HIDE DEF simple, unique
<1>5. TellsApart(virgin_tmout, hangs)' /\ TellsApart(virgin_crash, crashed)'
  BY <1>2, <1>4 DEF IInv, TellsApart
<1>6. UnseenExact' /\ BitmapOnDisk' /\ ChecksumJudged'
  BY <1>2 DEF IInv, UnseenExact, BitmapOnDisk, ChecksumJudged, fileVars, calVars
<1>7. at' \in {"dry run", "idle"} /\ trace_bits' \in [Map -> Bits] /\ fault' \in Faults
  BY <1>2, <1>3 DEF Return, Faults
<1>8. CountsTyped'
  <2>1. unique_crashes' \in 0 .. KeepUniqueCrash
    BY <1>1, <1>2, Numbers DEF CountsTyped
  <2> QED
    BY <1>1, <1>2, <2>1 DEF CountsTyped
<1>9. OnItsWay'
  BY <1>7 DEF OnItsWay
<1>10. MapsTyped' /\ CalibrationTyped' /\ RunTypes' /\ at' \in Pcs
  <2>1. MapsTyped'
    BY <1>1, <1>2, <1>4 DEF MapsTyped, fileVars
  <2>2. CalibrationTyped'
    BY <1>1, <1>2 DEF CalibrationTyped, calVars
  <2> QED
    BY <1>7, <2>1, <2>2 DEF RunTypes, Pcs
<1> QED
  BY <1>2, <1>5, <1>6, <1>8, <1>9, <1>10, StepIInv DEF MapsOK

(* Every step keeps the invariant.                                         *)
LEMMA NextIInv == IInv /\ [CoverageNext]_coverageVars => IInv'
<1> SUFFICES ASSUME IInv, [CoverageNext]_coverageVars PROVE IInv'
  OBVIOUS
<1>1. CASE CoverageNext
  BY <1>1, MovesIInv, CompareIInv, KeepCaseIInv, JudgeTmoutIInv, JudgeRerunIInv, JudgeCrashIInv
     DEF CoverageNext, Calibration, Saving
<1>2. CASE UNCHANGED coverageVars
  <2>1. UNCHANGED <<crash_mode, maps, trace_bits, fileVars, uniques, calVars, fault, at, witness>>
    BY <1>2 DEF coverageVars
  <2>2. MapsOK'
    BY <2>1, MapsFrame DEF calVars
  <2>3. OnItsWay'
    BY <2>1 DEF IInv, OnItsWay, calVars, uniques
  <2>4. MapsTyped /\ CountsTyped /\ RunTypes /\ CalibrationTyped /\ at \in Pcs
    BY TypeParts DEF IInv
  <2>5. MapsTyped' /\ CountsTyped' /\ RunTypes' /\ CalibrationTyped' /\ at' \in Pcs
    BY <2>1, <2>4 DEF MapsTyped, CountsTyped, RunTypes, CalibrationTyped, maps, fileVars, uniques, calVars
  <2> QED
    BY <2>1, <2>2, <2>3, <2>5, StepIInv
<1> QED
  BY <1>1, <1>2

(* The maps of what was never seen, and what goes with them, in every      *)
(* campaign.                                                               *)
THEOREM Invariance == CoverageSpec => []IInv
<1>1. CoverageInit => IInv
  BY InitIInv
<1>2. IInv /\ [CoverageNext]_coverageVars => IInv'
  BY NextIInv
<1> QED
  BY <1>1, <1>2, PTL DEF CoverageSpec

-----------------------------------------------------------------------------
(* Between two test cases, virgin_bits has exactly the bits that no run in *)
(* use has shown, though calibration judges no run with a checksum it      *)
(* knows; and fuzz_bitmap has them too unless bitmap_changed is set.       *)
THEOREM VirginMapAlwaysTrue == CoverageSpec => []VirginMapTrue
<1>1. IInv => VirginMapTrue
  BY DEF IInv, VirginMapTrue, VirginIsUnseen, UnseenExact
<1> QED
  BY <1>1, Invariance, PTL

(* While there is room, a crash or a time-out is saved exactly if its      *)
(* tuples set it apart from all those put to the test before, also when    *)
(* the trace is that of a later run of the case.                           *)
THEOREM SavedAreDistinct == CoverageSpec => FaultsUnique
<1> DEFINE Unique ==
      /\ at = "crash" /\ at' = "idle" /\ unique_crashes < KeepUniqueCrash
         => (unique_crashes' > unique_crashes <=> Distinct(Hit(trace_bits), crashed))
      /\ at = "tmout" /\ unique_hangs < KeepUniqueHang
         => (unique_tmouts' > unique_tmouts <=> Distinct(Hit(trace_bits), hangs))
<1>1. ASSUME IInv, CoverageNext PROVE Unique
  <2>1. MapsTyped /\ CountsTyped /\ RunTypes
    BY <1>1, TypeParts DEF IInv
  <2>2. unique_tmouts \in Nat /\ unique_crashes \in Nat /\ unique_hangs \in Nat
    BY <2>1, Numbers DEF CountsTyped
  <2>3. ASSUME at = "crash", at' = "idle", unique_crashes < KeepUniqueCrash
        PROVE  unique_crashes' > unique_crashes <=> Distinct(Hit(trace_bits), crashed)
    <3>1. JudgeCrash
      BY <1>1, <2>2, <2>3, Numbers DEF CoverageNext, Calibration, Saving, write_bitmap, RunMutant, CalibrateQueue,
         StartFuzzing, CalibrationRun, Compare, AbortCalibration, FinishCalibration, SkipCase,
         KeepCase, PassOver, JudgeTmout, Rerun, JudgeRerun, EnoughSaved
    <3>2. unique_crashes' = IF Differs(simplify_trace(trace_bits), virgin_crash)
                            THEN unique_crashes + 1 ELSE unique_crashes
      BY <3>1 DEF JudgeCrash
    <3>3. Differs(simplify_trace(trace_bits), virgin_crash) <=> Distinct(Hit(trace_bits), crashed)
      BY <1>1, <2>1, SimplifiedTells DEF IInv, MapsTyped, RunTypes
    <3> QED
      BY <2>2, <3>2, <3>3
  <2>4. ASSUME at = "tmout", unique_hangs < KeepUniqueHang
        PROVE  unique_tmouts' > unique_tmouts <=> Distinct(Hit(trace_bits), hangs)
    <3>1. JudgeTmout
      BY <1>1, <2>4 DEF CoverageNext, Calibration, Saving, write_bitmap, RunMutant, CalibrateQueue,
         StartFuzzing, CalibrationRun, Compare, AbortCalibration, FinishCalibration, SkipCase,
         KeepCase, PassOver, JudgeCrash, Rerun, JudgeRerun, EnoughSaved, RoomForHang
    <3>2. unique_tmouts' = IF Differs(simplify_trace(trace_bits), virgin_tmout)
                           THEN unique_tmouts + 1 ELSE unique_tmouts
      BY <3>1 DEF JudgeTmout
    <3>3. Differs(simplify_trace(trace_bits), virgin_tmout) <=> Distinct(Hit(trace_bits), hangs)
      BY <1>1, <2>1, SimplifiedTells DEF IInv, MapsTyped, RunTypes
    <3> QED
      BY <2>2, <3>2, <3>3
  <2> QED
    BY <2>3, <2>4
<1>2. IInv /\ [CoverageNext]_coverageVars => [Unique]_coverageVars
  BY <1>1
<1> QED
  BY <1>2, Invariance, PTL DEF CoverageSpec, FaultsUnique
=============================================================================
