------------------------------- MODULE Havoc --------------------------------
(***************************************************************************)
(* The random part of fuzz_one: calculate_score and the length of the      *)
(* havoc stage, its stacked tweaks, and the splicing that sends it into    *)
(* further rounds.  A buffer is its size: a tweak is the length it leaves, *)
(* the size of the allocation behind it and the end of what it wrote.      *)
(***************************************************************************)
EXTENDS Integers

CONSTANTS
    MAX_FILE,
    HAVOC_BLK_SMALL, HAVOC_BLK_MEDIUM, HAVOC_BLK_LARGE, HAVOC_BLK_XL,
    HAVOC_CYCLES, HAVOC_CYCLES_INIT, HAVOC_MIN, HAVOC_MAX_MULT, SPLICE_HAVOC,
    SPLICE_CYCLES,
    Stacks,                   \* the numbers of tweaks of one mutant, 2^1 to 2^7 in the code
    havoc_div,                \* 1, or more for a slow target
    use_splicing, region_level_mutation,
    Lengths,                  \* bytes of M2 and of the entries to splice with
    TokenLengths,             \* bytes of the tokens of the dictionaries
    RegionLengths,            \* bytes of the regions of the queue
    ExecTimes, BitmapSizes, Handicaps, Depths,  \* of the seeds
    avg_exec_us, avg_bitmap_size                \* of the queue

Limit == HAVOC_MAX_MULT * 100

ASSUME SizesAssumption ==
    /\ MAX_FILE \in Nat \ {0} /\ HAVOC_BLK_SMALL \in Nat \ {0}
    /\ HAVOC_BLK_MEDIUM \in Nat /\ HAVOC_BLK_SMALL <= HAVOC_BLK_MEDIUM
    /\ HAVOC_BLK_LARGE \in Nat /\ HAVOC_BLK_MEDIUM <= HAVOC_BLK_LARGE
    /\ HAVOC_BLK_XL \in Nat /\ HAVOC_BLK_LARGE <= HAVOC_BLK_XL
    /\ Lengths \subseteq Nat \ {0} /\ TokenLengths \subseteq Nat \ {0}
    /\ RegionLengths \subseteq Nat \ {0}
    /\ Stacks \subseteq Nat

ASSUME RoundsAssumption ==
    /\ HAVOC_CYCLES \in Nat /\ HAVOC_CYCLES_INIT \in Nat /\ SPLICE_HAVOC \in Nat
    /\ HAVOC_CYCLES <= HAVOC_CYCLES_INIT /\ SPLICE_HAVOC <= HAVOC_CYCLES_INIT
    /\ HAVOC_MIN \in Nat /\ HAVOC_MAX_MULT \in Nat \ {0} /\ havoc_div \in Nat \ {0}
    /\ SPLICE_CYCLES \in Nat
    /\ use_splicing \in BOOLEAN /\ region_level_mutation \in BOOLEAN
    /\ ExecTimes \subseteq Nat /\ BitmapSizes \subseteq Nat /\ Handicaps \subseteq Nat
    /\ Depths \subseteq Nat /\ avg_exec_us \in Nat /\ avg_bitmap_size \in Nat

VARIABLES
    stage,                     \* "idle", "round", "tweak" or "splice"
    M2_len, len,               \* of the messages that are mutated, of in_buf now
    in_size, out_size,         \* allocated for in_buf and out_buf
    temp_len,
    stacked,                   \* tweaks still to do
    orig_perf, perf_score,
    stage_cur, stage_max,
    splice_cycle,
    handicap                   \* of the entry

buffers == <<M2_len, len, in_size, out_size, temp_len>>
rounds  == <<orig_perf, perf_score, stage_cur, stage_max>>
havocVars == <<stage, buffers, rounds, stacked, splice_cycle, handicap>>

MinOf(a, b) == IF a < b THEN a ELSE b

\* What UR(n) returns.
UR(n) == 0..n - 1

(***************************************************************************)
(* calculate_score: u32, and a product with a fraction is truncated.       *)
(***************************************************************************)
SpeedScore(exec_us) ==
    IF exec_us > 10 * avg_exec_us THEN 10
    ELSE IF exec_us > 4 * avg_exec_us THEN 25
    ELSE IF exec_us > 2 * avg_exec_us THEN 50
    ELSE IF 3 * exec_us > 4 * avg_exec_us THEN 75
    ELSE IF 4 * exec_us < avg_exec_us THEN 300
    ELSE IF 3 * exec_us < avg_exec_us THEN 200
    ELSE IF 2 * exec_us < avg_exec_us THEN 150
    ELSE 100

TimesCoverage(score, bitmap_size) ==
    IF 3 * bitmap_size > 10 * avg_bitmap_size THEN 3 * score
    ELSE IF bitmap_size > 2 * avg_bitmap_size THEN 2 * score
    ELSE IF 3 * bitmap_size > 4 * avg_bitmap_size THEN (3 * score) \div 2
    ELSE IF 3 * bitmap_size < avg_bitmap_size THEN score \div 4
    ELSE IF 2 * bitmap_size < avg_bitmap_size THEN score \div 2
    ELSE IF 3 * bitmap_size < 2 * avg_bitmap_size THEN (3 * score) \div 4
    ELSE score

TimesHandicap(score) ==
    IF handicap >= 4 THEN 4 * score ELSE IF handicap > 0 THEN 2 * score ELSE score

HandicapLeft == IF handicap >= 4 THEN handicap - 4 ELSE IF handicap > 0 THEN handicap - 1 ELSE 0

TimesDepth(score, depth) ==
    IF depth <= 3 THEN score ELSE IF depth <= 7 THEN 2 * score
    ELSE IF depth <= 13 THEN 3 * score ELSE IF depth <= 25 THEN 4 * score ELSE 5 * score

UpToLimit(score) == MinOf(score, Limit)

calculate_score(exec_us, bitmap_size, depth) ==
    UpToLimit(TimesDepth(TimesHandicap(TimesCoverage(SpeedScore(exec_us), bitmap_size)), depth))

(***************************************************************************)
(* choose_block_len: a range, unless its lower end is not below the limit. *)
(***************************************************************************)
BlockRanges ==
    {<<1, HAVOC_BLK_SMALL>>, <<HAVOC_BLK_SMALL, HAVOC_BLK_MEDIUM>>,
     <<HAVOC_BLK_MEDIUM, HAVOC_BLK_LARGE>>, <<HAVOC_BLK_LARGE, HAVOC_BLK_XL>>}

\* Mutant: the lower end stays although the limit is below it.
BlockLensOfRange(r, limit) == r[1]..r[1] + MinOf(r[2], limit)

LensOfRange(r, limit) ==
    LET min_value == IF r[1] >= limit THEN 1 ELSE r[1]
    IN {min_value + u : u \in UR(MinOf(r[2], limit) - min_value + 1)}

choose_block_len(limit) == UNION {LensOfRange(r, limit) : r \in BlockRanges}

(***************************************************************************)
(* The tweaks of havoc, as the lengths they may leave.                     *)
(***************************************************************************)
Tweak(n, size, end) == [len |-> n, size |-> size, end |-> end]

Nothing   == {Tweak(temp_len, out_size, 0)}
Resize(n) == Tweak(n, n, n)

\* Cases 0 to 10 set, add to or flip 1, 2 or 4 bytes somewhere.
SetBytes(width) ==
    IF temp_len < width THEN Nothing
    ELSE {Tweak(temp_len, out_size, at + width) : at \in UR(temp_len - width + 1)}

\* Cases 11 and 12: what is behind the hole moves down.
DeleteBytes ==
    IF temp_len < 2 THEN Nothing
    ELSE {Tweak(temp_len - n, out_size, temp_len - n) : n \in choose_block_len(temp_len - 1)}

\* Case 13: a part of the buffer or constant bytes are inserted.
CloneBytes ==
    IF temp_len + HAVOC_BLK_XL >= MAX_FILE THEN Nothing
    ELSE {Resize(temp_len + n) : n \in choose_block_len(temp_len) \cup choose_block_len(HAVOC_BLK_XL)}

\* Case 14: a part of the buffer or constant bytes overwrite another part.
OverwriteBytes ==
    IF temp_len < 2 THEN Nothing
    ELSE UNION {{Tweak(temp_len, out_size, to + n) : to \in UR(temp_len - n + 1)} :
                  n \in choose_block_len(temp_len - 1)}

\* Case 15
OverwriteToken ==
    UNION {IF n > temp_len THEN Nothing
           ELSE {Tweak(temp_len, out_size, at + n) : at \in UR(temp_len - n + 1)} :
             n \in TokenLengths}

\* Case 16
InsertToken ==
    UNION {IF temp_len + n >= MAX_FILE THEN Nothing ELSE {Resize(temp_len + n)} :
             n \in TokenLengths}

\* choose_source_region: none if the entry has no regions or its region is too long.
SourceRegions == {n \in RegionLengths : n <= MAX_FILE}

\* Case 17
ReplaceByRegion == {Resize(n) : n \in SourceRegions}

\* Cases 18 and 19, before the buffer or behind it.
AddRegion == {Resize(temp_len + n) : n \in {m \in SourceRegions : temp_len + m < MAX_FILE}}

\* Case 20
DuplicateRegion == IF temp_len * 2 >= MAX_FILE THEN Nothing ELSE {Resize(temp_len * 2)}

Tweaks ==
    Nothing \cup SetBytes(1) \cup SetBytes(2) \cup SetBytes(4) \cup DeleteBytes \cup CloneBytes
        \cup OverwriteBytes \cup OverwriteToken \cup InsertToken
        \cup (IF region_level_mutation THEN ReplaceByRegion \cup AddRegion \cup DuplicateRegion
              ELSE {})

(***************************************************************************)
(* The steps                                                               *)
(***************************************************************************)
HavocInit ==
    /\ stage = "idle" /\ stacked = 0 /\ splice_cycle = 0
    /\ M2_len = 0 /\ len = 0 /\ in_size = 0 /\ out_size = 0 /\ temp_len = 0
    /\ orig_perf = 0 /\ perf_score = 0 /\ stage_cur = 0 /\ stage_max = 0
    /\ handicap \in Handicaps

Rounds(cycles, score) ==
    LET n == ((cycles * score) \div havoc_div) \div 100 IN IF n < HAVOC_MIN THEN HAVOC_MIN ELSE n

\* havoc_stage, with in_buf and out_buf n bytes long.
StartHavoc(n, cycles, score) ==
    /\ stage' = "round"
    /\ len' = n /\ in_size' = n /\ out_size' = n /\ temp_len' = n
    /\ perf_score' = score /\ stage_cur' = 0 /\ stage_max' = Rounds(cycles, score)

\* The buffers are made and the entry gets its score; the deterministic stages, done or
\* not, leave the buffers as they are.
Begin ==
    /\ stage = "idle"
    /\ \E n \in Lengths, exec_us \in ExecTimes, bitmap_size \in BitmapSizes, depth \in Depths,
          doing_det \in BOOLEAN :
         LET score == calculate_score(exec_us, bitmap_size, depth) IN
         /\ M2_len' = n /\ orig_perf' = score
         /\ StartHavoc(n, IF doing_det THEN HAVOC_CYCLES_INIT ELSE HAVOC_CYCLES, score)
    /\ handicap' = HandicapLeft
    /\ splice_cycle' = 0 /\ UNCHANGED stacked

StartRound ==
    /\ stage = "round" /\ stage_cur < stage_max
    /\ stage' = "tweak" /\ \E n \in Stacks : stacked' = n
    /\ UNCHANGED <<buffers, rounds, splice_cycle, handicap>>

TweakOnce ==
    /\ stage = "tweak" /\ stacked > 0
    /\ \E t \in Tweaks : temp_len' = t.len /\ out_size' = t.size
    /\ stacked' = stacked - 1
    /\ UNCHANGED <<stage, M2_len, len, in_size, rounds, splice_cycle, handicap>>

Prolong ==
    IF perf_score <= Limit THEN stage_max' = stage_max * 2 /\ perf_score' = perf_score * 2
    ELSE UNCHANGED <<stage_max, perf_score>>

\* The mutant is executed, and the buffer gets its size and its contents back.
RunMutant ==
    /\ stage = "tweak" /\ stacked = 0
    /\ out_size' = IF temp_len < len THEN len ELSE out_size
    /\ temp_len' = len
    /\ \E found \in BOOLEAN : IF found THEN Prolong ELSE UNCHANGED <<stage_max, perf_score>>
    /\ stage_cur' = stage_cur + 1 /\ stage' = "round"
    /\ UNCHANGED <<M2_len, len, in_size, orig_perf, stacked, splice_cycle, handicap>>

\* Everything is freed.
EndFuzzOne ==
    /\ stage' = "idle" /\ splice_cycle' = 0
    /\ M2_len' = 0 /\ len' = 0 /\ in_size' = 0 /\ out_size' = 0 /\ temp_len' = 0
    /\ orig_perf' = 0 /\ perf_score' = 0 /\ stage_cur' = 0 /\ stage_max' = 0
    /\ UNCHANGED <<stacked, handicap>>

\* common_fuzz_stuff gives up: too many timeouts, a request to skip, or the end.
Abandon == stage = "tweak" /\ stacked = 0 /\ EndFuzzOne

EndRounds ==
    /\ stage = "round" /\ stage_cur >= stage_max
    /\ stage' = "splice"
    /\ UNCHANGED <<buffers, rounds, stacked, splice_cycle, handicap>>

MaySplice == use_splicing /\ splice_cycle < SPLICE_CYCLES /\ M2_len > 1

EndSplicing == stage = "splice" /\ ~MaySplice /\ EndFuzzOne

\* in_buf is the original again; there is no other entry, or none of its length, or the
\* two hardly differ.
RetrySplicing ==
    /\ stage = "splice" /\ MaySplice
    /\ splice_cycle' = splice_cycle + 1
    /\ len' = M2_len /\ in_size' = M2_len
    /\ UNCHANGED <<stage, M2_len, out_size, temp_len, rounds, stacked, handicap>>

\* Where the first and the last differing byte of n may be (locate_diffs).
Differences(n) == {d \in (0..n - 1) \X (0..n - 1) : d[1] <= d[2]}

MaySplit(d) == d[2] >= 2 /\ d[1] # d[2]

\* Mutant: only the attempts that fail are counted.
SpliceUncounted ==
    /\ stage = "splice" /\ MaySplice
    /\ \E n \in Lengths :
         /\ n >= 2 /\ \E d \in Differences(MinOf(M2_len, n)) : MaySplit(d)
         /\ StartHavoc(n, SPLICE_HAVOC, orig_perf)
    /\ UNCHANGED <<M2_len, orig_perf, stacked, splice_cycle, handicap>>

SpliceWithOther ==
    /\ stage = "splice" /\ MaySplice
    /\ \E n \in Lengths :
         /\ n >= 2 /\ \E d \in Differences(MinOf(M2_len, n)) : MaySplit(d)
         /\ StartHavoc(n, SPLICE_HAVOC, orig_perf)
    /\ splice_cycle' = splice_cycle + 1
    /\ UNCHANGED <<M2_len, orig_perf, stacked, handicap>>

Step ==
    \/ StartRound \/ TweakOnce \/ RunMutant \/ Abandon \/ EndRounds
    \/ EndSplicing \/ RetrySplicing \/ SpliceWithOther

HavocNext == Begin \/ Step

\* The process runs.
HavocSpec == HavocInit /\ [][HavocNext]_havocVars /\ WF_havocVars(Step)

(***************************************************************************)
(* Properties                                                              *)
(***************************************************************************)
HavocTypes ==
    /\ stage \in {"idle", "round", "tweak", "splice"}
    /\ M2_len \in Nat /\ len \in Nat /\ in_size \in Nat /\ out_size \in Nat /\ temp_len \in Nat
    /\ orig_perf \in Nat /\ perf_score \in Nat /\ stage_cur \in Nat /\ stage_max \in Nat
    /\ stacked \in Nat /\ splice_cycle \in 0..SPLICE_CYCLES /\ handicap \in Nat

\* No tweak, however they are stacked, writes behind out_buf or empties it, none makes a
\* mutant longer than MAX_FILE, and the original fits when it is copied back.
BuffersHold ==
    stage = "tweak" =>
        /\ temp_len > 0 /\ temp_len <= out_size
        /\ len <= in_size /\ (stacked = 0 /\ temp_len >= len => len <= out_size)
        /\ \A t \in Tweaks :
             /\ t.len > 0 /\ t.len <= t.size /\ t.end <= t.size
             /\ t.len <= MAX_FILE \/ t.len <= temp_len

\* The longest havoc stage without finds.
LongestStart == Rounds(HAVOC_CYCLES_INIT, Limit)

\* The score is never 0 and finds cannot prolong a stage for ever: it is doubled with the
\* score, which ends at twice its limit.
HavocBounded ==
    stage # "idle" =>
        /\ orig_perf >= 1 /\ orig_perf <= Limit /\ perf_score <= 2 * Limit
        /\ stage_max * orig_perf <= LongestStart * perf_score

\* A tweak never leaves the allocations it works on, and no stage exceeds its limits.
HavocSound == HavocTypes /\ BuffersHold /\ HavocBounded

\* fuzz_one ends, whatever it finds and however often splicing fails.
FuzzOneEnds == (stage # "idle") ~> (stage = "idle")
=============================================================================
