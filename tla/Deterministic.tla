--------------------------- MODULE Deterministic ----------------------------
(***************************************************************************)
(* The deterministic stages of fuzz_one on one message, from the walking   *)
(* bits to the dictionaries, with the effector map they consult and the    *)
(* tokens the first of them collects.  A step is one position of a stage   *)
(* with all it executes there.                                             *)
(***************************************************************************)
EXTENDS Dictionary, FiniteSetsExt

CONSTANTS
    ARITH_MAX, EFF_BLOCK, EFF_MIN_LEN, EFF_MAX_PERC, MAX_FILE, MAX_DET_EXTRAS,
    interesting_8,
    no_arith, dumb_mode,
    Messages,                  \* in_buf
    Dictionaries,              \* the user's
    Tokens,                    \* the files of an earlier session, and what this one has found
    Paths                      \* checksums of other paths than the seed's

ASSUME SizesAssumption ==
    /\ Bits \in Nat /\ Bits >= 4 /\ EFF_BLOCK \in Nat \ {0} /\ ARITH_MAX \in Nat
    /\ USE_AUTO_EXTRAS \in Nat /\ MAX_AUTO_EXTRAS \in Nat
    /\ 2 * USE_AUTO_EXTRAS <= MAX_AUTO_EXTRAS
    /\ interesting_8 \in Seq(Int) /\ interesting_16 \in Seq(Int) /\ interesting_32 \in Seq(Int)

\* The messages are not empty, and the lines of a dictionary and the tokens have bytes.
ASSUME InputsAssumption ==
    /\ Messages \subseteq Seq(Byte) \ {<<>>}
    /\ \A d \in Dictionaries :
          /\ Len(d.lines) \in Nat /\ DOMAIN d.lines = 1..Len(d.lines)
          /\ \A k \in DOMAIN d.lines : d.lines[k].token \in Seq(Byte)
    /\ \A t \in Tokens : t.files \in Seq(Seq(Byte)) /\ t.earlier \in Seq(Seq(Byte))

VARIABLES
    stage, pos,                \* which stage, and the next position of it
    in_buf, out_buf,
    eff_map, eff_cnt,
    stage_cur, stage_max,
    a_len, prev_cksum,         \* of the token that is collected, which ends before pos
    extras, a_extras, auto_changed, auto_files,
    passed_det,
    tried                      \* the buffers executed in this turn

message == <<in_buf, out_buf>>
effects == <<eff_map, eff_cnt>>
counts  == <<stage_cur, stage_max>>
collecting == <<a_len, prev_cksum>>
tokens  == <<extras, a_extras, auto_changed, auto_files>>
stagesVars    == <<stage, pos, message, effects, counts, collecting, tokens, passed_det, tried>>

exec_cksum == "seed"           \* of the message as it is

len == Len(in_buf)

\* Put word into buf at i.
Put(buf, i, word) ==
    [k \in DOMAIN buf |-> IF k \in i..i + Len(word) - 1 THEN word[k - i + 1] ELSE buf[k]]

WordAt(buf, i, width) == SubSeq(buf, i, i + width - 1)

(***************************************************************************)
(* What an earlier stage may have tried                                    *)
(***************************************************************************)
Bit(x, b) == (x \div 2^b) % 2

\* The set bits of xor_val, from the lowest.
DifferingBits(old, new) ==
    {b \in 0..Bits * Len(old) - 1 :
        Bit(old[b \div Bits + 1], b % Bits) # Bit(new[b \div Bits + 1], b % Bits)}

Adjacent(bits) == bits = Min(bits)..Max(bits)

\* Mutant: bytes are looked for at every bit.
could_be_shifted_bitflip(old, new) ==
    LET bits == DifferingBits(old, new) IN
    bits = {} \/ (Adjacent(bits) /\ Cardinality(bits) \in {1, 2, 3, 4, Bits, 2 * Bits, 4 * Bits})

could_be_bitflip(old, new) ==
    LET bits == DifferingBits(old, new) IN
    \/ bits = {}
    \/ /\ Adjacent(bits)
       /\ \/ Cardinality(bits) \in {1, 2, 4}
          \/ Min(bits) % Bits = 0 /\ Cardinality(bits) \in {Bits, 2 * Bits, 4 * Bits}

Near(old, new, width) ==
    \/ (Value(old) - Value(new)) % 2^(Bits * width) <= ARITH_MAX
    \/ (Value(new) - Value(old)) % 2^(Bits * width) <= ARITH_MAX

\* One unit of the word, of width bytes, differs.
OneUnit(old, new, width) ==
    {u \in 0..(Len(old) \div width) - 1 :
        WordAt(old, u * width + 1, width) # WordAt(new, u * width + 1, width)}

NearUnit(old, new, width, swapped) ==
    LET differing == OneUnit(old, new, width) IN
    /\ Cardinality(differing) = 1
    /\ \E u \in differing :
         LET ov == WordAt(old, u * width + 1, width)
             nv == WordAt(new, u * width + 1, width)
         IN Near(ov, nv, width) \/ (swapped /\ Near(Reverse(ov), Reverse(nv), width))

could_be_arith(old, new) ==
    \/ old = new
    \/ NearUnit(old, new, 1, FALSE)
    \/ Len(old) > 1 /\ NearUnit(old, new, 2, TRUE)
    \/ Len(old) = 4 /\ (Near(old, new, 4) \/ Near(Reverse(old), Reverse(new), 4))

Words8  == {Word(v, 1) : v \in ToSet(interesting_8)}
Words16 == {Word(v, 2) : v \in ToSet(interesting_16)}
Swapped16 == {Reverse(word) : word \in Words16}
Words32 == {Word(v, 4) : v \in ToSet(interesting_32)}

\* new is old with one of words, which are width bytes long, in it.
OneInserted(old, new, width, words) ==
    \E i \in 1..Len(old) - width + 1 :
       LET word == WordAt(new, i, width) IN word \in words /\ new = Put(old, i, word)

could_be_interest(old, new, check_le) ==
    \/ old = new
    \/ OneInserted(old, new, 1, Words8)
    \/ (Len(old) > 2 \/ check_le) /\ OneInserted(old, new, 2, Words16)
    \/ Len(old) > 2 /\ OneInserted(old, new, 2, Swapped16)
    \/ Len(old) = 4 /\ check_le /\ new \in Words32

(***************************************************************************)
(* The candidates of a position: the words tried there, and those passed   *)
(* over, of which each takes one from stage_max.                           *)
(***************************************************************************)
\* j is added to a word or taken from it, as little or big endian.
Arith(word, j, swapped) ==
    IF swapped THEN Reverse(Word(Value(Reverse(word)) + j, Len(word)))
    ELSE Word(Value(word) + j, Len(word))

\* More than half of the word changes: the lower half has a carry or a borrow.
Carries(word, j, swapped) ==
    LET w    == IF swapped THEN Reverse(word) ELSE word
        half == Value(SubSeq(w, 1, Len(w) \div 2)) + j
    IN half < 0 \/ half >= 2^(Bits * (Len(w) \div 2))

ArithCandidates(word) ==
    {c \in ((-ARITH_MAX..ARITH_MAX) \ {0}) \X BOOLEAN : Len(word) > 1 \/ ~c[2]}

ArithTried(word, c) ==
    /\ Len(word) = 1 \/ Carries(word, c[1], c[2])
    /\ ~could_be_bitflip(word, Arith(word, c[1], c[2]))

Interesting(width) ==
    IF width = 1 THEN interesting_8 ELSE IF width = 2 THEN interesting_16 ELSE interesting_32

InterestCandidates(width) ==
    {c \in (DOMAIN Interesting(width)) \X BOOLEAN : width > 1 \/ ~c[2]}

InterestWord(width, c) ==
    LET word == Word(Interesting(width)[c[1]], width) IN IF c[2] THEN Reverse(word) ELSE word

InterestTried(word, c) ==
    LET new == InterestWord(Len(word), c) IN
    /\ c[2] => new # Reverse(new)
    /\ ~could_be_bitflip(word, new)
    /\ ~could_be_arith(word, new)
    /\ Len(word) > 1 => ~could_be_interest(word, new, c[2])

(***************************************************************************)
(* The stages, their order and their lengths                               *)
(***************************************************************************)
Flips  == <<1, 2, 4>>
Stages ==
    <<"flip1", "flip2", "flip4", "flip8", "flip16", "flip32", "arith8", "arith16", "arith32",
      "int8", "int16", "int32", "ext_UO", "ext_UI", "ext_AO">>

Width(s) ==
    IF s \in {"flip16", "arith16", "int16"} THEN 2
    ELSE IF s \in {"flip32", "arith32", "int32"} THEN 4 ELSE 1

AutoUsed == Shorter(Len(a_extras), USE_AUTO_EXTRAS)

\* The gotos: skip_bitflip, skip_arith, skip_interest, skip_user_extras, skip_extras.
Applies(s) ==
    /\ Width(s) <= len
    /\ s \in {"arith8", "arith16", "arith32", "int16", "int32"} => ~no_arith
    /\ s \in {"ext_UO", "ext_UI"} => extras # <<>>
    /\ s = "ext_AO" => a_extras # <<>>

Positions(s) ==
    IF s = "flip1" THEN Bits * len ELSE IF s = "flip2" THEN Bits * len - 1
    ELSE IF s = "flip4" THEN Bits * len - 3
    ELSE IF s = "ext_UI" THEN len + 1 ELSE len - Width(s) + 1

\* What a stage tries, or passes over, at one position.
Mutants(s) ==
    CASE s = "arith8"               -> 2 * ARITH_MAX
      [] s \in {"arith16", "arith32"} -> 4 * ARITH_MAX
      [] s = "int8"                 -> Len(interesting_8)
      [] s \in {"int16", "int32"}   -> 2 * Len(Interesting(Width(s)))
      [] s \in {"ext_UO", "ext_UI"} -> Len(extras)
      [] s = "ext_AO"               -> AutoUsed
      [] OTHER                      -> 1

\* The insertions behind the last byte are not counted.
StageMax(s) == Mutants(s) * (IF s = "ext_UI" THEN len ELSE Positions(s))

EFF_APOS(p) == (p - 1) \div EFF_BLOCK
EFF_ALEN    == EFF_APOS(len) + 1

\* A flagged byte in the width bytes from i.
Effective(i, width) == \E k \in i..i + width - 1 : eff_map[EFF_APOS(k)]

\* eff_map is made before flip8, with its first and last block flagged.
InitialEffects ==
    /\ eff_map' = [b \in 0..EFF_ALEN - 1 |-> b \in {0, EFF_APOS(len)}]
    /\ eff_cnt' = Cardinality({0, EFF_APOS(len)})

\* Behind flip8: a map that is dense is filled.
FinishEffects ==
    LET dense == eff_cnt # EFF_ALEN /\ (eff_cnt * 100) \div EFF_ALEN > EFF_MAX_PERC IN
    /\ eff_map' = IF dense THEN [b \in DOMAIN eff_map |-> TRUE] ELSE eff_map
    /\ UNCHANGED eff_cnt

(***************************************************************************)
(* The steps                                                               *)
(***************************************************************************)
\* The tokens that earlier turns of the session found, after those of its files.
Found(files, earlier) ==
    AddedInTurn(load_auto(files), extras, earlier)

\* The buffers of fuzz_one, in any turn of a session.
StagesInit ==
    /\ in_buf \in Messages /\ out_buf = in_buf
    /\ stage = "flip1" /\ pos = 1 /\ stage_cur = 0 /\ stage_max = Bits * Len(in_buf)
    /\ a_len = 0 /\ prev_cksum = exec_cksum
    /\ eff_map = <<>> /\ eff_cnt = 1
    /\ passed_det = FALSE /\ tried = {}
    /\ extras \in {<<>>} \cup UNION {load_extras(d) : d \in Dictionaries}
    /\ \E t \in Tokens : auto_files = t.files /\ a_extras \in Found(t.files, t.earlier)
    /\ auto_changed = (a_extras # <<>>)

\* ran mutants are executed and skipped ones passed over, at one position.
Execute(bufs, ran, skipped) ==
    /\ tried' = tried \cup bufs
    /\ stage_cur' = stage_cur + ran /\ stage_max' = stage_max - skipped
    /\ pos' = pos + 1

At(stages) == stage \in stages /\ pos <= Positions(stage)

FlipBit(buf, b) ==
    LET k == b \div Bits + 1
        weight == Bits - 1 - (b % Bits)
    IN [buf EXCEPT ![k] = IF Bit(@, weight) = 1 THEN @ - 2^weight ELSE @ + 2^weight]

FlipBits(buf, first, n) ==
    FoldLeft(FlipBit, buf, [k \in 1..n |-> first + k - 1])

AddToken(mem) ==
    IF Readable(mem)
    THEN /\ a_extras' \in maybe_add_auto(a_extras, extras, mem)
         /\ auto_changed' = (auto_changed \/ a_extras' # a_extras)
    ELSE UNCHANGED <<a_extras, auto_changed>>

\* Behind the last bit of byte k: bytes that lead to one same path are one token.
Collect(k, cksum) ==
    LET collected == SubSeq(in_buf, k - a_len, k - 1) IN
    /\ IF k = len /\ cksum = prev_cksum THEN AddToken(Append(collected, in_buf[k]))
       ELSE IF cksum # prev_cksum THEN AddToken(collected)
       ELSE UNCHANGED <<a_extras, auto_changed>>
    /\ prev_cksum' = cksum
    /\ a_len' = (IF cksum = prev_cksum THEN a_len ELSE 0) + (IF cksum = exec_cksum THEN 0 ELSE 1)

WalkOneBit ==
    /\ At({"flip1"})
    /\ Execute({FlipBits(out_buf, pos - 1, 1)}, 1, 0)
    /\ IF ~dumb_mode /\ pos % Bits = 0
       THEN \E cksum \in Paths \cup {exec_cksum} : Collect(pos \div Bits, cksum)
       ELSE UNCHANGED <<collecting, a_extras, auto_changed>>
    /\ UNCHANGED <<stage, message, effects, extras, auto_files, passed_det>>

WalkBits ==
    /\ At({"flip2", "flip4"})
    /\ Execute({FlipBits(out_buf, pos - 1, IF stage = "flip2" THEN 2 ELSE 4)}, 1, 0)
    /\ UNCHANGED <<stage, message, effects, collecting, tokens, passed_det>>

Inverted(word) == [k \in DOMAIN word |-> 2^Bits - 1 - word[k]]

WalkByte ==
    /\ At({"flip8"})
    /\ Execute({Put(out_buf, pos, Inverted(WordAt(out_buf, pos, 1)))}, 1, 0)
    /\ \E same \in BOOLEAN :
         LET marks == /\ ~eff_map[EFF_APOS(pos)]
                      /\ (~dumb_mode /\ len >= EFF_MIN_LEN) => ~same
         IN /\ eff_map' = IF marks THEN [eff_map EXCEPT ![EFF_APOS(pos)] = TRUE] ELSE eff_map
            /\ eff_cnt' = IF marks THEN eff_cnt + 1 ELSE eff_cnt
    /\ UNCHANGED <<stage, message, collecting, tokens, passed_det>>

\* Nothing is tried where no byte has an effect.
PassOver ==
    /\ At({"flip16", "flip32", "arith8", "arith16", "arith32", "int8", "int16", "int32"})
    /\ ~Effective(pos, Width(stage))
    /\ Execute({}, 0, Mutants(stage))
    /\ UNCHANGED <<stage, message, effects, collecting, tokens, passed_det>>

WalkBytes ==
    /\ At({"flip16", "flip32"}) /\ Effective(pos, Width(stage))
    /\ Execute({Put(out_buf, pos, Inverted(WordAt(out_buf, pos, Width(stage))))}, 1, 0)
    /\ UNCHANGED <<stage, message, effects, collecting, tokens, passed_det>>

AddAndSubtract ==
    /\ At({"arith8", "arith16", "arith32"}) /\ Effective(pos, Width(stage))
    /\ LET orig  == WordAt(out_buf, pos, Width(stage))
           all   == ArithCandidates(orig)
           valid == {c \in all : ArithTried(orig, c)}
       IN Execute({Put(out_buf, pos, Arith(orig, c[1], c[2])) : c \in valid},
                  Cardinality(valid), Cardinality(all \ valid))
    /\ UNCHANGED <<stage, message, effects, collecting, tokens, passed_det>>

SetInteresting ==
    /\ At({"int8", "int16", "int32"}) /\ Effective(pos, Width(stage))
    /\ LET orig  == WordAt(out_buf, pos, Width(stage))
           all   == InterestCandidates(Width(stage))
           valid == {c \in all : InterestTried(orig, c)}
       IN Execute({Put(out_buf, pos, InterestWord(Width(stage), c)) : c \in valid},
                  Cardinality(valid), Cardinality(all \ valid))
    /\ UNCHANGED <<stage, message, effects, collecting, tokens, passed_det>>

\* One token over another at pos, if it is drawn, fits, changes the buffer and reaches a byte
\* that has an effect: the buffer is not restored between them.
OverwriteOnce(done, data, drawn) ==
    IF ~drawn \/ Len(data) > len - pos + 1 \/ WordAt(done.buf, pos, Len(data)) = data
       \/ ~Effective(pos, Len(data))
    THEN [done EXCEPT !.skipped = @ + 1]
    ELSE LET buf == Put(done.buf, pos, data) IN
         [buf |-> buf, bufs |-> done.bufs \cup {buf}, ran |-> done.ran + 1,
          skipped |-> done.skipped, last_len |-> Len(data)]

Overwrite(list, drawn) ==
    LET after[k \in 0..Len(list)] ==
          IF k = 0
          THEN [buf |-> out_buf, bufs |-> {}, ran |-> 0, skipped |-> 0, last_len |-> 0]
          ELSE OverwriteOnce(after[k - 1], list[k], k \in drawn)
        done == after[Len(list)]
    IN /\ Execute(done.bufs, done.ran, done.skipped)
       /\ out_buf' = Put(done.buf, pos, WordAt(in_buf, pos, done.last_len))
       /\ UNCHANGED <<stage, in_buf, effects, collecting, tokens, passed_det>>

\* Of a large dictionary some tokens are drawn.
OverwriteWithUserExtras ==
    /\ At({"ext_UO"})
    /\ \E drawn \in SUBSET DOMAIN extras :
         /\ Len(extras) <= MAX_DET_EXTRAS => drawn = DOMAIN extras
         /\ Overwrite(extras, drawn)

InsertUserExtras ==
    /\ At({"ext_UI"})
    /\ LET fit == {k \in DOMAIN extras : len + Len(extras[k]) <= MAX_FILE}
       IN Execute({SubSeq(out_buf, 1, pos - 1) \o extras[k] \o SubSeq(out_buf, pos, len) : k \in fit},
                  Cardinality(fit), Len(extras) - Cardinality(fit))
    /\ UNCHANGED <<stage, message, effects, collecting, tokens, passed_det>>

OverwriteWithAutoExtras ==
    /\ At({"ext_AO"})
    /\ Overwrite(Saved(a_extras), 1..AutoUsed)

\* The next stage that is not jumped over, or the mark that all are done and havoc.
EndStage ==
    /\ stage \in ToSet(Stages) /\ pos > Positions(stage)
    /\ LET here == CHOOSE k \in DOMAIN Stages : Stages[k] = stage
           left == {k \in DOMAIN Stages : k > here /\ Applies(Stages[k])}
       IN IF left = {}
          THEN stage' = "havoc" /\ passed_det' = TRUE /\ UNCHANGED <<counts, pos>>
          ELSE /\ stage' = Stages[Min(left)] /\ pos' = 1
               /\ stage_cur' = 0 /\ stage_max' = StageMax(stage')
               /\ UNCHANGED passed_det
    /\ IF stage = "flip4" THEN InitialEffects
       ELSE IF stage = "flip8" THEN FinishEffects ELSE UNCHANGED effects
    /\ a_len' = 0 /\ prev_cksum' = exec_cksum     \* not used again in this turn
    /\ UNCHANGED <<message, tokens, tried>>

\* save_auto, by show_stats within any execution and at the end of a session.  Only in the
\* first stage does it matter when.
SaveTokens ==
    /\ auto_changed /\ stage \in {"flip1", "havoc", "abandoned"}
    /\ auto_files' = Saved(a_extras) /\ auto_changed' = FALSE
    /\ UNCHANGED <<stage, pos, message, effects, counts, collecting, extras, a_extras, passed_det, tried>>

\* common_fuzz_stuff asks to abandon the entry: everything is freed.
Abandon ==
    /\ stage \in ToSet(Stages)
    /\ stage' = "abandoned" /\ pos' = 1 /\ out_buf' = in_buf
    /\ eff_map' = <<>> /\ eff_cnt' = 1 /\ stage_cur' = 0 /\ stage_max' = 0
    /\ a_len' = 0 /\ prev_cksum' = exec_cksum /\ tried' = {}
    /\ UNCHANGED <<in_buf, tokens, passed_det>>

\* The session ends, or dies before its tokens are saved, and is resumed.
Resume ==
    /\ stage \in {"havoc", "abandoned"}
    /\ stage' = "resumed"
    /\ a_extras' \in load_auto(auto_files) /\ auto_changed' = (a_extras' # <<>>)
    /\ pos' = 1 /\ eff_map' = <<>> /\ eff_cnt' = 1 /\ stage_cur' = 0 /\ stage_max' = 0
    /\ tried' = {}
    /\ UNCHANGED <<message, collecting, extras, auto_files, passed_det>>

StagesNext ==
    \/ WalkOneBit \/ WalkBits \/ WalkByte \/ PassOver \/ WalkBytes
    \/ AddAndSubtract \/ SetInteresting
    \/ OverwriteWithUserExtras \/ InsertUserExtras \/ OverwriteWithAutoExtras
    \/ EndStage \/ SaveTokens \/ Abandon \/ Resume

StagesSpec == StagesInit /\ [][StagesNext]_stagesVars

(***************************************************************************)
(* Properties                                                              *)
(***************************************************************************)
\* The dictionaries are sorted as the stages need them, and no token has a twin.
StagesTypes ==
    /\ stage \in ToSet(Stages) \cup {"havoc", "abandoned", "resumed"}
    /\ in_buf \in Messages /\ Len(out_buf) = len
    /\ stage_cur >= 0 /\ pos \in 1..Bits * len + 1
    /\ eff_cnt <= Cardinality({b \in DOMAIN eff_map : eff_map[b]}) + 1
    /\ Ordered(extras) /\ Ordered(Saved(a_extras)) /\ Len(a_extras) <= MAX_AUTO_EXTRAS
    /\ \A j, k \in DOMAIN a_extras : Same(a_extras[j].data, a_extras[k].data) => j = k

\* Between two positions of a stage the buffer is the original again, although the
\* dictionary stages restore only as many bytes as the last token had.
BufferRestored == out_buf = in_buf

\* What each stage was to do and what it did agree when it ends; only the insertions, which
\* go on behind the last byte, are that many more.
StageCounts ==
    stage \in ToSet(Stages) /\ pos > Positions(stage) =>
        stage_cur = stage_max + (IF stage = "ext_UI" THEN Len(extras) ELSE 0)

\* Bits that are adjacent in a number but not in its bytes.
AcrossBytes(old, new) ==
    LET bits == DifferingBits(old, new) IN
    /\ bits # {} /\ Adjacent(bits) /\ Cardinality(bits) \in {2, 4}
    /\ Min(bits) \div Bits # Max(bits) \div Bits

AllEffective(i, width) == \A k \in i..i + width - 1 : eff_map[EFF_APOS(k)]

\* Each word the stages promise to try, of bytes that have an effect, has been executed
\* when the entry is marked, although every stage passes over what it takes for tried.
\* The words whose change looks like a walking bit, and is none, are the exception.
NothingLost ==
    stage = "havoc" /\ passed_det /\ ~no_arith =>
        \A width \in {w \in {1, 2, 4} : w <= len}, i \in 1..len :
          i + width - 1 <= len /\ AllEffective(i, width) =>
            LET orig  == WordAt(in_buf, i, width)
                words == {Arith(orig, c[1], c[2]) : c \in ArithCandidates(orig)}
                           \cup {InterestWord(width, c) : c \in InterestCandidates(width)}
            IN \A new \in words :
                 \/ new = orig
                 \/ Put(in_buf, i, new) \in tried
                 \/ AcrossBytes(orig, new)

\* The stages try what they promise, count what they do and leave no trace in the buffer.
StagesSound == StagesTypes /\ BufferRestored /\ StageCounts /\ NothingLost

\* A token that is found in use again outlives the ones that are not: who leaves the list,
\* while it is running, has half of the list above it.
EvictsUnpopular ==
    [][stage' # "flip1" \/ stage # "flip1" \/
       \A k \in DOMAIN a_extras :
          (\A j \in DOMAIN a_extras' : ~Same(a_extras'[j].data, a_extras[k].data)) =>
             2 * Cardinality({j \in (DOMAIN a_extras) \ {k} : a_extras[j].hit_cnt >= a_extras[k].hit_cnt})
                >= MAX_AUTO_EXTRAS - 1]_stagesVars

\* The files hold the tokens in use or are known to be old, and what they hold is what a
\* resumed session has of them.
TokensSurvive ==
    /\ auto_changed \/ auto_files = Saved(a_extras) \/ a_extras = <<>>
    /\ \A list \in load_auto(Saved(a_extras)) :
         {list[k].data : k \in DOMAIN list} = ToSet(Saved(a_extras))

\* A token that earns its place keeps it, in the list and on disk.
TokensKept == []TokensSurvive /\ EvictsUnpopular
=============================================================================
