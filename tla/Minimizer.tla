----------------------------- MODULE Minimizer ------------------------------
(***************************************************************************)
(* afl-tmin: a file is made smaller and simpler as long as the target      *)
(* behaves as it did with the original.  Blocks are overwritten once, then *)
(* passes of deleting blocks, replacing symbols and replacing characters   *)
(* follow until one of them changes nothing.  A step runs the target once  *)
(* at most.  The target is deterministic and otherwise free: what it does  *)
(* with a file is decided when the file is first tried.                    *)
(***************************************************************************)
EXTENDS Integers, Sequences, FiniteSets

CONSTANTS
    InFiles,        \* what the input file may hold: sequences of characters
    SetSteps, SetMinSize,   \* TMIN_SET_STEPS, TMIN_SET_MIN_SIZE
    StartSteps,     \* TRIM_START_STEPS
    Checksums,      \* of the traces the target may leave; NoTuples is the empty one
    NoTuples

VARIABLES
    in_data, tmp_buf,
    stage,
    pos, block, prev_del,       \* set_pos, del_pos or i; set_len or del_len
    cur_pass, changed_any,
    crash_mode, exact_mode, exit_crash, orig_cksum,
    out_file,
    accepted, rejected          \* history: files tried, and what came of them

position == <<pos, block, prev_del>>
modes    == <<crash_mode, exact_mode, exit_crash, orig_cksum>>
history  == <<accepted, rejected>>
vars     == <<in_data, tmp_buf, stage, position, cur_pass, changed_any, modes, out_file, history>>

Char0    == 0       \* '0', which every character is replaced by
NotYet   == <<-1>>

Outcomes == [how : {"hangs", "killed", "fails", "exits"}, cksum : Checksums]

-----------------------------------------------------------------------------
(* run_target                                                              *)

Crashes(o) == o.how = "killed" \/ (o.how = "fails" /\ exit_crash)

ToBeKept(o) ==
    /\ o.how # "hangs"
    /\ Crashes(o) <=> crash_mode
    /\ (crash_mode /\ ~exact_mode) \/ o.cksum = orig_cksum

\* The target is given a file, and the file is worth keeping or not.
Run(file, keep) ==
    /\ \E o \in Outcomes : keep = ToBeKept(o)
    /\ IF keep THEN /\ file \notin rejected
                    /\ accepted' = accepted \cup {file} /\ UNCHANGED rejected
               ELSE /\ file \notin accepted
                    /\ rejected' = rejected \cup {file} /\ UNCHANGED accepted

-----------------------------------------------------------------------------
(* main                                                                    *)

Init ==
    /\ in_data \in InFiles /\ tmp_buf = NotYet
    /\ stage = "dry run"
    /\ pos = 0 /\ block = 0 /\ prev_del = FALSE
    /\ cur_pass = 0 /\ changed_any = FALSE
    /\ crash_mode = FALSE /\ orig_cksum = NoTuples
    /\ exact_mode \in BOOLEAN /\ exit_crash \in BOOLEAN
    /\ out_file = NotYet
    /\ accepted = {} /\ rejected = {}

\* The largest is above TMIN_MAX_FILE, which no file reaches.
Power2 == {2 ^ k : k \in 0 .. 24}
next_p2(val) == CHOOSE p \in Power2 : p >= val /\ \A r \in Power2 : r >= val => r >= p

SetLen == LET len == next_p2(Len(in_data) \div SetSteps)
          IN  IF len < SetMinSize THEN SetMinSize ELSE len

\* The first run says what there is to preserve; a hang or an empty trace ends it all.
DryRun ==
    /\ stage = "dry run"
    /\ \E o \in Outcomes :
         /\ crash_mode' = Crashes(o) /\ orig_cksum' = o.cksum
         /\ IF o.how = "hangs" \/ (~Crashes(o) /\ o.cksum = NoTuples)
              THEN stage' = "failed" /\ UNCHANGED <<block, accepted>>
              ELSE stage' = "normalize" /\ block' = SetLen /\ accepted' = {in_data}
    /\ UNCHANGED <<in_data, tmp_buf, pos, prev_del, cur_pass, changed_any, exact_mode,
                   exit_crash, out_file, rejected>>

\* Ctrl-C: the next run, or this one, is the last, and what has been kept so far is written.
Stop ==
    /\ stage \in {"dry run", "normalize", "delete", "symbols", "characters"}
    /\ stage' = "stopped"
    /\ out_file' = in_data
    /\ UNCHANGED <<in_data, tmp_buf, position, cur_pass, changed_any, modes, history>>

-----------------------------------------------------------------------------
(* minimize                                                                *)

EndOf(length) == IF pos + length < Len(in_data) THEN pos + length ELSE Len(in_data)

Zeroed(file, positions) == [i \in DOMAIN file |-> IF i \in positions THEN Char0 ELSE file[i]]

NormalizeBlock ==
    /\ stage = "normalize" /\ pos < Len(in_data)
    /\ LET file == Zeroed(in_data, pos + 1 .. EndOf(block))
       IN  IF file = in_data
             THEN UNCHANGED <<in_data, changed_any, history>>
             ELSE \E keep \in BOOLEAN :
                    /\ Run(file, keep)
                    /\ in_data' = IF keep THEN file ELSE in_data
                    /\ changed_any' = (changed_any \/ keep)
    /\ pos' = pos + block
    /\ UNCHANGED <<tmp_buf, stage, block, prev_del, cur_pass, modes, out_file>>

FirstDelLen(file) == next_p2(Len(file) \div StartSteps)

\* Mutant: changed_any is not reset.
NextPassOnceMore(file) ==
    /\ stage' = "delete" /\ pos' = 0 /\ prev_del' = TRUE
    /\ block' = FirstDelLen(file)
    /\ cur_pass' = IF cur_pass < 2 THEN cur_pass + 1 ELSE cur_pass
    /\ UNCHANGED changed_any

NextPass(file) ==
    /\ stage' = "delete" /\ pos' = 0 /\ prev_del' = TRUE
    /\ block' = FirstDelLen(file)
    /\ cur_pass' = IF cur_pass < 2 THEN cur_pass + 1 ELSE cur_pass  \* only > 1 is asked
    /\ changed_any' = FALSE

EndNormalization ==
    /\ stage = "normalize" /\ pos >= Len(in_data)
    /\ NextPass(in_data)
    /\ UNCHANGED <<in_data, tmp_buf, modes, out_file, history>>

WithoutBlock == SubSeq(in_data, 1, pos) \o SubSeq(in_data, pos + block + 1, Len(in_data))

\* A block that equals the one before it, which could not be deleted.
RepeatsLast ==
    /\ ~prev_del /\ pos + block < Len(in_data)
    /\ SubSeq(in_data, pos - block + 1, pos) = SubSeq(in_data, pos + 1, pos + block)

SkipBlock ==
    /\ stage = "delete" /\ pos < Len(in_data) /\ RepeatsLast
    /\ pos' = pos + block
    /\ UNCHANGED <<in_data, tmp_buf, stage, block, prev_del, cur_pass, changed_any, modes,
                   out_file, history>>

DeleteBlock ==
    /\ stage = "delete" /\ pos < Len(in_data) /\ ~RepeatsLast
    /\ \E keep \in BOOLEAN :
         /\ Run(WithoutBlock, keep)
         /\ in_data' = IF keep THEN WithoutBlock ELSE in_data
         /\ prev_del' = keep
         /\ pos' = IF keep THEN pos ELSE pos + block
         /\ changed_any' = (changed_any \/ keep)
    /\ UNCHANGED <<tmp_buf, stage, block, cur_pass, modes, out_file>>

HalveBlock ==
    /\ stage = "delete" /\ pos >= Len(in_data)
    /\ block > 1 /\ Len(in_data) >= 1
    /\ block' = block \div 2 /\ pos' = 0 /\ prev_del' = TRUE
    /\ UNCHANGED <<in_data, tmp_buf, stage, cur_pass, changed_any, modes, out_file, history>>

Finalize ==
    /\ stage' = "done" /\ out_file' = in_data
    /\ UNCHANGED <<in_data, tmp_buf, position, cur_pass, changed_any, modes, history>>

\* Symbols are tried in the order of their codes; pos is the one to try next.
EndDeletion ==
    /\ stage = "delete" /\ pos >= Len(in_data) /\ ~(block > 1 /\ Len(in_data) >= 1)
    /\ IF cur_pass > 1 /\ ~changed_any
         THEN Finalize
         ELSE /\ stage' = "symbols" /\ pos' = 0
              /\ UNCHANGED <<in_data, tmp_buf, block, prev_del, cur_pass, changed_any, modes,
                             out_file, history>>

Symbols == {in_data[i] : i \in DOMAIN in_data} \ {Char0}

ReplaceSymbol ==
    /\ stage = "symbols"
    /\ \E symbol \in Symbols :
         /\ symbol >= pos /\ \A other \in Symbols : other >= pos => other >= symbol
         /\ pos' = symbol + 1
         /\ LET file == Zeroed(in_data, {i \in DOMAIN in_data : in_data[i] = symbol})
            IN  \E keep \in BOOLEAN :
                  /\ Run(file, keep)
                  /\ in_data' = IF keep THEN file ELSE in_data
                  /\ changed_any' = (changed_any \/ keep)
    /\ UNCHANGED <<tmp_buf, stage, block, prev_del, cur_pass, modes, out_file>>

EndSymbols ==
    /\ stage = "symbols" /\ \A symbol \in Symbols : symbol < pos
    /\ stage' = "characters" /\ pos' = 0
    /\ tmp_buf' = in_data
    /\ UNCHANGED <<in_data, block, prev_del, cur_pass, changed_any, modes, out_file, history>>

\* Mutant: a character that has to stay is not put back.
NotPutBack(i) == Zeroed(tmp_buf, {i})
PutBack(i)    == tmp_buf

ReplaceCharacter ==
    /\ stage = "characters" /\ pos < Len(in_data)
    /\ IF tmp_buf[pos + 1] = Char0
         THEN UNCHANGED <<in_data, tmp_buf, changed_any, history>>
         ELSE \E keep \in BOOLEAN :
                /\ Run(Zeroed(tmp_buf, {pos + 1}), keep)
                /\ in_data' = IF keep THEN Zeroed(in_data, {pos + 1}) ELSE in_data
                /\ tmp_buf' = IF keep THEN Zeroed(tmp_buf, {pos + 1}) ELSE PutBack(pos + 1)
                /\ changed_any' = (changed_any \/ keep)
    /\ pos' = pos + 1
    /\ UNCHANGED <<stage, block, prev_del, cur_pass, modes, out_file>>

EndCharacters ==
    /\ stage = "characters" /\ pos >= Len(in_data)
    /\ IF changed_any
         THEN NextPass(in_data) /\ UNCHANGED <<in_data, tmp_buf, modes, out_file, history>>
         ELSE Finalize

Pass == SkipBlock \/ DeleteBlock \/ HalveBlock \/ EndDeletion \/ ReplaceSymbol \/ EndSymbols
            \/ ReplaceCharacter \/ EndCharacters
Work == DryRun \/ NormalizeBlock \/ EndNormalization \/ Pass
Next == Work \/ Stop

Spec == Init /\ [][Next]_vars /\ WF_vars(Work)

-----------------------------------------------------------------------------
(* Properties                                                              *)

\* What is kept, and written at the end or on a stop, has been run and behaved as the original
\* did: though two buffers are changed side by side and one of them is restored by hand.
KeptWasRun ==
    accepted # {} =>    \* the dry run is over
      /\ in_data \in accepted
      /\ out_file # NotYet => out_file \in accepted

Without(file, i) == SubSeq(file, 1, i - 1) \o SubSeq(file, i + 1, Len(file))

\* When it ends by itself no character can be deleted any more: blocks are passed over when they
\* repeat the one before, and the pass that decides may end before its later stages.
Minimal ==
    stage = "done" => \A i \in DOMAIN in_data : Without(in_data, i) \in rejected

\* Passes end, for every target: each change makes the file shorter or simpler.
MinimizeEnds == <>(stage \in {"done", "stopped", "failed"})
=============================================================================
