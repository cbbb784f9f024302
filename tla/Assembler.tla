----------------------------- MODULE Assembler ------------------------------
(***************************************************************************)
(* afl-as: an assembly file is copied line by line, and trampolines are    *)
(* put in: behind a conditional jump at once, at a label only when the     *)
(* first instruction after it comes.  Flags remember section, syntax, code *)
(* size and hand-written blocks from line to line.  Some directives afl-as *)
(* does not know or reads wrong; it has then lost the assembler, until the *)
(* next one that both take alike.                                          *)
(***************************************************************************)
EXTENDS Naturals

CONSTANTS
    MaxLines,           \* bound on the file
    Ratios              \* of AFL_INST_RATIO: "none", "some", "all"

Lines == {"text", "other section", "section .text", "section stack", "p2align", ".code16", ".code32", ".code64", ".intel_syntax", ".att_syntax",
          "#APP", "#NO_APP", "comment", "jcc", "instruction", "directive",
          "function label", "numbered label", "clang label", "other label"}
    \* "instruction" has the jumps that are not conditional, "comment" the lines that begin with a
    \* space, "section stack" .pushsection, .popsection, .previous and .subsection

VARIABLES
    pass_thru, clang_mode, use_64bit, inst_ratio,
    instr_ok, skip_csect, skip_next_label, skip_intel, skip_app, instrument_next,
    ins_lines,          \* has any trampoline been put in?
    payload,            \* is the main payload at the end?
    count, stage,
    section, syntax, code, app,     \* history: where the assembler is
    lost,               \* history: of these, what a line has said to one of the two only
    owed,               \* history: does a label wait for its trampoline? "yes", "no", "unknown"
    put                 \* history: the trampolines of this line, and what R(100) said

mode  == <<pass_thru, clang_mode, use_64bit, inst_ratio>>
flags == <<instr_ok, skip_csect, skip_next_label, skip_intel, skip_app, instrument_next>>
place == <<section, syntax, code, app, lost>>
vars  == <<mode, flags, ins_lines, payload, count, stage, place, owed, put>>

\* The code size that the trampolines are written in.
Width == IF use_64bit THEN 64 ELSE 32

Init ==
    /\ pass_thru \in BOOLEAN /\ clang_mode \in BOOLEAN /\ use_64bit \in BOOLEAN /\ inst_ratio \in Ratios
    /\ instr_ok = FALSE /\ skip_csect = FALSE /\ skip_next_label = FALSE
    /\ skip_intel = FALSE /\ skip_app = FALSE /\ instrument_next = FALSE
    /\ ins_lines = FALSE /\ payload = FALSE /\ count = 0 /\ stage = "lines"
    /\ section = "none" /\ syntax = "att" /\ code = Width /\ app = FALSE /\ lost = {}
    /\ owed = "no" /\ put = [before |-> FALSE, after |-> FALSE, drawn |-> FALSE]

-----------------------------------------------------------------------------
(* add_instrumentation                                                     *)

\* R(100) < inst_ratio
Chosen == CASE inst_ratio = "none" -> {FALSE} [] inst_ratio = "all" -> {TRUE} [] OTHER -> BOOLEAN

IsInstruction(l) == l \in {"jcc", "instruction"}

\* Mutant: a deferred trampoline comes at an instruction of a hand-written block too.
DeferredAnywhere(l) == ~pass_thru /\ ~skip_intel /\ ~skip_csect /\ instr_ok /\ instrument_next /\ IsInstruction(l)

Deferred(l) ==
    /\ ~pass_thru /\ ~skip_intel /\ ~skip_app /\ ~skip_csect /\ instr_ok
    /\ instrument_next /\ IsInstruction(l)

Skipping(l) ==
    \/ skip_intel' \/ skip_app' \/ skip_csect' \/ ~instr_ok'
    \/ l \in {"#APP", "#NO_APP", "comment"}

\* A label of the kind that branches go to.
IsTarget(l) == l = "numbered label" \/ (l = "clang label" /\ clang_mode)

\* What a label, or the p2align of a jump table, leaves for the lines that follow.
LabelSets(l, chosen) ==
    LET target == IsTarget(l) /\ chosen /\ ~Skipping(l)
    IN  /\ instrument_next' = \/ instrument_next /\ ~Deferred(l)
                              \/ l = "function label" /\ ~Skipping(l)
                              \/ target /\ ~skip_next_label
        /\ skip_next_label' = \/ l = "p2align" /\ ~clang_mode /\ instr_ok
                              \/ skip_next_label /\ ~target

ModeSets(l) ==
    /\ instr_ok' = CASE l = "text" -> TRUE
                     [] l \in {"other section", "section .text"} -> FALSE
                     [] OTHER -> instr_ok
    /\ skip_csect' = CASE l = ".code32" -> use_64bit
                       [] l = ".code64" -> ~use_64bit
                       [] OTHER -> skip_csect
    /\ skip_intel' = CASE l = ".intel_syntax" -> TRUE [] l = ".att_syntax" -> FALSE [] OTHER -> skip_intel
    /\ skip_app' = CASE l = "#APP" -> TRUE [] l = "#NO_APP" -> FALSE [] OTHER -> skip_app

\* What the assembler makes of the same line.
PlaceSets(l) ==
    /\ section' \in CASE l \in {"text", "section .text"} -> {"text"}
                      [] l = "other section" -> {"other"}
                      [] l = "section stack" -> {"text", "other"}
                      [] OTHER -> {section}
    /\ syntax' = CASE l = ".intel_syntax" -> "intel" [] l = ".att_syntax" -> "att" [] OTHER -> syntax
    /\ code' = CASE l = ".code16" -> 16 [] l = ".code32" -> 32 [] l = ".code64" -> 64 [] OTHER -> code
    /\ app' = CASE l = "#APP" -> TRUE [] l = "#NO_APP" -> FALSE [] OTHER -> app

Suits == section = "text" /\ syntax = "att" /\ code = Width /\ ~app

\* Where afl-as and the assembler part, and where they meet again.
LostSets(l) ==
    lost' = (lost \cup (IF l \in {"section .text", "section stack"} THEN {"section"}
                        ELSE IF l = ".code16" THEN {"code"} ELSE {}))
            \ (IF l \in {"text", "other section"} THEN {"section"}
                ELSE IF l \in {".code32", ".code64"} THEN {"code"} ELSE {})

\* A label that afl-as is to instrument, when it keeps step.
Due(l, chosen) ==
    ~pass_thru /\ Suits /\ (l = "function label" \/ (IsTarget(l) /\ chosen /\ ~skip_next_label))

OwedSets(l, chosen) ==
    owed' = IF lost' # {} THEN "unknown"
            ELSE IF Suits /\ IsInstruction(l) THEN "no"
            ELSE IF Due(l, chosen) THEN "yes" ELSE owed

ReadLine(l) ==
    /\ stage = "lines" /\ count < MaxLines
    /\ count' = count + 1
    /\ PlaceSets(l) /\ LostSets(l)
    /\ \E chosen \in Chosen :
         /\ IF pass_thru THEN UNCHANGED flags ELSE ModeSets(l) /\ LabelSets(l, chosen)
         /\ put' = [before |-> Deferred(l),
                    after  |-> ~pass_thru /\ l = "jcc" /\ chosen /\ ~Skipping(l),
                    drawn  |-> chosen]
         /\ OwedSets(l, chosen)
    /\ ins_lines' = (ins_lines \/ put'.before \/ put'.after)
    /\ UNCHANGED <<mode, payload, stage>>

EndOfFile ==
    /\ stage = "lines"
    /\ payload' = ins_lines
    /\ stage' = "assembled"
    /\ UNCHANGED <<mode, flags, ins_lines, count, place, owed, put>>

Next == EndOfFile \/ \E l \in Lines : ReadLine(l)

Spec == Init /\ [][Next]_vars

-----------------------------------------------------------------------------
(* Unless a directive has been read that the two understand differently,  *)
(* a trampoline is put only where the assembler reads AT&T code of the     *)
(* width it is written in, in .text and outside hand-written blocks; the   *)
(* first such instruction behind a label that is to be instrumented has    *)
(* one in front of it, however many directives, blocks and sections lie    *)
(* between, and no other has; a conditional jump there has one behind it   *)
(* exactly if the ratio chooses it.                                        *)
PutWell ==
    \A l \in Lines : ReadLine(l) /\ lost = {} =>
      /\ put'.before \/ put'.after => Suits
      /\ Suits /\ IsInstruction(l) /\ owed # "unknown" => (put'.before <=> owed = "yes")
      /\ Suits /\ ~pass_thru => (put'.after <=> l = "jcc" /\ put'.drawn)

TrampolinesFit == [][PutWell]_vars
=============================================================================
