------------------------------ MODULE Startup -------------------------------
(***************************************************************************)
(* main of afl-fuzz up to its loop: the options one by one, the checks of  *)
(* what goes with what, the set-up, the dry run of every test case and the *)
(* opening of the log.                                                     *)
(***************************************************************************)
EXTENDS Naturals, Sequences

CONSTANTS
    Options,            \* those that may be given
    Seeds               \* test cases in the queue: 1 .. Seeds

VARIABLES
    stage,
    times,              \* how often each option has been given
    mem_limit,          \* "default", "qemu" or "given"
    timeout_given,      \* 0, 1 (-t n), 2 (-t n+) or 3 (taken from fuzzer_stats)
    flag,               \* the options whose flag or pointer is set
    skip_deterministic, use_splicing,
    failure,            \* the option a FATAL named, or another reason
    resuming_fuzz, skip_crashes,
    seed, result,       \* the dry run: the next test case, and what came of those before
    cal_failures,
    states_seen,        \* state_ids_count > 0
    stop_soon,
    log_file, last_log  \* "NULL" or "open"; what the last write found

options  == <<times, mem_limit, timeout_given, flag, skip_deterministic, use_splicing>>
settings == <<resuming_fuzz, skip_crashes>>
dry      == <<seed, result, cal_failures, states_seen>>
log      == <<log_file, last_log>>
vars     == <<stage, options, failure, settings, dry, stop_soon, log>>

Init ==
    /\ stage = "options" /\ times = [o \in Options |-> 0]
    /\ mem_limit = "default" /\ timeout_given = 0 /\ flag = {}
    /\ skip_deterministic = FALSE /\ use_splicing = FALSE
    /\ failure = "none"
    /\ resuming_fuzz \in BOOLEAN /\ skip_crashes \in BOOLEAN
    /\ seed = 1 /\ result = <<>> /\ cal_failures = 0 /\ states_seen = FALSE
    /\ stop_soon = FALSE /\ log_file = "NULL" /\ last_log = "none"

Fail(why) == /\ failure' = why /\ stage' = "failed"

-----------------------------------------------------------------------------
(* The option loop                                                         *)

\* Options that may be repeated: no flag is looked at.
Repeatable == {"q", "s"}

\* What an option sets, and what it finds set if it was given before.
FlagOf(o) == CASE o \in {"M", "S"} -> "sync_id"
               [] o \in {"t", "t+"} -> "timeout_given"
               [] OTHER -> o

\* The flag of -w is looked at when -W comes.
Tests(o) == IF o = "W" THEN "w" ELSE FlagOf(o)

MemLimitOf(o) ==
    IF o = "m" THEN "given"
    ELSE IF o = "Q" /\ "m" \notin flag THEN "qemu"
    ELSE mem_limit

\* Options with a value that can be refused, for its syntax, as too low (-t, -m, -l) or as unknown
\* (-P, and -M with a colon); is this one?
Parsed == {"t", "t+", "m", "M", "N", "D", "W", "w", "P", "q", "s", "l"}

ValueRefused(o) == IF o \in Parsed THEN BOOLEAN ELSE {FALSE}

GetOpt(o) ==
    /\ stage = "options" /\ o \in Options /\ times[o] < 2
    /\ times' = [times EXCEPT ![o] = @ + 1]
    /\ \E refused \in ValueRefused(o) :
         IF refused \/ (o \notin Repeatable /\ Tests(o) \in flag)
         THEN /\ Fail(o)
              /\ UNCHANGED <<mem_limit, timeout_given, flag, skip_deterministic, use_splicing>>
         ELSE /\ flag' = flag \cup {FlagOf(o)} \cup (IF o = "M" THEN {"force_deterministic"} ELSE {})
              /\ mem_limit' = MemLimitOf(o)
              /\ timeout_given' = CASE o = "t" -> 1 [] o = "t+" -> 2 [] OTHER -> timeout_given
              /\ skip_deterministic' = (skip_deterministic \/ o = "d")
              /\ use_splicing' = (use_splicing \/ o = "d")
              /\ UNCHANGED <<stage, failure>>
    /\ UNCHANGED <<settings, dry, stop_soon, log>>

Required == {"i", "o", "N", "P"}

Conflict ==
    \/ "sync_id" \in flag /\ ("n" \in flag \/ skip_deterministic)
    \/ "n" \in flag /\ ("C" \in flag \/ "Q" \in flag)

EndOptions ==
    /\ stage = "options"
    /\ IF \E o \in Required \cap Options : o \notin flag THEN Fail("usage")
       ELSE IF Conflict THEN Fail("conflict")
       ELSE \/ Fail("checks")       \* capabilities, sanitizer options, the same directory twice
            \/ stage' = "set-up" /\ UNCHANGED failure
    \* fix_up_sync: a secondary instance leaves the deterministic stages out
    /\ LET secondary == "sync_id" \in flag /\ "force_deterministic" \notin flag
       IN  /\ skip_deterministic' = (skip_deterministic \/ secondary)
           /\ use_splicing' = (use_splicing \/ secondary)
    /\ UNCHANGED <<times, mem_limit, timeout_given, flag, settings, dry, stop_soon, log>>

-----------------------------------------------------------------------------
(* The set-up and the dry run                                              *)

\* Directories, test cases, dictionary and binary: each may be the end.  find_timeout goes by what
\* an earlier session wrote, if there was one.  What is never asked again is forgotten here.
SetUp ==
    /\ stage = "set-up"
    /\ \/ Fail("set-up") /\ UNCHANGED timeout_given
       \/ /\ stage' = "dry run" /\ UNCHANGED failure
          /\ \/ UNCHANGED timeout_given
             \/ resuming_fuzz /\ timeout_given = 0 /\ timeout_given' = 3
    /\ times' = [o \in Options |-> 0] /\ mem_limit' = "default"
    /\ flag' = flag \cap {"C", "E"}
    /\ UNCHANGED <<skip_deterministic, use_splicing, settings, dry, stop_soon, log>>

crash_mode == "C" \in flag
state_aware_mode == "E" \in flag

\* Mutant: any -t tolerates test cases that time out.
AnyTimeout == timeout_given > 0

ToleratesTimeout == timeout_given > 1

Skips(res) ==
    \/ res = "tmout" /\ ToleratesTimeout
    \/ res = "crash" /\ ~crash_mode /\ skip_crashes

Accepts(res) ==
    \/ res = "nobits"
    \/ res = "none" /\ ~crash_mode
    \/ res = "crash" /\ crash_mode

\* update_state_aware_variables writes to the log first.  Without a stream that ends the program, or,
\* as nothing is defined, does no harm.
DryRunLog ==
    IF ~state_aware_mode THEN UNCHANGED <<states_seen, last_log>>
    ELSE /\ last_log' = log_file
         /\ states_seen' \in {states_seen, TRUE}

DryRunOne ==
    /\ stage = "dry run" /\ seed <= Seeds
    /\ \E res \in {"none", "tmout", "crash", "error", "noinst", "nobits"} :
         /\ result' = Append(result, res)
         /\ cal_failures' = IF Skips(res) THEN cal_failures + 1 ELSE cal_failures
         /\ \/ state_aware_mode /\ log_file = "NULL" /\ Fail("write to no stream")
            \/ IF stop_soon THEN stage' = "stopped" /\ UNCHANGED failure
               ELSE IF Skips(res) \/ Accepts(res) THEN UNCHANGED <<stage, failure>>
               ELSE Fail("dry run")
    /\ DryRunLog
    /\ seed' = seed + 1
    /\ UNCHANGED <<options, settings, stop_soon, log_file>>

EndDryRun ==
    /\ stage = "dry run" /\ seed > Seeds
    /\ IF cal_failures = Seeds THEN Fail("all skipped")
       ELSE stage' = (IF stop_soon THEN "stopped" ELSE "ready") /\ UNCHANGED failure
    /\ UNCHANGED <<options, settings, dry, stop_soon, log>>

\* Ctrl-C is noticed at the next test case, or before the loop.
Stop ==
    /\ stage \in {"dry run", "ready"} /\ ~stop_soon
    /\ stop_soon' = TRUE
    /\ UNCHANGED <<stage, options, failure, settings, dry, log>>

\* The log is opened, and the loop of the mode is entered.
Enter ==
    /\ stage = "ready"
    /\ \/ stop_soon /\ stage' = "stopped" /\ UNCHANGED <<failure, log_file>>
       \/ ~stop_soon /\ Fail("no log") /\ UNCHANGED log_file
       \/ /\ ~stop_soon /\ log_file' = "open"
          /\ IF state_aware_mode /\ ~states_seen THEN Fail("no states")
             ELSE stage' = "fuzzing" /\ UNCHANGED failure
    /\ UNCHANGED <<options, settings, dry, stop_soon, last_log>>

Next ==
    \/ \E o \in Options : GetOpt(o)
    \/ EndOptions \/ SetUp \/ DryRunOne \/ EndDryRun \/ Stop \/ Enter

Spec == Init /\ [][Next]_vars

-----------------------------------------------------------------------------
Given(o) == o \in Options /\ times[o] > 0

(* What the options leave behind depends on which were given and not on    *)
(* their order: the default of -Q gives way to -m before or after it, and  *)
(* the loop is entered in no mode that the checks exclude.                 *)
OptionsCommute ==
    stage \in {"options", "set-up"} =>
      /\ mem_limit = IF Given("m") THEN "given" ELSE IF Given("Q") THEN "qemu" ELSE "default"
      /\ timeout_given = IF Given("t") THEN 1 ELSE IF Given("t+") THEN 2 ELSE 0
      /\ stage = "set-up" =>
           /\ skip_deterministic = use_splicing
           /\ skip_deterministic <=> Given("d") \/ (Given("S") /\ ~Given("M"))
           /\ Given("n") => ~Given("C") /\ ~Given("Q") /\ ~Given("S") /\ ~Given("M")

(* The loop is entered with a test case to start from.  One that hangs in  *)
(* the dry run is passed over only for -t with a plus, or when the timeout *)
(* comes from the session that is resumed, and one that crashes only for   *)
(* AFL_SKIP_CRASHES; exploring crashes, one that does not is the end.      *)
StartsUsable ==
    stage = "fuzzing" =>
      /\ \E s \in 1 .. Seeds : result[s] \in {"nobits", IF crash_mode THEN "crash" ELSE "none"}
      /\ \A s \in 1 .. Seeds :
           /\ result[s] = "tmout" => timeout_given = 2 \/ (timeout_given = 3 /\ resuming_fuzz)
           /\ result[s] = "crash" => crash_mode \/ skip_crashes
           /\ result[s] = "none" => ~crash_mode

(* "Make sure that the information is written to the file at once": what   *)
(* update_state_aware_variables logs finds an open stream.                 *)
LogIsOpen == last_log # "NULL"
=============================================================================
