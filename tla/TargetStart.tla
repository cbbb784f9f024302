---------------------------- MODULE TargetStart -----------------------------
(***************************************************************************)
(* From a command line to the target that is executed: the option loops of *)
(* afl-tmin, afl-showmap and afl-analyze, the environment they leave to    *)
(* the target, the search for the program, its arguments with @@ replaced, *)
(* and the detour by QEMU.  afl-fuzz does the same after its own options,  *)
(* which are in Startup, and looks into the program besides.               *)
(*                                                                         *)
(* An argument is a sequence of pieces, @@ one of them.                    *)
(***************************************************************************)
EXTENDS Naturals, Sequences, SequencesExt

CONSTANTS
    Options,            \* by program, the options that may be given
    CommandLines        \* of targets: the name and the arguments

VARIABLES
    program, stage, failure,
    flag,               \* the options whose variable is set
    mem_limit, none_given,
    exec_tmout, use_stdin,
    file,               \* prog_in, at_file or out_file: the name of the input, or "none"
    quiet_mode, cmin_mode,
    user,               \* history: the command line of the target
    env,                \* "sane", "custom", or "lacking" what the tools rely on
    searched,           \* history: what the places held where the target was looked for
    binary, skipped,    \* what afl-fuzz found in it, one at most; AFL_SKIP_BIN_CHECK
    uses_asan, persistent_mode, deferred_mode,
    target_path,        \* a place where it was looked for, 0 before, or QemuTrace
    argv

set   == <<flag, mem_limit, none_given, exec_tmout, use_stdin, quiet_mode, cmin_mode>>
found == <<searched, binary, skipped, uses_asan, persistent_mode, deferred_mode>>
vars  == <<program, stage, failure, set, file, user, env, found, target_path, argv>>

Default == 50       \* MEM_LIMIT
Qemu    == 200      \* MEM_LIMIT_QEMU

QemuTrace == 99     \* afl-qemu-trace, beyond the places of a search

\* The options of afl-fuzz are those that Startup lets pass.
Init ==
    /\ program \in DOMAIN Options \cup {"afl-fuzz"} /\ failure = "none"
    /\ IF program = "afl-fuzz"
         THEN /\ stage = "environment" /\ flag \in {{}, {"Q"}, {"n"}}
              /\ file \in {"none", "relative", "absolute"}
         ELSE stage = "options" /\ flag = {} /\ file = "none"
    /\ mem_limit = Default /\ none_given = FALSE
    /\ exec_tmout = (IF program = "afl-showmap" THEN 0 ELSE 1000)
    /\ use_stdin = TRUE /\ quiet_mode = FALSE /\ cmin_mode = FALSE
    /\ user \in CommandLines /\ env = "unknown" /\ searched = <<>>
    /\ binary = {} /\ skipped = FALSE
    /\ uses_asan = FALSE /\ persistent_mode = FALSE /\ deferred_mode = FALSE
    /\ target_path = 0 /\ argv = user

Fail(why) == failure' = why /\ stage' = "failed"

-----------------------------------------------------------------------------
(* The option loops                                                        *)

\* A number of megabytes and its unit; a unit that does not exist is 0.
MemLimits == {<<50, "M">>, <<4, "M">>, <<6000, "k">>, <<6, "k">>, <<1, "G">>, <<1, "x">>}

Megabytes(n, unit) ==
    CASE unit = "G" -> n * 1024 [] unit = "k" -> n \div 1024 [] unit = "M" -> n [] OTHER -> 0

MemLimitOption ==
    \/ mem_limit' = 0 /\ none_given' = TRUE /\ flag' = flag \cup {"m"} /\ UNCHANGED <<stage, failure>>
    \/ \E l \in MemLimits :
         LET n == Megabytes(l[1], l[2])
         IN  IF n < 5 THEN Fail("m") /\ UNCHANGED <<mem_limit, none_given, flag>>
             ELSE mem_limit' = n /\ flag' = flag \cup {"m"} /\ UNCHANGED <<none_given, stage, failure>>

QemuOption ==
    /\ mem_limit' = IF "m" \in flag THEN mem_limit ELSE Qemu
    /\ flag' = flag \cup {"Q"} /\ UNCHANGED <<none_given, stage, failure>>

TimeoutOption(least) ==
    /\ \E t \in {5, 15, 25} :
         IF t < least THEN Fail("t") /\ UNCHANGED <<exec_tmout, flag>>
         ELSE exec_tmout' = t /\ flag' = flag \cup {"t"} /\ UNCHANGED <<stage, failure>>
    /\ UNCHANGED <<mem_limit, none_given>>

Mark(o) == flag' = flag \cup {o} /\ UNCHANGED <<mem_limit, none_given, stage, failure>>

Refused == UNCHANGED <<flag, mem_limit, none_given, exec_tmout, use_stdin, file, quiet_mode, cmin_mode>>

OthersAsBefore ==
    UNCHANGED <<program, user, env, found, target_path, argv>>

GetTminOption(o) ==
    /\ program = "afl-tmin" /\ stage = "options" /\ o \in Options[program]
    /\ IF o \in flag THEN Fail(o) /\ Refused
       ELSE /\ CASE o = "m" -> MemLimitOption [] o = "Q" -> QemuOption
                 [] o = "t" -> TimeoutOption(10)
                 [] o \in {"i", "o", "f", "e", "x"} -> Mark(o)
                 [] o = "B" -> \/ Mark(o)
                               \/ Fail("B") /\ UNCHANGED <<flag, mem_limit, none_given>>
            /\ o # "t" => UNCHANGED exec_tmout
            /\ use_stdin' = (use_stdin /\ o # "f")
            /\ IF o = "f" THEN file' \in {"relative", "absolute"} ELSE UNCHANGED file
            /\ UNCHANGED <<quiet_mode, cmin_mode>>
    /\ OthersAsBefore

GetAnalyzeOption(o) ==
    /\ program = "afl-analyze" /\ stage = "options" /\ o \in Options[program]
    /\ IF o \in flag THEN Fail(o) /\ Refused
       ELSE /\ CASE o = "m" -> MemLimitOption [] o = "Q" -> QemuOption
                 [] o = "t" -> TimeoutOption(10)
                 [] o \in {"i", "f", "e"} -> Mark(o)
            /\ o # "t" => UNCHANGED exec_tmout
            /\ use_stdin' = (use_stdin /\ o # "f")
            /\ IF o = "f" THEN file' \in {"relative", "absolute"} ELSE UNCHANGED file
            /\ UNCHANGED <<quiet_mode, cmin_mode>>
    /\ OthersAsBefore

\* -Z, -A and -b may be repeated, -q must not follow -Z, and -t takes "none" for no timeout.
GetShowmapOption(o) ==
    /\ program = "afl-showmap" /\ stage = "options" /\ o \in Options[program]
    /\ IF \/ o \in flag /\ o \notin {"Z", "A", "b", "q"}
          \/ o = "q" /\ quiet_mode
         THEN Fail(o) /\ Refused
         ELSE /\ CASE o = "m" -> MemLimitOption [] o = "Q" -> QemuOption
                   [] o = "t" -> \/ TimeoutOption(20)
                                 \/ Mark(o) /\ UNCHANGED exec_tmout
                   [] o \in {"o", "e", "q", "Z", "A", "b", "c"} -> Mark(o)
              /\ o # "t" => UNCHANGED exec_tmout
              /\ quiet_mode' = (quiet_mode \/ o \in {"q", "Z"})
              /\ cmin_mode' = (cmin_mode \/ o = "Z")
              /\ IF o = "A" THEN file' \in {"relative", "absolute"} ELSE UNCHANGED file
              /\ UNCHANGED use_stdin
    /\ OthersAsBefore

Required == [p \in DOMAIN Options |->
               CASE p = "afl-tmin" -> {"i", "o"} [] p = "afl-showmap" -> {"o"} [] OTHER -> {"i"}]

EndOptions ==
    /\ stage = "options"
    /\ IF Required[program] \subseteq flag THEN stage' = "environment" /\ UNCHANGED failure
       ELSE Fail("usage")
    /\ UNCHANGED <<program, set, file, user, env, found, target_path, argv>>

-----------------------------------------------------------------------------
(* The environment                                                         *)

Environments == {"sane", "custom", "lacking"}
    \* not set; set with abort_on_error, exit_code and no symbols; set without one of them

\* The temporary input is written to the current directory, or where that is not writable to TMPDIR,
\* else /tmp.  A relative TMPDIR gives a name like the first.
Temporary == {"temporary", "absolute temporary"}

\* afl-tmin and afl-analyze: a name for the input, and what sanitizers are told.
set_up_environment ==
    /\ program \in {"afl-tmin", "afl-analyze"} /\ stage = "environment"
    /\ file' \in IF file = "none" THEN Temporary ELSE {file}
    /\ env' \in Environments
    /\ IF env' = "lacking" THEN Fail("environment") ELSE stage' = "program" /\ UNCHANGED failure
    /\ UNCHANGED <<program, set, user, found, target_path, argv>>

\* afl-showmap takes what it finds.
set_up_showmap ==
    /\ program = "afl-showmap" /\ stage = "environment"
    /\ env' \in Environments /\ stage' = "program"
    /\ UNCHANGED <<program, failure, set, file, user, found, target_path, argv>>

check_asan_opts ==
    /\ program = "afl-fuzz" /\ stage = "environment"
    /\ env' \in Environments
    /\ IF env' = "lacking" THEN Fail("environment") ELSE stage' = "arguments" /\ UNCHANGED failure
    /\ UNCHANGED <<program, set, file, user, found, target_path, argv>>

-----------------------------------------------------------------------------
(* The program                                                             *)

\* The directories of PATH; one alone for a name with a slash, or when there is no PATH.
Searches == {<<"fit">>, <<"unfit">>, <<"unfit", "fit">>, <<"fit", "fit">>, <<"nothing", "unfit">>}

Fits(places) == {k \in DOMAIN places : places[k] = "fit"}

FirstFit(places) == CHOOSE k \in Fits(places) : \A j \in Fits(places) : k <= j

\* Of the tools: the first regular file that is executable, whatever it is.
find_binary ==
    /\ program # "afl-fuzz" /\ stage = "program"
    /\ \E places \in Searches :
         /\ searched' = places
         /\ IF Fits(places) = {} THEN Fail("not found") /\ UNCHANGED target_path
            ELSE target_path' = FirstFit(places) /\ stage' = "arguments" /\ UNCHANGED failure
    /\ UNCHANGED <<program, set, file, user, env, binary, skipped, uses_asan, persistent_mode,
                   deferred_mode, argv>>

Binaries == [tmp : BOOLEAN, kind : {"script", "ELF", "other"}, instrumented : BOOLEAN,
             asan : BOOLEAN, persistent : BOOLEAN, deferred : BOOLEAN]

Suits(b) ==
    /\ ~b.tmp /\ b.kind = "ELF"
    /\ "Q" \notin flag /\ "n" \notin flag => b.instrumented
    /\ "Q" \in flag => ~b.instrumented

\* Of afl-fuzz: the same search, and a look into the file unless AFL_SKIP_BIN_CHECK is set.
check_binary ==
    /\ program = "afl-fuzz" /\ stage = "program"
    /\ \E places \in Searches : \E b \in Binaries : \E skip \in BOOLEAN :
         /\ searched' = places
         /\ IF Fits(places) = {}
              THEN Fail("not found") /\ UNCHANGED <<binary, skipped, target_path>>
              ELSE /\ binary' = {b} /\ skipped' = skip /\ target_path' = FirstFit(places)
                   /\ IF ~skip /\ ~Suits(b) THEN Fail("binary")
                      ELSE stage' = "qemu" /\ UNCHANGED failure
         /\ LET looks == stage' = "qemu" /\ ~skip
            IN  /\ uses_asan' = (looks /\ b.asan)
                /\ persistent_mode' = (looks /\ b.persistent)
                /\ deferred_mode' = (looks /\ b.deferred)
    /\ UNCHANGED <<program, set, file, user, env, argv>>

-----------------------------------------------------------------------------
(* The arguments                                                           *)

HasFile(arg) == "@@" \in ToSet(arg)

\* A name with a slash in front, or in the directory the tool was called in.
FullName(f) ==
    CASE f = "relative" -> "cwd/relative" [] f = "temporary" -> "cwd/temporary"
      [] f = "cur_input" -> "cwd/cur_input" [] OTHER -> f

\* Mutant: the name is taken as it was given.
ReplacedAsGiven(arg, f) == ReplaceAt(arg, SelectInSeq(arg, LAMBDA piece : piece = "@@"), f)

\* The first @@ of an argument.
Replaced(arg, f) == ReplaceAt(arg, SelectInSeq(arg, LAMBDA piece : piece = "@@"), FullName(f))

Arguments(f) == [k \in DOMAIN argv |-> IF HasFile(argv[k]) THEN Replaced(argv[k], f) ELSE argv[k]]

\* Of afl-tmin and afl-analyze.
detect_file_args ==
    /\ program \in {"afl-tmin", "afl-analyze"} /\ stage = "arguments"
    /\ argv' = Arguments(file) /\ stage' = "qemu"
    /\ UNCHANGED <<program, failure, set, file, user, env, found, target_path>>

\* afl-showmap replaces @@ for afl-cmin only.
detect_showmap_args ==
    /\ program = "afl-showmap" /\ stage = "arguments"
    /\ IF file = "none" /\ (\E k \in DOMAIN argv : HasFile(argv[k]))
         THEN Fail("@@") /\ UNCHANGED argv
         ELSE argv' = Arguments(file) /\ stage' = "qemu" /\ UNCHANGED failure
    /\ UNCHANGED <<program, set, file, user, env, found, target_path>>

\* afl-fuzz leaves the name of the target alone, and names its input if nobody has.
detect_fuzzer_args ==
    /\ program = "afl-fuzz" /\ stage = "arguments"
    /\ file' = IF file = "none" /\ (\E k \in 2 .. Len(argv) : HasFile(argv[k]))
               THEN "cur_input" ELSE file
    /\ argv' = <<argv[1]>> \o Tail(Arguments(file'))
    /\ stage' = "program"
    /\ UNCHANGED <<program, failure, set, user, env, found, target_path>>

-----------------------------------------------------------------------------

\* Where afl-qemu-trace is looked for: AFL_PATH alone if it is set, else beside the tool, else at
\* its place of installation.
QemuPlaces == [AFL_PATH : {"unset", "has", "lacks"}, own : BOOLEAN, installed : BOOLEAN]

HasQemu(p) == p.AFL_PATH = "has" \/ (p.AFL_PATH = "unset" /\ (p.own \/ p.installed))

get_qemu_argv ==
    /\ stage = "qemu" /\ "Q" \in flag
    /\ \E p \in QemuPlaces :
         IF ~HasQemu(p) THEN Fail("no qemu") /\ UNCHANGED <<target_path, argv>>
         ELSE /\ target_path' = QemuTrace /\ stage' = "ready" /\ UNCHANGED failure
              /\ argv' = <<<<"afl-qemu-trace">>, <<"--">>, <<target_path>>>> \o Tail(argv)
    /\ UNCHANGED <<program, set, file, user, env, found>>

UseArgv ==
    /\ stage = "qemu" /\ "Q" \notin flag
    /\ stage' = "ready"
    /\ UNCHANGED <<program, failure, set, file, user, env, found, target_path, argv>>

AllOptions == UNION {Options[p] : p \in DOMAIN Options}

Next ==
    \/ \E o \in AllOptions : GetTminOption(o) \/ GetAnalyzeOption(o) \/ GetShowmapOption(o)
    \/ EndOptions \/ set_up_environment \/ set_up_showmap \/ check_asan_opts
    \/ find_binary \/ check_binary
    \/ detect_file_args \/ detect_showmap_args \/ detect_fuzzer_args
    \/ get_qemu_argv \/ UseArgv

Spec == Init /\ [][Next]_vars

-----------------------------------------------------------------------------
(* Of the three tools (that of afl-fuzz is in Startup): the limit is that  *)
(* of -m wherever -Q comes, none only for "none", and otherwise enough to  *)
(* load a program.                                                         *)
LimitSound ==
    program # "afl-fuzz" =>
      /\ mem_limit = 0 <=> none_given
      /\ mem_limit # 0 => mem_limit >= 5
      /\ "m" \notin flag => mem_limit = IF "Q" \in flag THEN Qemu ELSE Default

(* The target that is executed is the first that could be, with the        *)
(* arguments that were asked for: the same in number and order, with or    *)
(* without QEMU before them, and where @@ stood the full name of the file  *)
(* that the tool writes.                                                   *)
ExecutesTarget ==
    LET qemu == "Q" \in flag
        name == IF qemu THEN argv[3][1] ELSE target_path
        args == IF qemu THEN SubSeq(argv, 4, Len(argv)) ELSE Tail(argv)
    IN  stage = "ready" =>
          /\ searched[name] = "fit" /\ \A k \in 1 .. name - 1 : searched[k] # "fit"
          /\ Len(args) = Len(user) - 1
          /\ \A k \in DOMAIN args :
               /\ ~HasFile(user[k + 1]) => args[k] = user[k + 1]
               /\ HasFile(user[k + 1]) =>
                    /\ Len(args[k]) = Len(user[k + 1])
                    /\ \E piece \in ToSet(args[k]) :
                         piece \in {"absolute", "cwd/relative", "cwd/temporary",
                                   "absolute temporary", "cwd/cur_input"}

(* afl-tmin, afl-analyze and afl-fuzz execute no target whose sanitizer is *)
(* told to end it in a way they do not take for a crash; afl-showmap does, *)
(* it looks at no such setting.  And afl-fuzz executes none that it could  *)
(* not trace, unless it was told not to look.                              *)
TargetSuits ==
    stage = "ready" =>
      /\ program # "afl-showmap" => env # "lacking"
      /\ program = "afl-fuzz" /\ ~skipped => \A b \in binary :
           /\ b.kind = "ELF"
           /\ b.instrumented \/ flag # {}
           /\ ~(b.instrumented /\ "Q" \in flag)
           /\ (persistent_mode <=> b.persistent) /\ (deferred_mode <=> b.deferred)

TargetRight == LimitSound /\ ExecutesTarget /\ TargetSuits
=============================================================================
