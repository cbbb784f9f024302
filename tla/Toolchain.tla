----------------------------- MODULE Toolchain ------------------------------
(***************************************************************************)
(* Compiling with afl-gcc, afl-clang or afl-clang-fast: the wrapper edits  *)
(* the command line and executes the compiler; behind afl-gcc and          *)
(* afl-clang the compiler calls afl-as, which takes its mode from its own  *)
(* command line and from the environment, instruments the assembly file    *)
(* (module Assembler) and runs the assembler.                              *)
(***************************************************************************)
EXTENDS Integers, Sequences, SequencesExt

CONSTANTS
    Wrappers,           \* names the wrapper is called by
    MaxArguments,       \* bound: arguments of the wrapper's command line
    MaxAsArguments,     \* bound: arguments of the assembler's command line
    InstRatio           \* AFL_INST_RATIO, or 100 if it is not set

VARIABLES
    wrapper, stage, failure,
    env,                \* variables that are set
    given,              \* history: the user's arguments
    value,              \* history: the last one was dropped with its value to come
    kept,               \* the user's arguments in cc_params
    added,              \* the rest of cc_params, in order
    asan_set, fortify_set, x_set, maybe_linking, bit_mode,
    as_args, use_64bit, pass_thru, just_version, inst_ratio,
    modified_file,      \* "none", "written" or "removed"
    status              \* what afl-as exits with

compiling  == <<given, value, kept, added, asan_set, fortify_set, x_set, maybe_linking, bit_mode>>
assembling == <<as_args, use_64bit, pass_thru, just_version, inst_ratio, modified_file, status>>
vars       == <<wrapper, stage, failure, env, compiling, assembling>>

ClangMode == wrapper \in {"afl-clang", "afl-clang++"}
Fast      == wrapper \in {"afl-clang-fast", "afl-clang-fast++"}

Init ==
    /\ wrapper \in Wrappers /\ stage = "find" /\ failure = "none"
    /\ env \in SUBSET {"AFL_HARDEN", "AFL_USE_ASAN", "AFL_USE_MSAN"}
    /\ given = <<>> /\ value = FALSE /\ kept = <<>> /\ added = <<>>
    /\ asan_set = FALSE /\ fortify_set = FALSE /\ x_set = FALSE /\ maybe_linking = TRUE
    /\ bit_mode = 0
    /\ as_args = <<>> /\ use_64bit = TRUE /\ pass_thru = FALSE /\ just_version = FALSE
    /\ inst_ratio = 100 /\ modified_file = "none" /\ status = -1

Fail(why) == failure' = why /\ stage' = "failed"

-----------------------------------------------------------------------------
(* The wrappers                                                            *)

\* afl-as, in AFL_PATH, beside the wrapper, or where it was installed.
find_as ==
    /\ stage = "find" /\ ~Fast
    /\ \E found \in SUBSET {"AFL_PATH", "own", "installed"} :
         IF found = {} THEN Fail("as") ELSE stage' = "arguments" /\ UNCHANGED failure
    /\ UNCHANGED <<wrapper, env, compiling, assembling>>

\* The runtime and the pass of afl-clang-fast; the pass is loaded first.
find_obj ==
    /\ stage = "find" /\ Fast
    /\ \E found \in SUBSET {"AFL_PATH", "own", "installed"} :
         IF found = {} THEN Fail("obj") /\ UNCHANGED added
         ELSE stage' = "arguments" /\ added' = <<"-load afl-llvm-pass.so">> /\ UNCHANGED failure
    /\ UNCHANGED <<wrapper, env, given, value, kept, asan_set, fortify_set, x_set, maybe_linking,
                   bit_mode, assembling>>

Arguments ==
    {"source", "-B", "-Bdir", "-integrated-as", "-fsanitize=address", "-D_FORTIFY_SOURCE=1",
     "-c", "-x", "-m32", "-Wl,-z,defs"}

\* What afl-gcc does not pass on; a -B takes its value with it.
Drops(a) == value \/ a \in {"-B", "-Bdir", "-integrated-as", "-pipe"}

EditArgument(a) ==
    /\ stage = "arguments" /\ ~Fast /\ Len(given) < MaxArguments
    /\ given' = Append(given, a)
    /\ value' = (a = "-B" /\ ~value)
    /\ kept' = IF Drops(a) THEN kept ELSE Append(kept, a)
    /\ asan_set' = (asan_set \/ (~Drops(a) /\ a \in {"-fsanitize=address", "-fsanitize=memory"}))
    /\ fortify_set' = (fortify_set \/ (~Drops(a) /\ a = "-D_FORTIFY_SOURCE=1"))
    /\ UNCHANGED <<wrapper, stage, failure, env, added, x_set, maybe_linking, bit_mode, assembling>>

\* Of afl-clang-fast.
EditFastArgument(a) ==
    /\ stage = "arguments" /\ Fast /\ Len(given) < MaxArguments
    /\ given' = Append(given, a)
    /\ kept' = IF a \in {"-Wl,-z,defs", "-Wl,--no-undefined"} THEN kept ELSE Append(kept, a)
    /\ bit_mode' = CASE a = "-m32" -> 32 [] a = "-m64" -> 64 [] OTHER -> bit_mode
    /\ x_set' = (x_set \/ a = "-x")
    /\ maybe_linking' = (maybe_linking /\ a \notin {"-c", "-S", "-E", "-shared"})
    /\ asan_set' = (asan_set \/ a \in {"-fsanitize=address", "-fsanitize=memory"})
    /\ fortify_set' = (fortify_set \/ a = "-D_FORTIFY_SOURCE=1")
    /\ UNCHANGED <<wrapper, stage, failure, env, value, added, assembling>>

Hardening ==
    IF "AFL_HARDEN" \notin env THEN <<>>
    ELSE <<"-fstack-protector-all">> \o (IF fortify_set THEN <<>> ELSE <<"-D_FORTIFY_SOURCE=2">>)

\* Two sanitizers, or one and AFL_HARDEN, exclude each other when they come by the environment.
Exclusive ==
    /\ ~asan_set /\ env \cap {"AFL_USE_ASAN", "AFL_USE_MSAN"} # {}
    /\ Cardinality(env) > 1

Sanitizing ==
    IF asan_set THEN <<>>
    ELSE IF "AFL_USE_ASAN" \in env THEN <<"-U_FORTIFY_SOURCE", "-fsanitize=address">>
    ELSE IF "AFL_USE_MSAN" \in env THEN <<"-U_FORTIFY_SOURCE", "-fsanitize=memory">>
    ELSE <<>>

\* Nothing with AFL_DONT_OPTIMIZE; the -fno-builtin options of AFL_NO_BUILTIN, which stand here
\* too, are left out.
Optimizing == {<<>>, <<"-g", "-O3", "-funroll-loops", "-D__AFL_COMPILER=1">>}

\* Mutant: a sanitizer among the arguments is kept from afl-as.
EnvAsIs == env

\* The environment of the compiler.
EnvOfCompiler == IF asan_set THEN env \cup {"AFL_USE_ASAN"} ELSE env

\* The end of edit_params of afl-gcc, and the compiler.
ExecCompiler ==
    /\ stage = "arguments" /\ ~Fast /\ given # <<>>
    /\ IF Exclusive THEN Fail("exclusive") /\ UNCHANGED <<added, env>>
       ELSE /\ \E o \in Optimizing :
                 added' = <<"-B as_path">> \o (IF ClangMode THEN <<"-no-integrated-as">> ELSE <<>>)
                            \o Hardening \o Sanitizing \o o
            /\ env' = EnvOfCompiler
            /\ stage' = "compile" /\ UNCHANGED failure
    /\ UNCHANGED <<wrapper, given, value, kept, asan_set, fortify_set, x_set, maybe_linking, bit_mode,
                   assembling>>

Runtime == CASE bit_mode = 0 -> "afl-llvm-rt.o" [] bit_mode = 32 -> "afl-llvm-rt-32.o"
             [] bit_mode = 64 -> "afl-llvm-rt-64.o"

Linking == IF ~maybe_linking THEN <<>> ELSE (IF x_set THEN <<"-x none">> ELSE <<>>) \o <<Runtime>>

\* The end of edit_params of afl-clang-fast: a runtime for -m32 or -m64 may not have been built.
ExecFastCompiler ==
    /\ stage = "arguments" /\ Fast /\ given # <<>>
    /\ IF Exclusive THEN Fail("exclusive") /\ UNCHANGED added
       ELSE \/ maybe_linking /\ bit_mode # 0 /\ Fail("runtime") /\ UNCHANGED added
            \/ /\ \E o \in Optimizing :
                    added' = added \o Hardening \o Sanitizing \o o \o <<"-D__AFL_LOOP">> \o Linking
               /\ stage' = "compiled" /\ UNCHANGED failure
    /\ UNCHANGED <<wrapper, env, given, value, kept, asan_set, fortify_set, x_set, maybe_linking,
                   bit_mode, assembling>>

-----------------------------------------------------------------------------
(* afl-as                                                                  *)

AsArguments == {"--32", "--64", "-o file"}

\* The compiler, wherever it gets to assembling, calls the as that -B names.
EditAsArgument(a) ==
    /\ stage = "compile" /\ Len(as_args) < MaxAsArguments
    /\ as_args' = Append(as_args, a)
    /\ use_64bit' = CASE a = "--64" -> TRUE [] a = "--32" -> FALSE [] OTHER -> use_64bit
    /\ UNCHANGED <<wrapper, stage, failure, env, compiling, pass_thru, just_version, inst_ratio,
                   modified_file, status>>

\* The last argument: an assembly file of the compiler's or of the user's, standard input, a
\* request for the version, or another option.
EditInputFile ==
    /\ stage = "compile"
    /\ \E input \in {"/tmp/file", "file", "-", "--version", "-option"} :
         /\ just_version' = (input = "--version")
         /\ pass_thru' = (input = "file")
         /\ IF input = "-option" THEN Fail("use") ELSE stage' = "instrument" /\ UNCHANGED failure
    /\ UNCHANGED <<wrapper, env, compiling, as_args, use_64bit, inst_ratio, modified_file, status>>

\* main, up to the assembler: an as that is afl-as itself finds AS_LOOP_ENV_VAR set and gives up.
Instrument ==
    /\ stage = "instrument"
    /\ IF InstRatio > 100 THEN Fail("ratio") /\ UNCHANGED <<inst_ratio, modified_file>>
       ELSE /\ inst_ratio' = IF env \cap {"AFL_USE_ASAN", "AFL_USE_MSAN"} # {}
                             THEN InstRatio \div 3 ELSE InstRatio
            /\ modified_file' = IF just_version THEN "none" ELSE "written"
            /\ stage' = "assemble" /\ UNCHANGED failure
    /\ UNCHANGED <<wrapper, env, compiling, as_args, use_64bit, pass_thru, just_version, status>>

\* The assembler ends well, with an error (its own, of execvp or of the loop), or by a signal.
Assemble ==
    /\ stage = "assemble"
    /\ \E ending \in {"assembled", "error", "killed"} :
         /\ stage' = ending
         /\ status' = IF ending = "error" THEN 1 ELSE 0
    /\ \E keep \in BOOLEAN :
         modified_file' = IF modified_file = "written" /\ ~keep THEN "removed" ELSE modified_file
    /\ UNCHANGED <<wrapper, failure, env, compiling, as_args, use_64bit, pass_thru, just_version,
                   inst_ratio>>

Next ==
    \/ find_as \/ find_obj
    \/ \E a \in Arguments : EditArgument(a) \/ EditFastArgument(a)
    \/ ExecCompiler \/ ExecFastCompiler
    \/ \E a \in AsArguments : EditAsArgument(a)
    \/ EditInputFile \/ Instrument \/ Assemble

Spec == Init /\ [][Next]_vars

-----------------------------------------------------------------------------
Compiled == stage \notin {"find", "arguments", "failed"}

\* Does a row of -B begin at j that reaches to before k?
RowBefore(args, j, k) ==
    (\A l \in j .. k - 1 : args[l] = "-B") /\ (j > 1 => args[j - 1] # "-B")

\* Is argument k the value of a -B?  Of a row of them every other one is, and what is behind an
\* odd number.
IsValue(args, k) == \E j \in 1 .. k : RowBefore(args, j, k) /\ (k - j) % 2 = 1

(* The compiler gets the user's arguments in their order, all but those    *)
(* that would bypass the instrumentation, and no -B but the wrapper's.     *)
ArgumentsKept ==
    Compiled =>
      /\ \A a \in Arguments \ {"-B", "-Bdir", "-integrated-as", "-Wl,-z,defs", "-x"} :
           Cardinality({k \in DOMAIN kept : kept[k] = a})
             = Cardinality({k \in DOMAIN given : /\ given[k] = a
                                                 /\ ~Fast => ~IsValue(given, k)})
      /\ ~Fast => ToSet(kept) \cap {"-B", "-Bdir", "-integrated-as"} = {}
      /\ Fast => "-Wl,-z,defs" \notin ToSet(kept)

(* At most one sanitizer is asked for by the environment, never with       *)
(* hardening, and it takes back what was fortified before it.              *)
SanitizersExclude ==
    Compiled /\ ~asan_set =>
      /\ Cardinality(ToSet(added) \cap {"-fsanitize=address", "-fsanitize=memory"}) <= 1
      /\ \A k \in DOMAIN added : added[k] \in {"-fsanitize=address", "-fsanitize=memory"} =>
           added[k - 1] = "-U_FORTIFY_SOURCE" /\ "-D_FORTIFY_SOURCE=2" \notin ToSet(added)

(* However a sanitizer is asked for, afl-as instruments a third of what it *)
(* would, since the sanitizer has branches of its own.                     *)
DensityFollows ==
    stage \in {"assemble", "assembled"} =>
      inst_ratio = IF asan_set \/ ToSet(added) \cap {"-fsanitize=address", "-fsanitize=memory"} # {}
                   THEN InstRatio \div 3 ELSE InstRatio

(* A program that afl-clang-fast may be linking gets the runtime of its    *)
(* width at the end, as an object even after -x.                           *)
RuntimeLinked ==
    stage = "compiled" =>
      /\ (Last(added) \in {"afl-llvm-rt.o", "afl-llvm-rt-32.o", "afl-llvm-rt-64.o"})
           <=> ToSet(given) \cap {"-c", "-S", "-E", "-shared"} = {}
      /\ Last(added) = "afl-llvm-rt.o" => "-m32" \notin ToSet(given)
      /\ maybe_linking /\ "-x" \in ToSet(given) => added[Len(added) - 1] = "-x none"

(* afl-as reports success only for a file that was assembled, or when the  *)
(* assembler was killed by a signal, which it cannot tell from success:    *)
(* WEXITSTATUS of that is 0.                                               *)
StatusTold == status = 0 => stage \in {"assembled", "killed"}

CommandSound ==
    ArgumentsKept /\ SanitizersExclude /\ DensityFollows /\ RuntimeLinked /\ StatusTold
=============================================================================
