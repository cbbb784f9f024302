------------------------------ MODULE ToolRun ------------------------------
(***************************************************************************)
(* How afl-showmap, afl-tmin and afl-analyze run the target: no fork       *)
(* server, a child per run, an interval timer, two signal handlers that    *)
(* read child_pid, and a verdict drawn from what waitpid reported and what *)
(* the handlers left behind.  afl-showmap runs the target once, the others *)
(* as often as they like (MaxRuns of them here).                           *)
(***************************************************************************)
EXTENDS Naturals

CONSTANT MaxRuns

VARIABLES
    tool,               \* "showmap", "tmin" or "analyze"
    exec_tmout,         \* is there a timeout?  (afl-showmap: -t, none by default)
    cmin_mode, caa, cco,    \* afl-showmap -Z, AFL_CMIN_ALLOW_ANY, AFL_CMIN_CRASHES_ONLY
    exit_crash,         \* afl-tmin -x
    line,               \* where run_target is
    child_pid,          \* what the handlers would kill
    it,                 \* the interval timer is running
    child_timed_out, stop_soon, child_crashed,
    nature,             \* what the target does if it is left alone
    child,              \* "alive", or how it ended
    verdict,            \* what the run was taken for
    out_file,           \* did afl-showmap write tuples?
    runs

settings == <<tool, exec_tmout, cmin_mode, caa, cco, exit_crash>>
flags    == <<child_timed_out, stop_soon, child_crashed>>
target   == <<nature, child>>
result   == <<verdict, out_file>>
vars     == <<settings, line, child_pid, it, flags, target, result, runs>>

Natures == {"exits", "fails", "reports", "signals", "hangs", "cannot run"}
    \* "fails": a status other than 0; "reports": MSAN_ERROR

Init ==
    /\ tool \in {"showmap", "tmin", "analyze"}
    /\ exec_tmout \in BOOLEAN /\ (tool # "showmap" => exec_tmout)
    /\ cmin_mode \in BOOLEAN /\ caa \in BOOLEAN /\ cco \in BOOLEAN
    /\ tool # "showmap" => ~cmin_mode
    /\ ~cmin_mode => ~caa /\ ~cco
    /\ exit_crash \in BOOLEAN /\ (tool # "tmin" => ~exit_crash)
    /\ line = "start" /\ child_pid = "none" /\ it = FALSE
    /\ child_timed_out = FALSE /\ stop_soon = FALSE /\ child_crashed = FALSE
    /\ nature = "exits" /\ child = "none"
    /\ verdict = "none" /\ out_file = "nothing" /\ runs = 0

-----------------------------------------------------------------------------
(* run_target                                                              *)

\* fork has returned in the child, and not yet been stored in the parent.
Fork ==
    /\ line = "start" /\ runs < MaxRuns
    /\ line' = "store pid" /\ runs' = runs + 1
    /\ nature' \in Natures /\ child' = "alive" /\ verdict' = "none"
    /\ UNCHANGED <<settings, child_pid, it, flags, out_file>>

StorePid ==
    /\ line = "store pid"
    /\ child_pid' = "child"
    /\ line' = "set timer"
    /\ UNCHANGED <<settings, it, flags, target, result, runs>>

\* afl-showmap without -t leaves the timer and the flag as they are.
SetTimer ==
    /\ line = "set timer"
    /\ it' = exec_tmout
    /\ child_timed_out' = IF exec_tmout THEN FALSE ELSE child_timed_out
    /\ line' = "wait"
    /\ UNCHANGED <<settings, child_pid, stop_soon, child_crashed, target, result, runs>>

WaitPid ==
    /\ line = "wait" /\ child # "alive"
    /\ line' = "forget pid"
    /\ UNCHANGED <<settings, child_pid, it, flags, target, result, runs>>

ForgetPid ==
    /\ line = "forget pid"
    /\ child_pid' = "none"
    /\ line' = "stop timer"
    /\ UNCHANGED <<settings, it, flags, target, result, runs>>

StopTimer ==
    /\ line = "stop timer"
    /\ it' = FALSE
    /\ line' = "judge"
    /\ UNCHANGED <<settings, child_pid, flags, target, result, runs>>

\* What waitpid reported: a target that was killed ended in a signal like one that crashed.
Crashed ==
    \/ child \in {"signals", "killed"}
    \/ child = "reports" /\ tool # "showmap"
    \/ child = "fails" /\ (tool = "analyze" \/ exit_crash)

\* Mutant: a run that was cut off is judged by its status alone.
StatusAlone == IF Crashed THEN "crash" ELSE "runs"

Verdict ==
    IF child_timed_out THEN "hang" ELSE IF Crashed THEN "crash" ELSE "runs"

\* afl-showmap in the mode of afl-cmin leaves the file empty for the runs it is not after.
Tuples(crashed) ==
    IF cmin_mode /\ (child_timed_out \/ (~caa /\ (crashed <=> ~cco))) THEN "nothing" ELSE "tuples"

JudgeShowmap ==
    /\ line = "judge" /\ tool = "showmap" /\ child # "cannot run"
    /\ LET crashed == Verdict = "crash" /\ ~stop_soon
       IN  /\ child_crashed' = crashed
           /\ verdict' = IF stop_soon /\ ~child_timed_out THEN "stopped" ELSE Verdict
           /\ out_file' = Tuples(crashed)
    /\ line' = "exit"
    /\ UNCHANGED <<settings, child_pid, it, child_timed_out, stop_soon, target, runs>>

\* The other two leave at once when they have been told to.
Judge ==
    /\ line = "judge" /\ tool # "showmap" /\ child # "cannot run" /\ ~stop_soon
    /\ verdict' = Verdict
    /\ line' = "start"
    /\ UNCHANGED <<settings, child_pid, it, flags, target, out_file, runs>>

Leave ==
    /\ line = "judge" /\ tool # "showmap" /\ child # "cannot run" /\ stop_soon
    /\ line' = "exit"
    /\ UNCHANGED <<settings, child_pid, it, flags, target, result, runs>>

\* The child found no program to run and said so in the first word of the map.
Fatal ==
    /\ line = "judge" /\ child = "cannot run"
    /\ line' = "exit"
    /\ UNCHANGED <<settings, child_pid, it, flags, target, result, runs>>

-----------------------------------------------------------------------------
(* The target, the timer and the user                                      *)

TargetEnds ==
    /\ child = "alive" /\ nature # "hangs"
    /\ child' = nature
    /\ UNCHANGED <<settings, line, child_pid, it, flags, nature, result, runs>>

Killed == IF child_pid = "child" /\ child = "alive" THEN "killed" ELSE child

handle_timeout ==
    /\ it
    /\ it' = FALSE
    /\ child_timed_out' = TRUE
    /\ child' = Killed
    /\ UNCHANGED <<settings, line, child_pid, stop_soon, child_crashed, nature, result, runs>>

handle_stop_sig ==
    /\ line # "exit" /\ ~stop_soon
    /\ stop_soon' = TRUE
    /\ child' = Killed
    /\ UNCHANGED <<settings, line, child_pid, it, child_timed_out, child_crashed, nature, result, runs>>

Step == Fork \/ StorePid \/ SetTimer \/ WaitPid \/ ForgetPid \/ StopTimer \/ JudgeShowmap
          \/ Judge \/ Leave \/ Fatal

Next == Step \/ TargetEnds \/ handle_timeout \/ handle_stop_sig

Spec == Init /\ [][Next]_vars /\ WF_vars(Step) /\ WF_vars(TargetEnds) /\ WF_vars(handle_timeout)

-----------------------------------------------------------------------------
(* A run is a crash only if the target ended that way by itself, and its   *)
(* trace is taken for that of a complete run only if nobody cut it short:  *)
(* the kills of the timeout handler and of Ctrl-C end in the same status,  *)
(* and are told apart by flags that the handlers set at any time.  In the  *)
(* mode of afl-cmin, and unless the tool itself is stopped, tuples are     *)
(* written of the runs asked for and no other.                             *)
VerdictIsOwn ==
    /\ verdict = "crash" => child \in {"signals", "reports", "fails"}
    /\ verdict = "runs" => child # "killed" /\ child # "signals"
    /\ cmin_mode /\ out_file = "tuples" /\ ~stop_soon =>
         /\ child # "killed"
         /\ ~caa => (child = "signals" <=> cco)

(* A run that has a timeout ends, whatever the target does and whenever    *)
(* the signals arrive.                                                     *)
RunEnds == (line = "store pid" /\ exec_tmout) ~> line \in {"start", "exit"}
=============================================================================
