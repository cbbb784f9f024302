----------------------------- MODULE ForkServer -----------------------------
(***************************************************************************)
(* One run of the server under test: run_target of afl-fuzz.c, the signal  *)
(* handlers that interrupt it, the fork server of llvm_mode/afl-llvm-rt.o.c*)
(* (afl-as.h has the same loop in assembly) and the runner it forks.  The  *)
(* two processes speak over a control pipe and a status pipe; the runner,  *)
(* its exits, crashes and stops are the environment.                       *)
(*                                                                         *)
(* A process identifier is never used again.  A signal other than SIGTERM  *)
(* acts at once; SIGTERM may be acted on, handled or ignored.              *)
(***************************************************************************)
EXTENDS Integers, Sequences, FiniteSets

CONSTANTS
    Modes,    \* how afl-fuzz was started: [forkserver, is_persistent, use_net, terminate_child]
    MaxRuns   \* bound: calls of run_target

ASSUME ForkServerAssumption ==
    /\ Modes \subseteq [forkserver : BOOLEAN, is_persistent : BOOLEAN,
                        use_net : BOOLEAN, terminate_child : BOOLEAN]
    /\ MaxRuns \in Nat

VARIABLES
    mode,
    (* afl-fuzz *)
    pc, dry_run, runs, child_pid, child_timed_out, prev_timed_out, stop_soon,
    timer,           \* ITIMER_REAL is armed
    status, fault,   \* what run_target read, and what it returned
    (* the fork server *)
    fs,              \* what it does next
    fs_child_pid, child_stopped,
    fs_end,          \* why it is dead
    (* the pipes *)
    ctl, st,
    (* the runners *)
    proc, ended, sigterm

fuzzerVars == <<pc, dry_run, runs, child_pid, child_timed_out, prev_timed_out, stop_soon,
                timer, status, fault>>
serverVars == <<fs, fs_child_pid, child_stopped, fs_end>>
pipeVars   == <<ctl, st>>
procVars   == <<proc, ended, sigterm>>
vars == <<mode, fuzzerVars, serverVars, pipeVars, procVars>>

Pids == 1 .. MaxRuns
NoStatus == [pid |-> 0, how |-> ""]
Signalled == {"SIGKILL", "SIGTERM", "crash"}
Halted == {"exited", "fatal", "init_failed"}     \* of afl-fuzz

Init ==
    /\ mode \in Modes
    /\ pc = IF mode.forkserver THEN "init_forkserver" ELSE "idle"
    /\ dry_run = TRUE /\ runs = 0 /\ child_pid = -1
    /\ child_timed_out = FALSE /\ prev_timed_out = FALSE
    /\ stop_soon = 0 /\ timer = FALSE
    /\ status = NoStatus /\ fault = ""
    /\ fs = "none" /\ fs_child_pid = 0 /\ child_stopped = FALSE /\ fs_end = ""
    /\ ctl = <<>> /\ st = <<>>
    /\ proc = [p \in Pids |-> "none"]
    /\ ended = [p \in Pids |-> ""]
    /\ sigterm = {}

Alive == {p \in Pids : proc[p] \in {"running", "stopped"}}
Unused == CHOOSE p \in Pids : proc[p] = "none" /\ \A q \in 1 .. p - 1 : proc[q] # "none"

ForkServerUp == fs \notin {"none", "dead"}

(* fork()                                                                  *)
Spawn(p) == proc' = [proc EXCEPT ![p] = "running"] /\ UNCHANGED <<ended, sigterm>>

(* The processes of S, those that still live, end as said.                 *)
End(S, how) ==
    /\ proc' = [p \in Pids |-> IF p \in S \cap Alive THEN "zombie" ELSE proc[p]]
    /\ ended' = [p \in Pids |-> IF p \in S \cap Alive THEN how ELSE ended[p]]
    /\ UNCHANGED sigterm

(* waitpid() by the parent of p.                                           *)
Reap(p) == proc' = [proc EXCEPT ![p] = "gone"] /\ UNCHANGED <<ended, sigterm>>

KillForkServer(why) ==
    IF ForkServerUp
    THEN fs' = "dead" /\ fs_end' = why /\ UNCHANGED <<fs_child_pid, child_stopped>>
    ELSE UNCHANGED serverVars

-----------------------------------------------------------------------------
(* Starting the fork server                                                *)

(* init_forkserver up to the wait for the four bytes of the fork server.   *)
InitForkserver ==
    /\ pc = "init_forkserver"
    /\ pc' = "hello" /\ timer' = TRUE /\ fs' = "hello"
    /\ UNCHANGED <<mode, dry_run, runs, child_pid, child_timed_out, prev_timed_out, stop_soon,
                   status, fault, fs_child_pid, child_stopped, fs_end, pipeVars, procVars>>

ReadHello ==
    /\ pc = "hello" /\ (st # <<>> \/ ~ForkServerUp)
    /\ pc' = IF st # <<>> THEN "up" ELSE "down"
    /\ st' = <<>>
    /\ UNCHANGED <<mode, dry_run, runs, child_pid, child_timed_out, prev_timed_out, stop_soon,
                   timer, status, fault, serverVars, ctl, procVars>>

(* The timer is disarmed only after the answer has been read.              *)
HelloRead ==
    /\ pc \in {"up", "down"}
    /\ timer' = FALSE
    /\ pc' = IF pc = "up" THEN "idle" ELSE "init_failed"
    /\ UNCHANGED <<mode, dry_run, runs, child_pid, child_timed_out, prev_timed_out, stop_soon,
                   status, fault, serverVars, pipeVars, procVars>>

-----------------------------------------------------------------------------
(* run_target                                                              *)

(* A read or a write on a pipe whose other end is gone: the run is given   *)
(* up if it was stopped, and else afl-fuzz aborts.                         *)
PipeBroken ==
    /\ IF stop_soon # 0 THEN pc' = "returned" /\ fault' = "NONE"
       ELSE pc' = "fatal" /\ UNCHANGED fault
    /\ UNCHANGED <<mode, dry_run, runs, child_pid, child_timed_out, prev_timed_out, stop_soon,
                   timer, status, serverVars, pipeVars, procVars>>

(* A run is asked for; a stop since the last one returned is not looked at.*)
RunTarget ==
    /\ pc = "idle" /\ runs < MaxRuns
    /\ runs' = runs + 1
    /\ child_timed_out' = FALSE
    /\ fault' = "" /\ status' = NoStatus
    /\ pc' = IF mode.forkserver THEN "request" ELSE "fork"
    /\ UNCHANGED <<mode, dry_run, child_pid, prev_timed_out, stop_soon, timer,
                   serverVars, pipeVars, procVars>>

Request ==
    /\ pc = "request"
    /\ IF ForkServerUp
       THEN /\ ctl' = Append(ctl, prev_timed_out) /\ pc' = "read_pid"
            /\ UNCHANGED <<mode, dry_run, runs, child_pid, child_timed_out, prev_timed_out,
                           stop_soon, timer, status, fault, serverVars, st, procVars>>
       ELSE PipeBroken

ReadPid ==
    /\ pc = "read_pid"
    /\ \/ /\ st # <<>>
          /\ child_pid' = Head(st).pid /\ st' = Tail(st)
          /\ pc' = "arm"
          /\ UNCHANGED <<mode, dry_run, runs, child_timed_out, prev_timed_out, stop_soon, timer,
                         status, fault, serverVars, ctl, procVars>>
       \/ st = <<>> /\ ~ForkServerUp /\ PipeBroken

(* Without a fork server afl-fuzz is the parent of the runner itself.      *)
Fork ==
    /\ pc = "fork"
    /\ Spawn(Unused) /\ child_pid' = Unused
    /\ pc' = "arm"
    /\ UNCHANGED <<mode, dry_run, runs, child_timed_out, prev_timed_out, stop_soon, timer,
                   status, fault, serverVars, pipeVars>>

ArmTimer ==
    /\ pc = "arm"
    /\ timer' = TRUE
    /\ pc' = IF mode.use_net THEN "session" ELSE "status"
    /\ UNCHANGED <<mode, dry_run, runs, child_pid, child_timed_out, prev_timed_out, stop_soon,
                   status, fault, serverVars, pipeVars, procVars>>

(* send_over_network: cut short by an error, or all messages are sent and  *)
(* the runner is told to terminate.                                        *)
Session ==
    /\ pc = "session"
    /\ \/ pc' = "status" /\ UNCHANGED sigterm
       \/ /\ pc' = "await_end"
          /\ sigterm' = IF mode.terminate_child THEN sigterm \cup ({child_pid} \cap Alive)
                        ELSE sigterm
    /\ UNCHANGED <<mode, dry_run, runs, child_pid, child_timed_out, prev_timed_out, stop_soon,
                   timer, status, fault, serverVars, pipeVars, proc, ended>>

(* The loop at its end, which polls until kill(child_pid, 0) finds no such *)
(* process; a zombie is one still.                                         *)
AwaitEnd ==
    /\ pc = "await_end" /\ proc[child_pid] = "gone"
    /\ pc' = "status"
    /\ UNCHANGED <<mode, dry_run, runs, child_pid, child_timed_out, prev_timed_out, stop_soon,
                   timer, status, fault, serverVars, pipeVars, procVars>>

StatusArrived ==
    /\ pc = "status" /\ st # <<>>
    /\ status' = Head(st) /\ st' = Tail(st)
    /\ pc' = "settle"
    /\ UNCHANGED <<mode, dry_run, runs, child_pid, child_timed_out, prev_timed_out,
                   stop_soon, timer, fault, serverVars, ctl, procVars>>

ReadStatus ==
    /\ mode.forkserver
    /\ \/ StatusArrived
       \/ pc = "status" /\ st = <<>> /\ ~ForkServerUp /\ PipeBroken

WaitForRunner ==
    /\ pc = "status" /\ ~mode.forkserver /\ proc[child_pid] = "zombie"
    /\ Reap(child_pid)
    /\ status' = [pid |-> child_pid, how |-> ended[child_pid]]
    /\ pc' = "settle"
    /\ UNCHANGED <<mode, dry_run, runs, child_pid, child_timed_out, prev_timed_out, stop_soon,
                   timer, fault, serverVars, pipeVars>>

(* A stopped runner will be used again and keeps its place in child_pid.   *)
Settle ==
    /\ pc = "settle"
    /\ child_pid' = IF status.how = "stopped" THEN child_pid ELSE 0
    /\ pc' = "disarm"
    /\ UNCHANGED <<mode, dry_run, runs, child_timed_out, prev_timed_out, stop_soon, timer,
                   status, fault, serverVars, pipeVars, procVars>>

DisarmTimer ==
    /\ pc = "disarm"
    /\ timer' = FALSE /\ pc' = "report"
    /\ UNCHANGED <<mode, dry_run, runs, child_pid, child_timed_out, prev_timed_out, stop_soon,
                   status, fault, serverVars, pipeVars, procVars>>

(* What run_target makes of a status.                                      *)
Verdict(how, timed_out) ==
    CASE how = "SIGKILL"     -> IF timed_out THEN "TMOUT" ELSE "CRASH"
      [] how = "crash"       -> "CRASH"
      [] how = "exec_failed" -> "ERROR"
      [] OTHER               -> "NONE"

(* A runner that died of a signal after a stop is not judged.              *)
Report ==
    /\ pc = "report"
    /\ prev_timed_out' = child_timed_out
    /\ fault' = IF stop_soon # 0 /\ status.how \in Signalled THEN "NONE"
                ELSE Verdict(status.how, child_timed_out)
    /\ pc' = "returned"
    /\ UNCHANGED <<mode, dry_run, runs, child_pid, child_timed_out, stop_soon, timer, status,
                   serverVars, pipeVars, procVars>>

-----------------------------------------------------------------------------
(* Signals and the end of main                                             *)

(* Mutant: only the runner is killed.                                      *)
StopKillsRunnerOnly(why) == UNCHANGED serverVars

StopKillsForkServer(why) == KillForkServer(why)

(* handle_stop_sig, between any two steps                                  *)
HandleStopSig ==
    /\ pc \notin Halted /\ stop_soon # 1
    /\ stop_soon' = 1
    /\ End({child_pid}, "SIGKILL")
    /\ StopKillsForkServer("stop")
    /\ UNCHANGED <<mode, pc, dry_run, runs, child_pid, child_timed_out, prev_timed_out, timer,
                   status, fault, pipeVars>>

TimeoutTarget == {child_pid} \cap Pids

(* handle_timeout                                                          *)
HandleTimeout ==
    /\ pc \notin Halted /\ timer
    /\ timer' = FALSE
    /\ child_timed_out' = (child_timed_out \/ child_pid > 0 \/ (child_pid = -1 /\ fs # "none"))
    /\ End(TimeoutTarget, "SIGKILL")
    /\ IF child_pid = -1 THEN KillForkServer("timeout") ELSE UNCHANGED serverVars
    /\ UNCHANGED <<mode, pc, dry_run, runs, child_pid, prev_timed_out, stop_soon, status, fault,
                   pipeVars>>

(* AFL_EXIT_WHEN_DONE, AFL_BENCH_UNTIL_CRASH, or a limit reached.          *)
StopProgrammatically ==
    /\ pc = "idle" /\ ~dry_run /\ stop_soon = 0
    /\ stop_soon' = 2
    /\ UNCHANGED <<mode, pc, dry_run, runs, child_pid, child_timed_out, prev_timed_out,
                   timer, status, fault, serverVars, pipeVars, procVars>>

(* The callers of run_target look at stop_soon when it returns, and so     *)
(* does main between two turns.                                            *)
CheckStop ==
    /\ pc = "returned" \/ (pc = "idle" /\ stop_soon # 0)
    /\ pc' = IF stop_soon # 0 THEN "leave" ELSE "idle"
    /\ UNCHANGED <<mode, dry_run, runs, child_pid, child_timed_out, prev_timed_out,
                   stop_soon, timer, status, fault, serverVars, pipeVars, procVars>>

(* The dry run is over and main enters its loop.                           *)
EnterLoop ==
    /\ pc = "idle" /\ dry_run /\ stop_soon = 0
    /\ dry_run' = FALSE
    /\ UNCHANGED <<mode, pc, runs, child_pid, child_timed_out, prev_timed_out, stop_soon,
                   timer, status, fault, serverVars, pipeVars, procVars>>

(* main leaves its loop; only a programmatic stop kills anything here.     *)
LeaveLoop ==
    /\ pc = "leave" /\ ~dry_run
    /\ pc' = "wait_fork_server"
    /\ IF stop_soon = 2 THEN End({child_pid}, "SIGKILL") /\ KillForkServer("stop")
       ELSE UNCHANGED <<procVars, serverVars>>
    /\ UNCHANGED <<mode, dry_run, runs, child_pid, child_timed_out, prev_timed_out,
                   stop_soon, timer, status, fault, pipeVars>>

(* A stop during the dry run goes straight to the end of main.             *)
LeaveDryRun ==
    /\ pc = "leave" /\ dry_run
    /\ pc' = "exited"
    /\ UNCHANGED <<mode, dry_run, runs, child_pid, child_timed_out, prev_timed_out,
                   stop_soon, timer, status, fault, serverVars, pipeVars, procVars>>

WaitForkServer ==
    /\ pc = "wait_fork_server" /\ ~ForkServerUp
    /\ pc' = "exited"
    /\ UNCHANGED <<mode, dry_run, runs, child_pid, child_timed_out, prev_timed_out, stop_soon,
                   timer, status, fault, serverVars, pipeVars, procVars>>

-----------------------------------------------------------------------------
(* __afl_start_forkserver                                                  *)

(* The target reaches its fork server, or ends before it.                  *)
FsHello ==
    /\ fs = "hello"
    /\ \/ fs' = "read" /\ st' = Append(st, NoStatus) /\ UNCHANGED fs_end
       \/ fs' = "dead" /\ fs_end' = "start" /\ UNCHANGED st
    /\ UNCHANGED <<mode, fuzzerVars, fs_child_pid, child_stopped, ctl, procVars>>

(* Mutant: the SIGKILL that raced with the stop is not heeded.             *)
NeverWritesOff(was_killed) == FALSE

(* afl-fuzz killed the stopped runner after it had been reported.          *)
WritesOff(was_killed) == child_stopped /\ was_killed

(* waitpid fails: the process has been waited for already.                 *)
WaitFails ==
    /\ fs' = "dead" /\ fs_end' = "waitpid"
    /\ UNCHANGED <<child_stopped, procVars>>

FsRead ==
    /\ fs = "read" /\ ctl # <<>>
    /\ fs' = IF WritesOff(Head(ctl)) THEN "write_off" ELSE "spawn"
    /\ ctl' = Tail(ctl)
    /\ UNCHANGED <<mode, fuzzerVars, fs_child_pid, child_stopped, fs_end, st, procVars>>

FsWriteOff ==
    /\ fs = "write_off"
    /\ IF proc[fs_child_pid] = "gone" THEN WaitFails
       ELSE /\ proc[fs_child_pid] = "zombie" /\ Reap(fs_child_pid)
            /\ child_stopped' = FALSE /\ fs' = "spawn" /\ UNCHANGED fs_end
    /\ UNCHANGED <<mode, fuzzerVars, fs_child_pid, pipeVars>>

(* A new runner is forked, if the system lets it, or the stopped one woken.*)
FsSpawn ==
    /\ fs = "spawn"
    /\ \/ /\ ~child_stopped
          /\ Spawn(Unused) /\ fs_child_pid' = Unused
          /\ fs' = "write_pid" /\ UNCHANGED <<child_stopped, fs_end>>
       \/ /\ ~child_stopped
          /\ fs' = "dead" /\ fs_end' = "fork"
          /\ UNCHANGED <<child_stopped, fs_child_pid, procVars>>
       \/ /\ child_stopped
          /\ proc' = [proc EXCEPT ![fs_child_pid] = IF @ = "stopped" THEN "running" ELSE @]
          /\ child_stopped' = FALSE /\ fs' = "write_pid"
          /\ UNCHANGED <<fs_child_pid, fs_end, ended, sigterm>>
    /\ UNCHANGED <<mode, fuzzerVars, pipeVars>>

FsWritePid ==
    /\ fs = "write_pid"
    /\ st' = Append(st, [pid |-> fs_child_pid, how |-> ""])
    /\ fs' = "wait"
    /\ UNCHANGED <<mode, fuzzerVars, fs_child_pid, child_stopped, fs_end, ctl, procVars>>

(* Mutant: WIFSTOPPED is not looked at.                                    *)
StopMissed(how) == FALSE

Stopped(how) == how = "stopped"

(* waitpid, with WUNTRACED in persistent mode only, and the relay of the   *)
(* status to the pipe.  child_stopped is FALSE when it begins.             *)
FsWait ==
    /\ fs = "wait"
    /\ IF proc[fs_child_pid] = "gone" THEN WaitFails /\ UNCHANGED st
       ELSE LET how == IF proc[fs_child_pid] = "stopped" THEN "stopped" ELSE ended[fs_child_pid]
            IN  /\ \/ proc[fs_child_pid] = "zombie" /\ Reap(fs_child_pid)
                   \/ /\ proc[fs_child_pid] = "stopped" /\ mode.is_persistent
                      /\ UNCHANGED procVars
                /\ child_stopped' = Stopped(how)
                /\ st' = Append(st, [pid |-> fs_child_pid, how |-> how])
                /\ fs' = "read" /\ UNCHANGED fs_end
    /\ UNCHANGED <<mode, fuzzerVars, fs_child_pid, ctl>>

(* afl-fuzz is gone: the read or the write of a pipe fails.                *)
FsAlone ==
    /\ pc \in Halted /\ fs \in {"hello", "read", "write_pid"}
    /\ KillForkServer("alone")
    /\ UNCHANGED <<mode, fuzzerVars, pipeVars, procVars>>

-----------------------------------------------------------------------------
(* The runner                                                              *)

(* It exits or crashes, or the execv of a runner without fork server fails.*)
RunnerEnds ==
    /\ \E p \in Pids, how \in {"exit", "crash"} \cup (IF mode.forkserver THEN {} ELSE {"exec_failed"}) :
          proc[p] = "running" /\ End({p}, how)
    /\ UNCHANGED <<mode, fuzzerVars, serverVars, pipeVars>>

(* The default action of SIGTERM                                           *)
RunnerTerminated ==
    /\ \E p \in sigterm : proc[p] = "running" /\ End({p}, "SIGTERM")
    /\ UNCHANGED <<mode, fuzzerVars, serverVars, pipeVars>>

(* __afl_persistent_loop: the end of one iteration.                        *)
RunnerStops ==
    /\ mode.is_persistent
    /\ \E p \in Pids : proc[p] = "running" /\ proc' = [proc EXCEPT ![p] = "stopped"]
    /\ UNCHANGED <<mode, fuzzerVars, serverVars, pipeVars, ended, sigterm>>

(* Process 1 waits for the orphans of a dead fork server.                  *)
OrphanReaped ==
    /\ fs = "dead"
    /\ \E p \in Pids : proc[p] = "zombie" /\ Reap(p)
    /\ UNCHANGED <<mode, fuzzerVars, serverVars, pipeVars>>

-----------------------------------------------------------------------------

Fuzzer ==
    \/ InitForkserver \/ ReadHello \/ HelloRead \/ RunTarget \/ Request \/ ReadPid
    \/ Fork \/ ArmTimer \/ Session \/ AwaitEnd \/ ReadStatus \/ WaitForRunner
    \/ Settle \/ DisarmTimer \/ Report \/ CheckStop \/ LeaveLoop \/ LeaveDryRun
    \/ WaitForkServer

ForkServer ==
    \/ FsRead \/ FsWriteOff \/ FsSpawn \/ FsWritePid \/ FsWait \/ FsAlone

Runner == RunnerEnds \/ RunnerTerminated \/ RunnerStops

Exited == pc \in Halted /\ UNCHANGED vars

Next ==
    \/ Fuzzer \/ ForkServer \/ FsHello \/ Runner \/ OrphanReaped
    \/ EnterLoop \/ HandleTimeout \/ HandleStopSig \/ StopProgrammatically \/ Exited

Spec == Init /\ [][Next]_vars

(* The two programs run, the timer expires and orphans are waited for.     *)
(* Nothing is asked of the runner, of a target that starts, or of the user.*)
FairSpec ==
    /\ Spec
    /\ WF_vars(Fuzzer) /\ WF_vars(ForkServer)
    /\ WF_vars(HandleTimeout) /\ WF_vars(OrphanReaped)
-----------------------------------------------------------------------------

TypeOK ==
    /\ mode \in Modes
    /\ dry_run \in BOOLEAN /\ runs \in 0 .. MaxRuns
    /\ child_pid \in Pids \cup {-1, 0} /\ fs_child_pid \in Pids \cup {0}
    /\ {child_timed_out, prev_timed_out, timer, child_stopped} \subseteq BOOLEAN
    /\ stop_soon \in {0, 1, 2}
    /\ fault \in {"", "NONE", "TMOUT", "CRASH", "ERROR"}
    /\ status.pid \in Pids \cup {0}
    /\ ctl \in Seq(BOOLEAN) /\ Len(ctl) <= 1
    /\ Len(st) <= 2
    /\ st \in Seq([pid : Pids \cup {0}, how : Signalled \cup {"", "exit", "stopped", "exec_failed"}])
    /\ proc \in [Pids -> {"none", "running", "stopped", "zombie", "gone"}]
    /\ sigterm \subseteq Pids

(* A crash is reported only of a runner that crashed by itself, never of   *)
(* one that afl-fuzz killed, in this run or in the one before it; and one  *)
(* the timer killed before it was reported is a timeout.                   *)
VerdictIsCause ==
    pc = "returned" /\ stop_soon = 0 =>
        /\ fault = "CRASH" => ended[status.pid] = "crash"
        /\ status.how = "SIGKILL" => fault = "TMOUT"

(* Two runners never live at once, and the one that lives while afl-fuzz   *)
(* talks to the server is the one it would kill.                           *)
OneRunner ==
    /\ Cardinality(Alive) <= 1
    /\ pc \in {"session", "await_end", "status"} => Alive \subseteq {child_pid}

(* afl-fuzz never aborts on a broken pipe but for a fork that failed or a  *)
(* timer that expired when the fork server had just come up: whatever the  *)
(* two raced on, the fork server never waits for a process it has waited   *)
(* for.                                                                    *)
ForkServerServes ==
    /\ fs_end # "waitpid"
    /\ pc = "fatal" => fs_end \in {"fork", "timeout"}

(* Whatever they raced on, the two processes agree on who runs.            *)
ProcessesAgree == TypeOK /\ OneRunner /\ ForkServerServes

(* Every run ends, whatever the runner does.                               *)
Between == pc \in Halted \cup {"idle", "returned", "leave"}
RunEnds == ~Between ~> Between

(* After a stop afl-fuzz exits.                                            *)
StopEnds == (stop_soon # 0) ~> pc \in Halted

(* Nothing keeps afl-fuzz waiting for ever.                                *)
NothingHangs == RunEnds /\ StopEnds

=============================================================================
