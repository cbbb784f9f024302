--------------------------- MODULE Programs_proofs ---------------------------
(***************************************************************************)
(* Theorems about the programs of Tools that run a target or talk to a     *)
(* server, for every value of their constants, in the way of Tools_proofs: *)
(* each has an inductive invariant of its own over the shared variables.   *)
(***************************************************************************)
EXTENDS Tools, FiniteSetTheorems, SequenceTheorems, WellFoundedInduction, TLAPS

-----------------------------------------------------------------------------
(* Whatever runs goes on running, and only its own steps are taken.        *)

LEMMA Steps ==
    ASSUME [Next]_vars
    PROVE  /\ running' = running
           /\ running = "tmin" => Minimizer!Next \/ UNCHANGED vars
           /\ running = "run" => ToolRun!Next \/ UNCHANGED vars
           /\ running = "analyze" => Analyzer!Next \/ UNCHANGED vars
           /\ running = "dislocator" => Dislocator!Next \/ UNCHANGED vars
           /\ running = "alloc" => AllocInl!Next \/ UNCHANGED vars
           /\ running = "as" => Assembler!Next \/ UNCHANGED vars
           /\ running = "cc" => Toolchain!Next \/ UNCHANGED vars
           /\ running = "start" => Startup!Next \/ UNCHANGED vars
           /\ running = "target" => TargetStart!Next \/ UNCHANGED vars
           /\ running = "net" => Network!Next \/ UNCHANGED vars
           /\ running = "loop" => ClassicLoop!Next \/ UNCHANGED vars
           /\ running = "scores" => Scores!Next \/ UNCHANGED vars
<1>1. UNCHANGED vars => running' = running
  BY DEF vars
<1>2. Next => running' = running
  BY DEF Next, Minimize, StopMinimizing, RunStep, RunTargetEnds, RunTimeout, RunStopSig,
         AnalyzerStep, DislocatorStep, AllocInlStep, AssemblerStep, ToolchainStep, StartupStep,
         TargetStartStep, NetworkStep, ClassicLoopStep, ScoresStep, MinimizerOthers, ToolRunOthers,
         AnalyzerOthers, DislocatorOthers, AllocInlOthers, AssemblerOthers, ToolchainOthers,
         StartupOthers, TargetStartOthers, NetworkOthers, ClassicLoopOthers, ScoresOthers
<1> QED
  BY <1>1, <1>2 DEF Next, Minimize, StopMinimizing, RunStep, RunTargetEnds, RunTimeout, RunStopSig,
         AnalyzerStep, DislocatorStep, AllocInlStep, AssemblerStep, ToolchainStep, StartupStep,
         TargetStartStep, NetworkStep, ClassicLoopStep, ScoresStep, Minimizer!Next, ToolRun!Next

-----------------------------------------------------------------------------
(* The runs of the tools.  A child that was killed was killed by one of    *)
(* the handlers, whose flag still stands when the run is judged: the timer *)
(* runs only after its flag has been reset, and stop_soon is never reset.  *)
RunFlags ==
    /\ stop_soon \in BOOLEAN /\ child_timed_out \in BOOLEAN /\ it \in BOOLEAN
    /\ cmin_mode \in BOOLEAN /\ caa \in BOOLEAN /\ cco \in BOOLEAN /\ exec_tmout \in BOOLEAN
    /\ exit_crash \in BOOLEAN /\ (tool # "tmin" => ~exit_crash)

RunTypes ==
    /\ line \in {"start", "store pid", "set timer", "wait", "forget pid", "stop timer", "judge",
                 "exit"}
    /\ child \in ToolRun!Natures \cup {"none", "alive", "killed"} /\ nature \in ToolRun!Natures
    /\ verdict \in {"none", "hang", "crash", "runs", "stopped"}

RunKept ==
    /\ it => line \in {"wait", "forget pid", "stop timer"}
    /\ child = "alive" => line \in {"store pid", "set timer", "wait"}
    /\ child = "killed" =>
         stop_soon \/ (child_timed_out /\ line \in {"wait", "forget pid", "stop timer", "judge",
                                                    "start", "exit"})
    /\ verdict # "none" => line \in {"start", "exit"}
    /\ out_file = "tuples" => line = "exit"

RunInv == running = "run" => RunFlags /\ RunTypes /\ RunKept /\ ToolRun!VerdictIsOwn

(* The first run begins with its flags clear.                              *)
LEMMA RunInit == Init => RunInv
<1> SUFFICES ASSUME Init, running = "run" PROVE RunFlags /\ RunTypes /\ RunKept /\ ToolRun!VerdictIsOwn
  BY DEF RunInv
<1>1. ToolRun!Init
  BY DEF Init
<1>2. exec_tmout \in BOOLEAN /\ cmin_mode \in BOOLEAN /\ caa \in BOOLEAN /\ cco \in BOOLEAN
  BY <1>1, Zenon DEF ToolRun!Init
<1> QED
  BY <1>1, <1>2 DEF ToolRun!Init, RunFlags, RunTypes, RunKept, ToolRun!VerdictIsOwn, ToolRun!Natures

(* A verdict is drawn when the child has ended: what the flags leave for a *)
(* crash or a complete run was not killed.                                 *)
LEMMA Judged ==
    ASSUME RunFlags, RunTypes, RunKept, line = "judge"
    PROVE  /\ ToolRun!Verdict \in {"hang", "crash", "runs"}
           /\ child # "alive"
           /\ ToolRun!Verdict = "crash" /\ ~stop_soon => child \in {"signals", "reports", "fails"}
           /\ ToolRun!Verdict = "runs" => child # "killed" /\ child # "signals"
           /\ tool = "showmap" /\ ~child_timed_out /\ ~stop_soon =>
                (ToolRun!Verdict = "crash" <=> child = "signals") /\ child # "killed"
  BY DEF RunFlags, RunTypes, RunKept, ToolRun!Verdict, ToolRun!Crashed, ToolRun!Natures

(* Fork, wait, the handlers and the verdict keep the flags true to what    *)
(* happened to the child.                                                  *)
LEMMA RunSteps ==
    ASSUME RunFlags, RunTypes, RunKept, ToolRun!VerdictIsOwn, ToolRun!Next
    PROVE  RunFlags' /\ RunTypes' /\ RunKept' /\ ToolRun!VerdictIsOwn'
<1> USE DEF ToolRun!settings, ToolRun!flags, ToolRun!target, ToolRun!result
<1>1. CASE ToolRun!Fork
  <2>1. RunFlags'
    <3>1. UNCHANGED <<it, child_timed_out, stop_soon, cmin_mode, caa, cco, exec_tmout, exit_crash, tool>>
      BY <1>1 DEF ToolRun!Fork
    <3> QED
      BY <3>1 DEF RunFlags
  <2>2. RunTypes'
    BY <1>1 DEF ToolRun!Fork, RunTypes, ToolRun!Natures
  <2>3. RunKept'
    BY <1>1 DEF ToolRun!Fork, RunFlags, RunTypes, RunKept, ToolRun!Natures
  <2>4. ToolRun!VerdictIsOwn'
    BY <1>1 DEF ToolRun!Fork, RunTypes, RunKept, ToolRun!VerdictIsOwn
  <2> QED
    BY <2>1, <2>2, <2>3, <2>4
<1>2. CASE ToolRun!StorePid
  <2>1. RunFlags'
    <3>1. UNCHANGED <<it, child_timed_out, stop_soon, cmin_mode, caa, cco, exec_tmout, exit_crash, tool>>
      BY <1>2 DEF ToolRun!StorePid
    <3> QED
      BY <3>1 DEF RunFlags
  <2>2. RunTypes'
    BY <1>2 DEF ToolRun!StorePid, RunTypes, ToolRun!Natures
  <2>3. RunKept'
    BY <1>2 DEF ToolRun!StorePid, RunFlags, RunTypes, RunKept, ToolRun!Natures
  <2>4. ToolRun!VerdictIsOwn'
    BY <1>2 DEF ToolRun!StorePid, RunTypes, RunKept, ToolRun!VerdictIsOwn
  <2> QED
    BY <2>1, <2>2, <2>3, <2>4
<1>3. CASE ToolRun!SetTimer
  <2>1. RunFlags'
    <3>1. it' \in BOOLEAN
      BY <1>3, Zenon DEF ToolRun!SetTimer, RunFlags
    <3>2. child_timed_out' \in BOOLEAN
      <4>1. child_timed_out' = FALSE \/ child_timed_out' = child_timed_out
        BY <1>3, Zenon DEF ToolRun!SetTimer
      <4> QED
        BY <4>1, Zenon DEF RunFlags
    <3>3. UNCHANGED <<stop_soon, cmin_mode, caa, cco, exec_tmout, exit_crash, tool>>
      BY <1>3 DEF ToolRun!SetTimer
    <3> QED
      BY <3>1, <3>2, <3>3 DEF RunFlags
  <2>2. RunTypes'
    BY <1>3 DEF ToolRun!SetTimer, RunTypes, ToolRun!Natures
  <2>3. RunKept'
    BY <1>3 DEF ToolRun!SetTimer, RunFlags, RunTypes, RunKept, ToolRun!Natures
  <2>4. ToolRun!VerdictIsOwn'
    BY <1>3 DEF ToolRun!SetTimer, RunTypes, RunKept, ToolRun!VerdictIsOwn
  <2> QED
    BY <2>1, <2>2, <2>3, <2>4
<1>4. CASE ToolRun!WaitPid
  <2>1. RunFlags'
    <3>1. UNCHANGED <<it, child_timed_out, stop_soon, cmin_mode, caa, cco, exec_tmout, exit_crash, tool>>
      BY <1>4 DEF ToolRun!WaitPid
    <3> QED
      BY <3>1 DEF RunFlags
  <2>2. RunTypes'
    BY <1>4 DEF ToolRun!WaitPid, RunTypes, ToolRun!Natures
  <2>3. RunKept'
    BY <1>4 DEF ToolRun!WaitPid, RunFlags, RunTypes, RunKept, ToolRun!Natures
  <2>4. ToolRun!VerdictIsOwn'
    BY <1>4 DEF ToolRun!WaitPid, RunTypes, RunKept, ToolRun!VerdictIsOwn
  <2> QED
    BY <2>1, <2>2, <2>3, <2>4
<1>5. CASE ToolRun!ForgetPid
  <2>1. RunFlags'
    <3>1. UNCHANGED <<it, child_timed_out, stop_soon, cmin_mode, caa, cco, exec_tmout, exit_crash, tool>>
      BY <1>5 DEF ToolRun!ForgetPid
    <3> QED
      BY <3>1 DEF RunFlags
  <2>2. RunTypes'
    BY <1>5 DEF ToolRun!ForgetPid, RunTypes, ToolRun!Natures
  <2>3. RunKept'
    BY <1>5 DEF ToolRun!ForgetPid, RunFlags, RunTypes, RunKept, ToolRun!Natures
  <2>4. ToolRun!VerdictIsOwn'
    BY <1>5 DEF ToolRun!ForgetPid, RunTypes, RunKept, ToolRun!VerdictIsOwn
  <2> QED
    BY <2>1, <2>2, <2>3, <2>4
<1>6. CASE ToolRun!StopTimer
  <2>1. RunFlags'
    <3>1. it' \in BOOLEAN
      BY <1>6, Zenon DEF ToolRun!StopTimer
    <3>2. UNCHANGED <<child_timed_out, stop_soon, cmin_mode, caa, cco, exec_tmout, exit_crash, tool>>
      BY <1>6 DEF ToolRun!StopTimer
    <3> QED
      BY <3>1, <3>2 DEF RunFlags
  <2>2. RunTypes'
    BY <1>6 DEF ToolRun!StopTimer, RunTypes, ToolRun!Natures
  <2>3. RunKept'
    BY <1>6 DEF ToolRun!StopTimer, RunFlags, RunTypes, RunKept, ToolRun!Natures
  <2>4. ToolRun!VerdictIsOwn'
    BY <1>6 DEF ToolRun!StopTimer, RunTypes, RunKept, ToolRun!VerdictIsOwn
  <2> QED
    BY <2>1, <2>2, <2>3, <2>4
<1>7. CASE ToolRun!JudgeShowmap
  <2>1. RunFlags'
    <3>1. UNCHANGED <<it, child_timed_out, stop_soon, cmin_mode, caa, cco, exec_tmout, exit_crash, tool>>
      BY <1>7 DEF ToolRun!JudgeShowmap
    <3> QED
      BY <3>1 DEF RunFlags
  <2>2. RunTypes'
    BY <1>7, Judged DEF ToolRun!JudgeShowmap, RunTypes
  <2>3. RunKept'
    BY <1>7, Judged DEF ToolRun!JudgeShowmap, RunKept
  <2>4. ToolRun!VerdictIsOwn'
    <3> DEFINE crashed == ToolRun!Verdict = "crash" /\ ~stop_soon
    <3>1. /\ line = "judge" /\ tool = "showmap"
          /\ verdict' = (IF stop_soon /\ ~child_timed_out THEN "stopped" ELSE ToolRun!Verdict)
          /\ out_file' = ToolRun!Tuples(crashed)
          /\ UNCHANGED <<stop_soon, child, cmin_mode, caa, cco>>
      BY <1>7 DEF ToolRun!JudgeShowmap
    <3>2. verdict' = "crash" => child \in {"signals", "reports", "fails"}
      <4>1. ToolRun!Verdict # "hang" => ~child_timed_out
        BY DEF ToolRun!Verdict
      <4> QED
        BY <3>1, <4>1, Judged
    <3>3. verdict' = "runs" => child # "killed" /\ child # "signals"
      BY <3>1, Judged
    <3>4. cmin_mode /\ out_file' = "tuples" =>
            /\ ~child_timed_out
            /\ ~caa => (crashed <=> cco)
      BY <3>1 DEF ToolRun!Tuples, RunFlags
    <3>5. ~stop_soon /\ ~child_timed_out => (crashed <=> child = "signals") /\ child # "killed"
      BY <3>1, Judged
    <3> HIDE DEF crashed
    <3>6. cmin_mode /\ out_file' = "tuples" /\ ~stop_soon =>
            /\ child # "killed"
            /\ ~caa => (child = "signals" <=> cco)
      BY <3>4, <3>5
    <3> QED
      BY <3>1, <3>2, <3>3, <3>6 DEF RunFlags, ToolRun!VerdictIsOwn
  <2> QED
    BY <2>1, <2>2, <2>3, <2>4
<1>8. CASE ToolRun!Judge
  <2>1. RunFlags'
    <3>1. UNCHANGED <<it, child_timed_out, stop_soon, cmin_mode, caa, cco, exec_tmout, exit_crash, tool>>
      BY <1>8 DEF ToolRun!Judge
    <3> QED
      BY <3>1 DEF RunFlags
  <2>2. RunTypes'
    BY <1>8, Judged DEF ToolRun!Judge, RunTypes
  <2>3. RunKept'
    BY <1>8, Judged DEF ToolRun!Judge, RunKept
  <2>4. ToolRun!VerdictIsOwn'
    BY <1>8, Judged DEF ToolRun!Judge, RunFlags, RunKept, ToolRun!VerdictIsOwn
  <2> QED
    BY <2>1, <2>2, <2>3, <2>4
<1>9. CASE ToolRun!Leave
  <2>1. RunFlags'
    <3>1. UNCHANGED <<it, child_timed_out, stop_soon, cmin_mode, caa, cco, exec_tmout, exit_crash, tool>>
      BY <1>9 DEF ToolRun!Leave
    <3> QED
      BY <3>1 DEF RunFlags
  <2>2. RunTypes'
    BY <1>9 DEF ToolRun!Leave, RunTypes, ToolRun!Natures
  <2>3. RunKept'
    BY <1>9 DEF ToolRun!Leave, RunFlags, RunTypes, RunKept, ToolRun!Natures
  <2>4. ToolRun!VerdictIsOwn'
    BY <1>9 DEF ToolRun!Leave, RunTypes, RunKept, ToolRun!VerdictIsOwn
  <2> QED
    BY <2>1, <2>2, <2>3, <2>4
<1>10. CASE ToolRun!Fatal
  <2>1. RunFlags'
    <3>1. UNCHANGED <<it, child_timed_out, stop_soon, cmin_mode, caa, cco, exec_tmout, exit_crash, tool>>
      BY <1>10 DEF ToolRun!Fatal
    <3> QED
      BY <3>1 DEF RunFlags
  <2>2. RunTypes'
    BY <1>10 DEF ToolRun!Fatal, RunTypes, ToolRun!Natures
  <2>3. RunKept'
    BY <1>10 DEF ToolRun!Fatal, RunFlags, RunTypes, RunKept, ToolRun!Natures
  <2>4. ToolRun!VerdictIsOwn'
    BY <1>10 DEF ToolRun!Fatal, RunTypes, RunKept, ToolRun!VerdictIsOwn
  <2> QED
    BY <2>1, <2>2, <2>3, <2>4
<1>11. CASE ToolRun!TargetEnds
  <2>1. RunFlags'
    <3>1. UNCHANGED <<it, child_timed_out, stop_soon, cmin_mode, caa, cco, exec_tmout, exit_crash, tool>>
      BY <1>11 DEF ToolRun!TargetEnds
    <3> QED
      BY <3>1 DEF RunFlags
  <2>2. RunTypes'
    BY <1>11 DEF ToolRun!TargetEnds, RunTypes, ToolRun!Natures
  <2>3. RunKept'
    BY <1>11 DEF ToolRun!TargetEnds, RunFlags, RunTypes, RunKept, ToolRun!Natures
  <2>4. ToolRun!VerdictIsOwn'
    BY <1>11 DEF ToolRun!TargetEnds, RunTypes, RunKept, ToolRun!VerdictIsOwn
  <2> QED
    BY <2>1, <2>2, <2>3, <2>4
<1>12. CASE ToolRun!handle_timeout
  <2>1. RunFlags'
    <3>1. it' \in BOOLEAN /\ child_timed_out' \in BOOLEAN
      BY <1>12, Zenon DEF ToolRun!handle_timeout
    <3>2. UNCHANGED <<stop_soon, cmin_mode, caa, cco, exec_tmout, exit_crash, tool>>
      BY <1>12 DEF ToolRun!handle_timeout
    <3> QED
      BY <3>1, <3>2 DEF RunFlags
  <2>2. RunTypes'
    BY <1>12 DEF ToolRun!handle_timeout, ToolRun!Killed, RunTypes, ToolRun!Natures
  <2>3. RunKept'
    BY <1>12 DEF ToolRun!handle_timeout, ToolRun!Killed, RunFlags, RunTypes, RunKept, ToolRun!Natures
  <2>4. ToolRun!VerdictIsOwn'
    BY <1>12 DEF ToolRun!handle_timeout, ToolRun!Killed, RunTypes, RunKept, ToolRun!VerdictIsOwn
  <2> QED
    BY <2>1, <2>2, <2>3, <2>4
<1>13. CASE ToolRun!handle_stop_sig
  <2>1. RunFlags'
    <3>1. stop_soon' \in BOOLEAN
      BY <1>13, Zenon DEF ToolRun!handle_stop_sig
    <3>2. UNCHANGED <<child_timed_out, it, cmin_mode, caa, cco, exec_tmout, exit_crash, tool>>
      BY <1>13 DEF ToolRun!handle_stop_sig
    <3> QED
      BY <3>1, <3>2 DEF RunFlags
  <2>2. RunTypes'
    BY <1>13 DEF ToolRun!handle_stop_sig, ToolRun!Killed, RunTypes, ToolRun!Natures
  <2>3. RunKept'
    BY <1>13 DEF ToolRun!handle_stop_sig, ToolRun!Killed, RunFlags, RunTypes, RunKept, ToolRun!Natures
  <2>4. ToolRun!VerdictIsOwn'
    BY <1>13 DEF ToolRun!handle_stop_sig, ToolRun!Killed, RunTypes, RunKept, ToolRun!VerdictIsOwn
  <2> QED
    BY <2>1, <2>2, <2>3, <2>4
<1> QED
  BY <1>1, <1>2, <1>3, <1>4, <1>5, <1>6, <1>7, <1>8, <1>9, <1>10, <1>11, <1>12, <1>13
     DEF ToolRun!Next, ToolRun!Step

(* No tool takes a run for a crash or for complete that it cut short, for  *)
(* every interleaving of the run with the two handlers.  Of what           *)
(* afl-showmap writes it says less: in the mode of afl-cmin, and as long   *)
(* as nobody stops the tool, tuples are those of a run that ended by       *)
(* itself.  After a stop, and in its other modes, afl-showmap writes the   *)
(* tuples of a run that was cut short, and says by its exit status how the *)
(* run ended.                                                              *)
THEOREM VerdictsAreOwn == Spec => []VerdictIsOwn
<1>1. RunInv /\ [Next]_vars => RunInv'
  <2> SUFFICES ASSUME RunInv, [Next]_vars, running' = "run"
               PROVE  RunFlags' /\ RunTypes' /\ RunKept' /\ ToolRun!VerdictIsOwn'
    BY DEF RunInv
  <2>1. running = "run" /\ (ToolRun!Next \/ UNCHANGED vars)
    BY Steps
  <2>2. RunFlags /\ RunTypes /\ RunKept /\ ToolRun!VerdictIsOwn
    BY <2>1 DEF RunInv
  <2>3. CASE UNCHANGED vars
    <3>1. UNCHANGED <<runVars, sharedVars>>
      BY <2>3 DEF vars
    <3>2. RunFlags'
      BY <2>2, <3>1 DEF runVars, sharedVars, RunFlags
    <3>3. RunTypes' /\ RunKept'
      BY <2>2, <3>1 DEF runVars, sharedVars, RunFlags, RunTypes, RunKept, ToolRun!Natures
    <3>4. ToolRun!VerdictIsOwn'
      BY <2>2, <3>1 DEF runVars, sharedVars, RunFlags, ToolRun!VerdictIsOwn
    <3> QED
      BY <3>2, <3>3, <3>4
  <2> QED
    BY <2>1, <2>2, <2>3, RunSteps
<1>2. RunInv => VerdictIsOwn
  BY DEF RunInv, VerdictIsOwn
<1> QED
  BY RunInit, <1>1, <1>2, PTL DEF Spec

-----------------------------------------------------------------------------
(* The session seen from the socket.  BytesOf and NumberOf are the bytes   *)
(* of a message among those that were sent, Said is what the server would  *)
(* answer now, Settled how many of the sizes are final.                    *)
BytesOf(w, k) == {b \in DOMAIN w : w[b] = k}

Copies(n, k) == [b \in 1 .. n |-> k]

Longer(w, n, k) == w \o Copies(n, k)

NumberOf(w, k) == Network!Cardinality(BytesOf(w, k))

Said == IF read = 0 THEN 0 ELSE wire[read]

Settled == Len(response_bytes) - (IF phase = "answer" \/ phase = "last" THEN 1 ELSE 0)

NetPhases == {"connect", "early", "send", "answer", "last", "before", "next", "done", "failed",
              "gave up"}

NetCalls == {"none", "poll in", "poll out", "send", "recv"}

NetTypes ==
    /\ program \in {"afl-fuzz", "aflnet-replay", "afl-replay"}
    /\ messages \in Seq(Nat) /\ messages # <<>>
    /\ phase \in NetPhases /\ io \in NetCalls
    /\ m \in Nat \ {0} /\ byte_count \in Nat /\ messages_sent \in Nat
    /\ response_buf \in Seq(Nat) /\ response_bytes \in Seq(Int)
    /\ wire \in Seq(Nat) /\ read \in 0 .. Len(wire) /\ written \in Seq(Nat)
    /\ inbox \in IF udp THEN Seq(Seq(Nat)) ELSE Seq(Nat)

NetPlaces ==
    /\ io = "poll out" \/ io = "send" => phase = "send"
    /\ io = "poll in" \/ io = "recv" =>
         phase = "early" \/ phase = "answer" \/ phase = "last" \/ phase = "before"
    /\ phase = "send" \/ phase = "answer" \/ phase = "before" \/ phase = "next" =>
         m <= Len(messages)
    /\ phase = "early" \/ phase = "last" => program = "afl-fuzz"
    /\ phase = "before" \/ phase = "next" => program = "aflnet-replay"
    /\ phase # "send" \/ io = "poll out" => byte_count = 0
    /\ phase = "connect" \/ phase = "early" => m = 1

(* The phases in which nothing of the message has been sent.               *)
Unbegun == \/ phase = "connect" \/ phase = "early" \/ phase = "before" \/ phase = "next"
           \/ phase = "failed" \/ phase = "gave up"

(* The bytes of the message that is being sent are the last ones, and they *)
(* are byte_count; all messages before it have been sent whole.            *)
Sending ==
    /\ \A a, b \in DOMAIN wire : a < b => wire[a] <= wire[b]
    /\ \A b \in DOMAIN wire : wire[b] \in 1 .. m /\ wire[b] <= Len(messages)
    /\ \A k \in 1 .. Len(messages) : k < m => NumberOf(wire, k) = messages[k]
    /\ phase = "send" =>
         /\ byte_count <= messages[m] /\ byte_count <= Len(wire)
         /\ BytesOf(wire, m) = Len(wire) - byte_count + 1 .. Len(wire)
    /\ phase # "send" /\ m <= Len(messages) => NumberOf(wire, m) <= messages[m]
    /\ phase = "answer" /\ program # "afl-replay" => NumberOf(wire, m) = messages[m]
    /\ Unbegun => \A b \in DOMAIN wire : wire[b] < m

(* What was received and what is underway is in the order of its writing.  *)
Heard ==
    /\ \A a \in DOMAIN response_buf : response_buf[a] <= Said
    /\ IF udp
         THEN /\ \A a, b \in DOMAIN response_buf : a < b => response_buf[a] <= response_buf[b]
              /\ \A d \in DOMAIN inbox : \A c \in DOMAIN inbox[d] :
                   /\ inbox[d][c] <= Said
                   /\ \A a \in DOMAIN response_buf : response_buf[a] <= inbox[d][c]
              /\ \A d, e \in DOMAIN inbox : d <= e =>
                   \A c \in DOMAIN inbox[d], f \in DOMAIN inbox[e] : inbox[d][c] <= inbox[e][f]
         ELSE /\ written = response_buf \o inbox
              /\ \A c \in DOMAIN inbox : inbox[c] <= Said

(* messages_sent, the number of sizes and the message that is sent agree;  *)
(* a size that is final covers answers to its message and earlier ones.    *)
Accounts ==
    program = "afl-fuzz" =>
      /\ phase = "connect" \/ phase = "early" \/ phase = "failed" => response_bytes = <<>>
      /\ phase = "send" => messages_sent = m - 1 /\ Len(response_bytes) = m - 1
      /\ phase = "answer" => messages_sent = m /\ Len(response_bytes) = m
      /\ phase = "last" \/ phase = "done" =>
           \/ response_bytes = <<>>
           \/ /\ Len(response_bytes) = messages_sent
              /\ \A b \in DOMAIN wire : wire[b] <= messages_sent
      /\ \A k \in 1 .. Settled :
           /\ response_bytes[k] \in 0 .. Len(response_buf)
           /\ \A b \in 1 .. response_bytes[k] : response_buf[b] <= k
      /\ \A j, k \in 1 .. Settled : j <= k => response_bytes[j] <= response_bytes[k]
      /\ phase = "done" /\ response_bytes # <<>> =>
           response_bytes[messages_sent] = Len(response_buf)

NetParts == NetTypes /\ NetPlaces /\ Sending /\ Heard /\ Accounts

NetInv == running = "net" => NetParts

(* The instance counts like the library.                                   *)
LEMMA SameCardinalityOfNet == ASSUME NEW S PROVE Network!Cardinality(S) = Cardinality(S)
  BY DEF Network!Cardinality, Cardinality

(* Nothing of a message is sent when no byte is its own.                   *)
LEMMA NoneOf ==
    ASSUME NEW w, NEW k, \A b \in DOMAIN w : w[b] # k
    PROVE  BytesOf(w, k) = {} /\ NumberOf(w, k) = 0
<1>1. BytesOf(w, k) = {}
  BY DEF BytesOf
<1> QED
  BY <1>1, SameCardinalityOfNet, FS_EmptySet DEF NumberOf

(* Bytes of one message behind the others are counted by their places.     *)
LEMMA LastBytes ==
    ASSUME NEW w, NEW k, NEW n \in Nat, NEW c \in 0 .. n, BytesOf(w, k) = n - c + 1 .. n
    PROVE  NumberOf(w, k) = c
<1>1. Cardinality(n - c + 1 .. n) = IF n - c + 1 > n THEN 0 ELSE n - (n - c + 1) + 1
  BY FS_Interval
<1>2. (IF n - c + 1 > n THEN 0 ELSE n - (n - c + 1) + 1) = c
  OBVIOUS
<1> QED
  BY <1>1, <1>2, SameCardinalityOfNet DEF NumberOf

(* What is appended of one message counts for that message alone.          *)
LEMMA MoreBytes ==
    ASSUME NEW w \in Seq(Nat), NEW n \in Nat, NEW k \in Nat
    PROVE  /\ Longer(w, n, k) \in Seq(Nat) /\ Len(Longer(w, n, k)) = Len(w) + n
           /\ \A b \in 1 .. Len(w) + n : Longer(w, n, k)[b] = IF b <= Len(w) THEN w[b] ELSE k
           /\ \A j \in Nat : j # k => BytesOf(Longer(w, n, k), j) = BytesOf(w, j)
           /\ BytesOf(Longer(w, n, k), k) = BytesOf(w, k) \cup (Len(w) + 1 .. Len(w) + n)
<1>1. PICK t \in Seq(Nat) : t = Copies(n, k)
  <2>1. Copies(n, k) \in [1 .. n -> Nat]
    BY DEF Copies
  <2>2. \A f \in [1 .. n -> Nat] : f \in Seq(Nat)
    OBVIOUS
  <2> QED
    BY <2>1, <2>2
<1>2. Len(t) = n /\ \A b \in 1 .. n : t[b] = k
  BY <1>1 DEF Copies
<1>3. PICK u \in Seq(Nat) : u = w \o t
  BY ConcatProperties
<1>4. Len(u) = Len(w) + n /\ \A b \in 1 .. Len(w) + n : u[b] = IF b <= Len(w) THEN w[b] ELSE k
  <2>1. /\ Len(u) = Len(w) + Len(t)
        /\ \A b \in 1 .. Len(w) + Len(t) : u[b] = IF b <= Len(w) THEN w[b] ELSE t[b - Len(w)]
    BY <1>3, ConcatProperties
  <2>2. Len(w) \in Nat
    OBVIOUS
  <2>3. \A b \in 1 .. Len(w) + n : b > Len(w) => b - Len(w) \in 1 .. n
    BY <2>2
  <2>4. ASSUME NEW b \in 1 .. Len(w) + n
        PROVE  u[b] = IF b <= Len(w) THEN w[b] ELSE k
    <3>1. u[b] = IF b <= Len(w) THEN w[b] ELSE t[b - Len(w)]
      BY <1>2, <2>1
    <3>2. b > Len(w) => t[b - Len(w)] = k
      BY <1>2, <2>3
    <3> QED
      BY <2>2, <3>1, <3>2
  <2> QED
    BY <1>2, <2>1, <2>4
<1>5. DOMAIN w = 1 .. Len(w) /\ DOMAIN u = 1 .. Len(w) + n /\ Len(w) \in Nat
  BY <1>4
<1>6. \A j \in Nat : j # k => BytesOf(u, j) = BytesOf(w, j)
  BY <1>4, <1>5 DEF BytesOf
<1>7. BytesOf(u, k) = BytesOf(w, k) \cup (Len(w) + 1 .. Len(w) + n)
  BY <1>4, <1>5 DEF BytesOf
<1>8. Longer(w, n, k) = u
  BY <1>1, <1>3 DEF Longer
<1> QED
  BY <1>3, <1>4, <1>6, <1>7, <1>8

(* What does not touch the connection leaves it in order.                  *)
LEMMA HeardStays ==
    ASSUME Heard, UNCHANGED <<udp, wire, read, written, inbox, response_buf>>
    PROVE  Heard'
  BY DEF Heard, Said

(* What sends nothing leaves the order of the bytes.                       *)
LEMMA SendingStays ==
    ASSUME Sending, UNCHANGED <<messages, program, wire, m, phase, byte_count>>
    PROVE  Sending'
  BY DEF Sending, Unbegun

(* What touches neither the sizes nor the response leaves the accounts.    *)
LEMMA AccountsStay ==
    ASSUME Accounts,
           UNCHANGED <<program, phase, m, messages_sent, response_bytes, response_buf, wire>>
    PROVE  Accounts'
  BY DEF Accounts, Settled

(* The types of what only the client changes.                              *)
LEMMA TypesStay ==
    ASSUME NetTypes, phase' \in NetPhases, io' \in NetCalls, m' \in Nat \ {0}, byte_count' \in Nat,
           messages_sent' \in Nat, response_bytes' \in Seq(Int),
           UNCHANGED <<program, messages, udp, response_buf, wire, read, written, inbox>>
    PROVE  NetTypes'
<1>1. inbox' \in IF udp' THEN Seq(Seq(Nat)) ELSE Seq(Nat)
  BY DEF NetTypes
<1> QED
  BY <1>1 DEF NetTypes

(* The places by their names.                                              *)
LEMMA PlacesKnown ==
    /\ "send" \in NetPhases /\ "answer" \in NetPhases /\ "last" \in NetPhases
    /\ "next" \in NetPhases /\ "done" \in NetPhases
    /\ "none" \in NetCalls /\ "poll in" \in NetCalls /\ "poll out" \in NetCalls
    /\ "send" \in NetCalls /\ "recv" \in NetCalls
  BY DEF NetPhases, NetCalls

(* A test case has a first message.                                        *)
LEMMA FirstMessage == ASSUME NetTypes PROVE Len(messages) \in Nat /\ Len(messages) >= 1
  BY EmptySeq DEF NetTypes

(* A message of the test case has a size.                                  *)
LEMMA SizeOfMessage ==
    ASSUME NetTypes, m <= Len(messages)
    PROVE  messages[m] \in Nat
  BY DEF NetTypes

(* A session begins with nothing sent, written or counted.                 *)
LEMMA NetInit == Init => NetInv
<1> SUFFICES ASSUME Init, running = "net" PROVE NetParts
  BY DEF NetInv
<1>1. Network!Init
  BY DEF Init
<1>2. messages \in Seq(Nat) /\ messages # <<>> /\ Len(messages) >= 1
  <2>1. messages \in Seq(Nat) /\ messages # <<>>
    BY <1>1, NetworkAssumption DEF Network!Init
  <2> QED
    BY <2>1, EmptySeq
<1>3. NetTypes
  <2>1. inbox = <<>> /\ wire = <<>> /\ response_buf = <<>> /\ response_bytes = <<>> /\ written = <<>>
    BY <1>1 DEF Network!Init, Network!NULL
  <2>2. inbox \in IF udp THEN Seq(Seq(Nat)) ELSE Seq(Nat)
    BY <2>1
  <2> QED
    BY <1>1, <1>2, <2>1, <2>2 DEF Network!Init, NetTypes, NetPhases, NetCalls
<1>4. NetPlaces
  BY <1>1 DEF Network!Init, NetPlaces
<1>5. Sending
  <2>1. wire = <<>> /\ m = 1 /\ phase = "connect"
    BY <1>1 DEF Network!Init
  <2>2. DOMAIN wire = {}
    BY <2>1
  <2>3. NumberOf(wire, m) = 0
    BY <2>2, NoneOf
  <2>4. messages[1] \in Nat
    BY <1>2
  <2> QED
    BY <2>1, <2>2, <2>3, <2>4 DEF Sending, Unbegun
<1>6. Heard
  BY <1>1 DEF Network!Init, Network!NULL, Heard
<1>7. Accounts
  BY <1>1 DEF Network!Init, Network!NULL, Accounts, Settled
<1> QED
  BY <1>3, <1>4, <1>5, <1>6, <1>7 DEF NetParts

(* Connecting, and reading how long the next message is.                   *)
LEMMA NetBegins ==
    ASSUME NetParts, Network!ConnectFuzzer \/ Network!ConnectReplay \/ Network!ConnectWhole
                       \/ Network!ReadPacket
    PROVE  NetParts'
<1>1. /\ UNCHANGED <<program, messages, udp, m, byte_count, Network!record, Network!kernel>>
      /\ \/ phase = "connect" /\ program = "afl-fuzz" /\ phase' = "early" /\ io' = "poll in"
         \/ phase = "connect" /\ program = "aflnet-replay" /\ phase' = "next" /\ io' = "none"
         \/ phase = "connect" /\ program = "afl-replay" /\ phase' = "send" /\ io' = "poll out"
         \/ phase = "connect" /\ phase' = "failed" /\ io' = "none"
         \/ phase = "next" /\ phase' = "gave up" /\ io' = "none"
         \/ phase = "next" /\ phase' = "before" /\ io' = "poll in"
  BY DEF Network!ConnectFuzzer, Network!ConnectReplay, Network!ConnectWhole, Network!ReadPacket,
         Network!Goto
<1>2. NetTypes /\ NetPlaces /\ Sending /\ Heard /\ Accounts
  BY DEF NetParts
<1>3. NetTypes'
  <2>1. phase' \in NetPhases /\ io' \in NetCalls
    BY <1>1 DEF NetPhases, NetCalls
  <2>2. UNCHANGED <<program, messages, udp, m, byte_count, messages_sent, response_bytes,
                    response_buf, wire, read, written, inbox>>
    BY <1>1 DEF Network!record, Network!kernel
  <2>3. /\ m' \in Nat \ {0} /\ byte_count' \in Nat /\ messages_sent' \in Nat
        /\ response_bytes' \in Seq(Int)
    BY <1>2, <2>2 DEF NetTypes
  <2> QED
    BY <1>2, <2>1, <2>2, <2>3, TypesStay
<1>4. Len(messages) \in Nat /\ Len(messages) >= 1
  BY <1>2, FirstMessage
<1>5. NetPlaces'
  BY <1>1, <1>2, <1>4 DEF NetPlaces
<1>6. Sending'
  <2>1. UNCHANGED <<wire, messages, m, byte_count, program>> /\ phase # "send"
    BY <1>1 DEF Network!kernel
  <2>2. \A b \in DOMAIN wire : wire[b] < m
    BY <1>1, <1>2 DEF Sending, Unbegun
  <2>3. CASE phase' # "send"
    BY <1>1, <1>2, <2>1, <2>2, <2>3 DEF Sending, Unbegun
  <2>4. CASE phase' = "send"
    <3>1. byte_count = 0 /\ m = 1
      BY <1>1, <1>2, <2>4 DEF NetPlaces
    <3>2. messages[m] \in Nat
      BY <1>2, <1>4, <3>1, SizeOfMessage
    <3>3. wire \in Seq(Nat) /\ Len(wire) \in Nat
      BY <1>2 DEF NetTypes
    <3>4. BytesOf(wire, m) = {}
      <4>1. \A b \in DOMAIN wire : wire[b] \in Nat
        BY <3>3
      <4>2. \A b \in DOMAIN wire : wire[b] # m
        BY <2>2, <3>1, <4>1
      <4> QED
        BY <4>2, NoneOf
    <3>5. Len(wire) - byte_count + 1 .. Len(wire) = {}
      BY <3>1, <3>3
    <3>6. BytesOf(wire, m) = Len(wire) - byte_count + 1 .. Len(wire)
      BY <3>4, <3>5
    <3>7. byte_count <= messages[m] /\ byte_count <= Len(wire)
      BY <3>1, <3>2, <3>3
    <3> QED
      BY <1>2, <2>1, <2>4, <3>6, <3>7 DEF Sending, Unbegun
  <2> QED
    BY <2>3, <2>4
<1>7. Heard'
  BY <1>1, <1>2, HeardStays DEF Network!record, Network!kernel
<1>8. Accounts'
  BY <1>1, <1>2 DEF Accounts, Settled, Network!record, Network!kernel
<1> QED
  BY <1>3, <1>5, <1>6, <1>7, <1>8 DEF NetParts

(* One send: its bytes are the next ones of the message.                   *)
LEMMA NetSends == ASSUME NetParts, Network!Send PROVE NetParts'
<1>1. NetTypes /\ NetPlaces /\ Sending /\ Heard /\ Accounts
  BY DEF NetParts
<1>2. PICK n \in 1 .. messages[m] - byte_count :
        /\ byte_count' = byte_count + n
        /\ wire' = Longer(wire, n, m)
  BY DEF Network!Send, Longer, Copies
<1>3. /\ UNCHANGED <<program, messages, udp, phase, io, m, Network!record, read, written, inbox>>
      /\ io = "send" /\ phase = "send" /\ m <= Len(messages)
  BY <1>1 DEF Network!Send, NetPlaces
<1>4. n \in Nat /\ n > 0 /\ messages[m] \in Nat /\ byte_count + n <= messages[m] /\ byte_count \in Nat
  BY <1>1, <1>2, <1>3 DEF NetTypes
<1> DEFINE longer == Longer(wire, n, m)
<1>5. /\ longer \in Seq(Nat) /\ Len(longer) = Len(wire) + n
      /\ \A b \in 1 .. Len(wire) + n : longer[b] = IF b <= Len(wire) THEN wire[b] ELSE m
      /\ \A k \in 1 .. m - 1 : BytesOf(longer, k) = BytesOf(wire, k)
      /\ BytesOf(longer, m) = BytesOf(wire, m) \cup (Len(wire) + 1 .. Len(wire) + n)
  <2>1. wire \in Seq(Nat) /\ m \in Nat /\ n \in Nat
    BY <1>1, <1>4 DEF NetTypes
  <2>2. /\ longer \in Seq(Nat) /\ Len(longer) = Len(wire) + n
        /\ \A b \in 1 .. Len(wire) + n : longer[b] = IF b <= Len(wire) THEN wire[b] ELSE m
        /\ \A j \in Nat : j # m => BytesOf(longer, j) = BytesOf(wire, j)
        /\ BytesOf(longer, m) = BytesOf(wire, m) \cup (Len(wire) + 1 .. Len(wire) + n)
    BY <2>1, MoreBytes
  <2> HIDE DEF longer
  <2>5. \A k \in 1 .. m - 1 : k \in Nat /\ k # m
    BY <2>1
  <2> QED
    BY <2>2, <2>5
<1> HIDE DEF longer
<1>6. wire \in Seq(Nat) /\ Len(wire) \in Nat /\ DOMAIN wire = 1 .. Len(wire)
      /\ wire' = longer /\ DOMAIN longer = 1 .. Len(wire) + n /\ read \in 0 .. Len(wire)
  BY <1>1, <1>2, <1>5 DEF NetTypes, longer
<1>7. NetTypes'
  <2>1. wire' \in Seq(Nat) /\ read' \in 0 .. Len(wire')
    BY <1>3, <1>4, <1>5, <1>6
  <2>2. byte_count' \in Nat
    BY <1>2, <1>4
  <2>3. inbox' \in IF udp' THEN Seq(Seq(Nat)) ELSE Seq(Nat)
    BY <1>1, <1>3 DEF NetTypes
  <2> QED
    BY <1>1, <1>3, <2>1, <2>2, <2>3 DEF NetTypes, Network!record
<1>8. NetPlaces'
  BY <1>1, <1>3 DEF NetPlaces
<1>9. Sending'
  <2>1. \A a, b \in DOMAIN wire : a < b => wire[a] <= wire[b]
    BY <1>1 DEF Sending
  <2>2. \A b \in DOMAIN wire : wire[b] \in 1 .. m /\ wire[b] <= Len(messages)
    BY <1>1 DEF Sending
  <2>3. m \in Nat \ {0}
    BY <1>1 DEF NetTypes
  <2>4. \A a, b \in 1 .. Len(wire) + n : a < b => longer[a] <= longer[b]
    <3>1. Len(wire) \in Nat /\ n \in Nat /\ \A b \in 1 .. Len(wire) : wire[b] <= m
      BY <1>4, <1>6, <2>2
    <3>2. \A a, b \in 1 .. Len(wire) : a < b => wire[a] <= wire[b]
      BY <1>6, <2>1
    <3>3. \A b \in 1 .. Len(wire) + n : longer[b] = IF b <= Len(wire) THEN wire[b] ELSE m
      BY <1>5
    <3> QED
      BY <2>3, <3>1, <3>2, <3>3
  <2>5. \A b \in 1 .. Len(wire) + n : longer[b] \in 1 .. m /\ longer[b] <= Len(messages)
    <3>1. Len(wire) \in Nat /\ n \in Nat /\ m <= Len(messages) /\ m \in 1 .. m
      BY <1>3, <1>4, <1>6, <2>3
    <3>2. \A b \in 1 .. Len(wire) : wire[b] \in 1 .. m /\ wire[b] <= Len(messages)
      BY <1>6, <2>2
    <3>3. \A b \in 1 .. Len(wire) + n : longer[b] = IF b <= Len(wire) THEN wire[b] ELSE m
      BY <1>5
    <3> QED
      BY <3>1, <3>2, <3>3
  <2>6. \A k \in 1 .. Len(messages) : k < m => NumberOf(longer, k) = messages[k]
    <3>1. \A k \in 1 .. Len(messages) : k < m => NumberOf(wire, k) = messages[k]
      BY <1>1 DEF Sending
    <3>2. \A k \in 1 .. Len(messages) : k < m => k \in 1 .. m - 1
      BY <2>3
    <3> QED
      BY <1>5, <3>1, <3>2 DEF NumberOf
  <2>7. BytesOf(longer, m) = Len(longer) - byte_count' + 1 .. Len(longer)
    <3>1. BytesOf(wire, m) = Len(wire) - byte_count + 1 .. Len(wire) /\ byte_count <= Len(wire)
      BY <1>1, <1>3 DEF Sending
    <3>2. \A x, y, z \in Nat : z <= x =>
            (x - z + 1 .. x) \cup (x + 1 .. x + y) = x + y - (z + y) + 1 .. x + y
      OBVIOUS
    <3>3. (Len(wire) - byte_count + 1 .. Len(wire)) \cup (Len(wire) + 1 .. Len(wire) + n)
            = Len(wire) + n - (byte_count + n) + 1 .. Len(wire) + n
      BY <1>4, <1>6, <3>1, <3>2
    <3>4. byte_count' = byte_count + n /\ Len(longer) = Len(wire) + n
          /\ BytesOf(longer, m) = BytesOf(wire, m) \cup (Len(wire) + 1 .. Len(wire) + n)
      BY <1>2, <1>5
    <3> QED
      BY <3>1, <3>3, <3>4
  <2>8. byte_count' <= messages[m] /\ byte_count' <= Len(longer)
    <3>1. byte_count <= Len(wire)
      BY <1>1, <1>3 DEF Sending
    <3> QED
      BY <1>2, <1>4, <1>5, <1>6, <3>1
  <2>9. UNCHANGED <<phase, m, messages, program>> /\ phase = "send" /\ wire' = longer
    BY <1>3, <1>6
  <2> QED
    BY <1>6, <2>4, <2>5, <2>6, <2>7, <2>8, <2>9 DEF Sending, Unbegun
<1>10. Heard'
  <2>1. Said' = Said
    <3>1. read # 0 => longer[read] = wire[read]
      <4>1. read # 0 => read \in 1 .. Len(wire) + n /\ read <= Len(wire)
        BY <1>4, <1>6
      <4>2. \A b \in 1 .. Len(wire) + n : b <= Len(wire) => longer[b] = wire[b]
        BY <1>5
      <4> QED
        BY <4>1, <4>2
    <3> QED
      BY <1>3, <1>6, <3>1 DEF Said
  <2> QED
    BY <1>1, <1>3, <2>1 DEF Heard, Network!record
<1>11. Accounts'
  BY <1>1, <1>3 DEF Accounts, Settled, Network!record
<1> QED
  BY <1>7, <1>8, <1>9, <1>10, <1>11 DEF NetParts

(* net_send returns: what it reports as whole has been sent whole.         *)
LEMMA NetSent ==
    ASSUME NetParts, NEW n \in Int, Network!Sent(n), UNCHANGED Network!kernel, phase = "send",
           n = messages[m] => byte_count = messages[m]
    PROVE  NetParts'
<1>1. NetTypes /\ NetPlaces /\ Sending /\ Heard /\ Accounts
  BY DEF NetParts
<1>2. /\ UNCHANGED <<program, messages, udp, m, response_buf, wire, read, written, inbox>>
      /\ byte_count' = 0 /\ m <= Len(messages)
  BY <1>1 DEF Network!Sent, Network!kernel, NetPlaces
<1>3. /\ io' = "none" \/ io' = "poll in"
      /\ phase' = "answer" \/ phase' = "last" \/ phase' = "done"
      /\ (phase' = "answer" \/ phase' = "last") <=> io' = "poll in"
      /\ phase' = "last" => program = "afl-fuzz"
      /\ phase' = "answer" /\ program # "afl-replay" => n = messages[m]
  BY <1>1 DEF Network!Sent, Network!SentWhole, Network!Goto, NetTypes
<1>4. /\ program = "afl-fuzz" => /\ messages_sent' = messages_sent + 1 /\ phase' # "done"
                                /\ response_bytes' = Append(response_bytes, -1)
      /\ program # "afl-fuzz" => UNCHANGED <<messages_sent, response_bytes>>
  <2>1. program \in {"afl-fuzz", "aflnet-replay", "afl-replay"}
    BY <1>1 DEF NetTypes
  <2> QED
    BY <2>1 DEF Network!Sent, Network!Goto
<1>5. messages[m] \in Nat /\ Len(wire) \in Nat /\ byte_count \in Nat
  <2>1. messages[m] \in Nat
    BY <1>1, <1>2, SizeOfMessage
  <2> QED
    BY <1>1, <2>1 DEF NetTypes
<1>6. /\ response_bytes' \in Seq(Int)
      /\ program = "afl-fuzz" =>
           /\ Len(response_bytes') = Len(response_bytes) + 1
           /\ \A k \in 1 .. Len(response_bytes) : response_bytes'[k] = response_bytes[k]
  <2>1. response_bytes \in Seq(Int)
    BY <1>1 DEF NetTypes
  <2>2. PICK size \in Int : size = -1
    OBVIOUS
  <2>3. /\ Append(response_bytes, size) \in Seq(Int)
        /\ Len(Append(response_bytes, size)) = Len(response_bytes) + 1
        /\ \A k \in 1 .. Len(response_bytes) : Append(response_bytes, size)[k] = response_bytes[k]
    BY <2>1, AppendProperties
  <2> QED
    BY <1>4, <2>1, <2>2, <2>3
<1>7. NetTypes'
  <2>1. messages_sent' \in Nat
    <3>1. messages_sent \in Nat
      BY <1>1 DEF NetTypes
    <3> QED
      BY <1>4, <3>1
  <2>2. phase' \in NetPhases /\ io' \in NetCalls
    BY <1>3, PlacesKnown
  <2>3. m' \in Nat \ {0} /\ byte_count' \in Nat
    BY <1>1, <1>2 DEF NetTypes
  <2> QED
    BY <1>1, <1>2, <1>6, <2>1, <2>2, <2>3, TypesStay
<1>8. NetPlaces'
  BY <1>1, <1>2, <1>3 DEF NetPlaces
<1>9. Sending'
  <2>1. BytesOf(wire, m) = Len(wire) - byte_count + 1 .. Len(wire) /\ byte_count <= Len(wire)
        /\ byte_count <= messages[m]
    BY <1>1, <1>2 DEF Sending
  <2>2. NumberOf(wire, m) = byte_count
    BY <1>5, <2>1, LastBytes
  <2> QED
    BY <1>1, <1>2, <1>3, <2>1, <2>2 DEF Sending, Unbegun
<1>10. Heard'
  BY <1>1, <1>2, HeardStays
<1>11. Accounts'
  <2> SUFFICES ASSUME program = "afl-fuzz" PROVE Accounts'
    BY <1>2 DEF Accounts
  <2>1. messages_sent = m - 1 /\ Len(response_bytes) = m - 1
    BY <1>1 DEF Accounts
  <2>2. m \in Nat /\ m >= 1
    BY <1>1 DEF NetTypes
  <2>3. messages_sent' = m /\ Len(response_bytes') = m
    BY <1>4, <1>6, <2>1, <2>2
  <2>4. phase' = "answer" \/ phase' = "last"
    BY <1>3, <1>4
  <2>5. Settled' = m - 1 /\ Settled = m - 1
    BY <2>1, <2>2, <2>3, <2>4 DEF Settled
  <2>6. \A b \in DOMAIN wire : wire[b] <= m
    BY <1>1 DEF Sending
  <2>7. \A k \in 1 .. m - 1 : response_bytes'[k] = response_bytes[k]
    BY <1>6, <2>1
  <2> QED
    BY <1>1, <1>2, <2>1, <2>3, <2>4, <2>5, <2>6, <2>7 DEF Accounts
<1> QED
  BY <1>7, <1>8, <1>9, <1>10, <1>11 DEF NetParts

(* The types, one by one.                                                  *)
LEMMA NetFacts ==
    ASSUME NetTypes
    PROVE  /\ m \in Nat \ {0} /\ messages_sent \in Nat /\ byte_count \in Nat
           /\ response_buf \in Seq(Nat) /\ Len(response_buf) \in Nat
           /\ response_bytes \in Seq(Int) /\ Len(response_bytes) \in Nat
           /\ messages \in Seq(Nat) /\ Len(messages) \in Nat
           /\ wire \in Seq(Nat) /\ Len(wire) \in Nat /\ DOMAIN wire = 1 .. Len(wire)
           /\ read \in 0 .. Len(wire)
<1>1. /\ m \in Nat \ {0} /\ messages_sent \in Nat /\ byte_count \in Nat
      /\ response_buf \in Seq(Nat) /\ response_bytes \in Seq(Int) /\ messages \in Seq(Nat)
      /\ wire \in Seq(Nat) /\ read \in 0 .. Len(wire)
  BY Zenon DEF NetTypes
<1>2. \A T : \A s \in Seq(T) : Len(s) \in Nat /\ DOMAIN s = 1 .. Len(s)
  OBVIOUS
<1> QED
  BY <1>1, <1>2, Zenon

(* The server would answer with a number it has read, or with none.        *)
LEMMA SaidWas ==
    ASSUME NetTypes, NEW n \in Nat, \A b \in DOMAIN wire : wire[b] <= n
    PROVE  Said \in Nat /\ Said <= n
<1>1. wire \in Seq(Nat) /\ DOMAIN wire = 1 .. Len(wire) /\ read \in 0 .. Len(wire) /\ Len(wire) \in Nat
  BY NetFacts
<1>2. CASE read = 0
  BY <1>2 DEF Said
<1>3. CASE read # 0
  <2>1. read \in 1 .. Len(wire)
    BY <1>1, <1>3
  <2>2. wire[read] \in Nat /\ wire[read] <= n
    BY <1>1, <2>1
  <2> QED
    BY <1>3, <2>2 DEF Said
<1> QED
  BY <1>2, <1>3

(* The parts of Sending, one by one.                                       *)
LEMMA SendingFacts ==
    ASSUME Sending
    PROVE  /\ \A b \in DOMAIN wire : wire[b] \in 1 .. m /\ wire[b] <= Len(messages)
           /\ \A k \in 1 .. Len(messages) : k < m => NumberOf(wire, k) = messages[k]
           /\ \A a, b \in DOMAIN wire : a < b => wire[a] <= wire[b]
           /\ phase # "send" /\ m <= Len(messages) => NumberOf(wire, m) <= messages[m]
           /\ phase = "answer" /\ program # "afl-replay" => NumberOf(wire, m) = messages[m]
           /\ phase = "early" \/ phase = "before" => \A b \in DOMAIN wire : wire[b] < m
  BY DEF Sending, Unbegun

(* The socket is writable, or nothing of the message is sent.              *)
LEMMA NetSendPolls == ASSUME NetParts, Network!SendPoll PROVE NetParts'
<1>1. NetTypes /\ NetPlaces /\ Sending /\ Heard /\ Accounts
  BY DEF NetParts
<1>2. io = "poll out" /\ phase = "send" /\ byte_count = 0 /\ UNCHANGED Network!kernel
  BY <1>1 DEF Network!SendPoll, NetPlaces
<1>3. CASE io' = "send" /\ UNCHANGED <<program, messages, udp, phase, m, byte_count, Network!record>>
  <2>1. UNCHANGED <<messages_sent, response_buf, response_bytes, wire, read, written, inbox>>
    BY <1>2, <1>3 DEF Network!record, Network!kernel
  <2>2. NetTypes'
    <3>1. /\ m' \in Nat \ {0} /\ byte_count' \in Nat /\ messages_sent' \in Nat
          /\ response_bytes' \in Seq(Int) /\ phase' \in NetPhases /\ io' \in NetCalls
      BY <1>1, <1>3, <2>1, PlacesKnown DEF NetTypes
    <3> QED
      BY <1>1, <1>3, <2>1, <3>1, TypesStay
  <2>3. NetPlaces'
    BY <1>1, <1>2, <1>3 DEF NetPlaces
  <2>4. Sending' /\ Heard' /\ Accounts'
    BY <1>1, <1>3, <2>1, SendingStays, HeardStays, AccountsStay
  <2> QED
    BY <2>2, <2>3, <2>4 DEF NetParts
<1>4. CASE Network!Sent(0)
  <2>1. 0 = messages[m] => byte_count = messages[m]
    BY <1>2
  <2>2. PICK zero \in Int : zero = 0
    OBVIOUS
  <2>3. Network!Sent(zero) /\ (zero = messages[m] => byte_count = messages[m])
    BY <1>4, <2>1, <2>2
  <2> QED
    BY <1>2, <2>3, NetSent
<1> QED
  BY <1>3, <1>4 DEF Network!SendPoll

(* The message that is sent next has not been begun.                       *)
ToNext ==
    /\ UNCHANGED <<messages, wire, program>> /\ phase # "send" /\ byte_count' = 0
    /\ m' = m \/ (m' = m + 1 /\ phase = "answer" /\ program # "afl-replay")
    /\ phase' = "send" \/ phase' = "last" \/ phase' = "next" \/ phase' = "done"
    /\ phase' = "send" => m' <= Len(messages)
    /\ phase' = "send" \/ phase' = "next" =>
         m' = m + 1 \/ phase = "early" \/ phase = "before"

(* A message that is sent next follows one that was sent whole, or is the  *)
(* same as before.                                                         *)
LEMMA SendingNext == ASSUME NetTypes, Sending, ToNext PROVE Sending'
<1>1. m \in Nat \ {0} /\ wire \in Seq(Nat) /\ Len(wire) \in Nat /\ messages \in Seq(Nat)
      /\ DOMAIN wire = 1 .. Len(wire) /\ Len(messages) \in Nat
  BY NetFacts
<1>2. m' \in Nat \ {0} /\ m <= m' /\ m' <= m + 1
  BY <1>1 DEF ToNext
<1>3. \A b \in DOMAIN wire : wire[b] \in 1 .. m' /\ wire[b] <= Len(messages)
  <2>1. \A b \in DOMAIN wire : wire[b] \in 1 .. m /\ wire[b] <= Len(messages)
    BY SendingFacts
  <2> QED
    BY <1>1, <1>2, <2>1
<1>4. \A k \in 1 .. Len(messages) : k < m' => NumberOf(wire, k) = messages[k]
  <2>1. \A k \in 1 .. Len(messages) : k < m => NumberOf(wire, k) = messages[k]
    BY SendingFacts
  <2>2. CASE m' = m
    BY <2>1, <2>2
  <2>3. CASE m' = m + 1 /\ phase = "answer" /\ program # "afl-replay"
    <3>1. NumberOf(wire, m) = messages[m]
      BY <2>3, SendingFacts
    <3>2. \A k \in 1 .. Len(messages) : k < m + 1 => k < m \/ k = m
      BY <1>1
    <3> QED
      BY <2>1, <2>3, <3>1, <3>2
  <2> QED
    BY <2>2, <2>3 DEF ToNext
<1>5. phase' = "send" \/ phase' = "next" \/ m' = m + 1 => \A b \in DOMAIN wire : wire[b] < m'
  <2>1. CASE m' = m + 1
    <3>1. \A b \in DOMAIN wire : wire[b] \in 1 .. m
      BY SendingFacts
    <3> QED
      BY <1>1, <2>1, <3>1
  <2>2. CASE m' = m /\ (phase = "early" \/ phase = "before")
    BY <2>2, SendingFacts
  <2>3. m' # m + 1 /\ (phase' = "send" \/ phase' = "next") =>
          m' = m /\ (phase = "early" \/ phase = "before")
    BY DEF ToNext
  <2> QED
    BY <2>1, <2>2, <2>3
<1>6. ASSUME m' = m + 1 \/ phase' = "send" \/ phase' = "next", m' <= Len(messages)
      PROVE  BytesOf(wire, m') = {} /\ NumberOf(wire, m') = 0 /\ messages[m'] >= 0
  <2>1. \A b \in DOMAIN wire : wire[b] < m' /\ wire[b] \in Nat
    <3>1. \A b \in DOMAIN wire : wire[b] \in Nat
      BY <1>1
    <3> QED
      BY <1>5, <1>6, <3>1
  <2>2. \A b \in DOMAIN wire : wire[b] # m'
    BY <1>2, <2>1
  <2>3. messages[m'] \in Nat
    BY <1>1, <1>2, <1>6
  <2> QED
    BY <2>2, <2>3, NoneOf
<1>7. phase' = "send" =>
        /\ 0 <= messages[m'] /\ 0 <= Len(wire)
        /\ BytesOf(wire, m') = Len(wire) - 0 + 1 .. Len(wire)
  <2> SUFFICES ASSUME phase' = "send"
               PROVE  /\ 0 <= messages[m'] /\ 0 <= Len(wire)
                      /\ BytesOf(wire, m') = Len(wire) - 0 + 1 .. Len(wire)
    OBVIOUS
  <2>1. BytesOf(wire, m') = {} /\ messages[m'] >= 0
    BY <1>6 DEF ToNext
  <2>2. \A n \in Nat : n - 0 + 1 .. n = {}
    OBVIOUS
  <2> QED
    BY <1>1, <2>1, <2>2
<1>8. m' <= Len(messages) => NumberOf(wire, m') <= messages[m']
  <2>1. CASE m' = m + 1
    BY <1>6, <2>1
  <2>2. CASE m' = m
    BY <2>2, SendingFacts DEF ToNext
  <2> QED
    BY <2>1, <2>2 DEF ToNext
<1>9. \A a, b \in DOMAIN wire : a < b => wire[a] <= wire[b]
  BY SendingFacts
<1> QED
  BY <1>3, <1>4, <1>5, <1>7, <1>8, <1>9 DEF Sending, ToNext, Unbegun

(* The size of the whole response, given to the message counted last.      *)
LEMMA LastSize ==
    ASSUME NEW s \in Seq(Int), NEW h \in Seq(Nat), NEW n \in Nat \ {0}, Len(s) = n,
           \A k \in 1 .. n - 1 : s[k] \in 0 .. Len(h) /\ \A b \in 1 .. s[k] : h[b] <= k,
           \A j, k \in 1 .. n - 1 : j <= k => s[j] <= s[k],
           \A b \in DOMAIN h : h[b] <= n,
           NEW t, t = [s EXCEPT ![n] = Len(h)]
    PROVE  /\ t \in Seq(Int) /\ Len(t) = n /\ t[n] = Len(h) /\ t # <<>>
           /\ \A k \in 1 .. n : t[k] \in 0 .. Len(h) /\ \A b \in 1 .. t[k] : h[b] <= k
           /\ \A j, k \in 1 .. n : j <= k => t[j] <= t[k]
<1>1. Len(h) \in Nat /\ Len(h) \in Int /\ n \in 1 .. n /\ DOMAIN h = 1 .. Len(h)
  OBVIOUS
<1>2. /\ t \in Seq(Int) /\ Len(t) = n
      /\ \A k \in 1 .. n : t[k] = IF k = n THEN Len(h) ELSE s[k]
  BY <1>1, ExceptSeq
<1>3. \A k \in 1 .. n : k = n \/ (k \in 1 .. n - 1 /\ k < n)
  OBVIOUS
<1>4. ASSUME NEW k \in 1 .. n PROVE t[k] \in 0 .. Len(h) /\ \A b \in 1 .. t[k] : h[b] <= k
  <2>1. CASE k = n
    <3>1. t[k] = Len(h)
      BY <1>2, <2>1
    <3> QED
      BY <1>1, <2>1, <3>1
  <2>2. CASE k \in 1 .. n - 1 /\ k < n
    <3>1. t[k] = s[k]
      BY <1>2, <2>2
    <3> QED
      BY <2>2, <3>1
  <2> QED
    BY <1>3, <2>1, <2>2
<1>5. ASSUME NEW j \in 1 .. n, NEW k \in 1 .. n, j <= k PROVE t[j] <= t[k]
  <2>1. CASE k = n
    <3>1. t[k] = Len(h) /\ t[j] \in 0 .. Len(h)
      BY <1>2, <1>4, <2>1
    <3> QED
      BY <1>1, <3>1
  <2>2. CASE k < n
    <3>1. j \in 1 .. n - 1 /\ k \in 1 .. n - 1
      BY <1>5, <2>2
    <3>2. t[k] = s[k] /\ t[j] = s[j]
      BY <1>2, <1>5, <2>2
    <3> QED
      BY <1>5, <3>1, <3>2
  <2> QED
    BY <2>1, <2>2
<1>6. t[n] = Len(h) /\ t # <<>>
  BY <1>1, <1>2
<1> QED
  BY <1>2, <1>4, <1>5, <1>6

(* What send_over_network does when it has received, by place and report.  *)
Early == /\ phase = "early" /\ UNCHANGED <<m, response_bytes>>
         /\ \/ phase' = "last" /\ io' = "poll in" /\ UNCHANGED messages_sent
            \/ phase' = "send" /\ io' = "poll out" /\ messages_sent' = 0

NoAnswer == /\ phase = "answer" /\ UNCHANGED <<m, response_bytes, messages_sent>>
            /\ phase' = "last" /\ io' = "poll in"

Answered ==
    /\ phase = "answer" /\ m' = m + 1 /\ UNCHANGED messages_sent
    /\ response_bytes' = [response_bytes EXCEPT ![messages_sent] = Len(response_buf)]
    /\ \/ m < Len(messages) /\ phase' = "send" /\ io' = "poll out"
       \/ ~(m < Len(messages)) /\ phase' = "last" /\ io' = "poll in"

LastReceived ==
    /\ phase = "last" /\ UNCHANGED <<m, messages_sent>> /\ phase' = "done" /\ io' = "none"
    /\ response_bytes' = IF messages_sent > 0 /\ response_bytes # <<>>
                         THEN [response_bytes EXCEPT ![messages_sent] = Len(response_buf)]
                         ELSE response_bytes

Untouched == UNCHANGED <<program, messages, udp, byte_count, response_buf, wire, read, written, inbox>>

(* send_over_network does one of these four.                               *)
LEMMA FuzzerMoves ==
    ASSUME NEW bad, Network!FuzzerReceived(bad)
    PROVE  Early \/ NoAnswer \/ Answered \/ LastReceived
<1>1. CASE phase = "early"
  BY <1>1, Zenon DEF Network!FuzzerReceived, Network!Goto, Early
<1>2. CASE phase = "answer"
  BY <1>2, Zenon DEF Network!FuzzerReceived, Network!Goto, NoAnswer, Answered
<1>3. CASE phase = "last"
  BY <1>3, Zenon DEF Network!FuzzerReceived, Network!Goto, Network!SizeOfLast, Network!NULL,
     LastReceived
<1> QED
  BY <1>1, <1>2, <1>3, Zenon DEF Network!FuzzerReceived

(* All sizes are final, or all but the last.                               *)
LEMMA SettledIs ==
    /\ Settled = Len(response_bytes) - 0 \/ Settled = Len(response_bytes) - 1
    /\ Settled' = Len(response_bytes') - 0 \/ Settled' = Len(response_bytes') - 1
  BY Zenon DEF Settled

(* The four of them keep the session in order.                             *)
LEMMA FuzzerReceives ==
    ASSUME NetParts, program = "afl-fuzz", Untouched,
           Early \/ NoAnswer \/ Answered \/ LastReceived
    PROVE  NetParts'
<1>1. NetTypes /\ NetPlaces /\ Sending /\ Heard /\ Accounts
  BY DEF NetParts
<1>3. /\ UNCHANGED <<program, messages, udp, byte_count, response_buf, wire, read, written, inbox>>
      /\ byte_count = 0 /\ program = "afl-fuzz"
  BY <1>1 DEF Untouched, NetPlaces, Early, NoAnswer, Answered, LastReceived
<1>4. /\ m \in Nat \ {0} /\ messages_sent \in Nat /\ response_buf \in Seq(Nat)
      /\ response_bytes \in Seq(Int) /\ Len(response_bytes) \in Nat /\ Len(response_buf) \in Nat
      /\ Len(messages) \in Nat /\ byte_count' \in Nat
  BY <1>1, <1>3, NetFacts
<1>5. Heard'
  BY <1>1, <1>3, HeardStays
<1>6. CASE Early
  <2>1. /\ UNCHANGED <<m, response_bytes>> /\ phase = "early"
        /\ \/ phase' = "last" /\ io' = "poll in" /\ UNCHANGED messages_sent
           \/ phase' = "send" /\ io' = "poll out" /\ messages_sent' = 0
    BY <1>6 DEF Early
  <2>2. m = 1 /\ response_bytes = <<>> /\ Len(messages) >= 1
    <3>1. m = 1
      BY <1>1, <2>1 DEF NetPlaces
    <3>2. response_bytes = <<>>
      BY <1>1, <1>3, <2>1 DEF Accounts
    <3> QED
      BY <1>1, <3>1, <3>2, FirstMessage
  <2>3. NetTypes'
    <3>1. phase' \in NetPhases /\ io' \in NetCalls
      BY <2>1, PlacesKnown
    <3>2. messages_sent' \in Nat
      <4>1. messages_sent' = messages_sent \/ messages_sent' = 0
        BY <2>1, Zenon
      <4> QED
        BY <1>4, <4>1
    <3>3. m' \in Nat \ {0} /\ response_bytes' \in Seq(Int)
      BY <1>4, <2>1
    <3> QED
      BY <1>1, <1>3, <1>4, <3>1, <3>2, <3>3, TypesStay
  <2>4. NetPlaces'
    BY <1>3, <2>1, <2>2 DEF NetPlaces
  <2>5. Sending'
    <3>1. ToNext
      BY <1>3, <2>1, <2>2 DEF ToNext
    <3> QED
      BY <1>1, <3>1, SendingNext
  <2>6. Accounts'
    <3>1. Len(response_bytes') = 0 /\ response_bytes' = <<>> /\ m' = 1
      BY <2>1, <2>2
    <3>2. Settled' = 0 - 0 \/ Settled' = 0 - 1
      BY <3>1, SettledIs
    <3>3. 1 .. Settled' = {}
      BY <3>2
    <3>4. phase' = "send" => messages_sent' = m' - 1 /\ Len(response_bytes') = m' - 1
      <4>1. phase' = "send" => messages_sent' = 0
        BY <2>1, Zenon
      <4> QED
        BY <3>1, <4>1
    <3> QED
      BY <2>1, <3>1, <3>3, <3>4 DEF Accounts
  <2> QED
    BY <1>5, <2>3, <2>4, <2>5, <2>6 DEF NetParts
<1>7. ASSUME \A b \in DOMAIN wire : wire[b] <= messages_sent
      PROVE  \A b \in DOMAIN response_buf : response_buf[b] <= messages_sent
  <2>1. Said <= messages_sent /\ Said \in Nat
    BY <1>1, <1>4, <1>7, SaidWas
  <2>2. \A b \in DOMAIN response_buf : response_buf[b] <= Said /\ response_buf[b] \in Nat
    <3>1. \A b \in DOMAIN response_buf : response_buf[b] <= Said
      BY <1>1 DEF Heard
    <3>2. \A b \in DOMAIN response_buf : response_buf[b] \in Nat
      BY <1>4
    <3> QED
      BY <3>1, <3>2
  <2> QED
    BY <1>4, <2>1, <2>2
<1>8. CASE NoAnswer
  <2>1. UNCHANGED <<m, response_bytes, messages_sent>> /\ phase' = "last" /\ io' = "poll in"
        /\ phase = "answer"
    BY <1>8 DEF NoAnswer
  <2>2. NetTypes'
    <3>1. phase' \in NetPhases /\ io' \in NetCalls
      BY <2>1, PlacesKnown
    <3>2. m' \in Nat \ {0} /\ response_bytes' \in Seq(Int) /\ messages_sent' \in Nat
      BY <1>4, <2>1
    <3> QED
      BY <1>1, <1>3, <1>4, <3>1, <3>2, TypesStay
  <2>3. NetPlaces'
    BY <1>1, <1>3, <2>1 DEF NetPlaces
  <2>4. Sending'
    BY <1>1, <1>3, <2>1, SendingNext DEF ToNext
  <2>5. Accounts'
    <3>1. \A b \in DOMAIN wire : wire[b] <= m
      BY <1>1 DEF Sending
    <3>2. messages_sent = m /\ Len(response_bytes) = m
      BY <1>1, <1>3, <2>1 DEF Accounts
    <3>3. Settled' = Settled
      BY <2>1 DEF Settled
    <3> QED
      BY <1>1, <1>3, <2>1, <3>1, <3>2, <3>3 DEF Accounts
  <2> QED
    BY <1>5, <2>2, <2>3, <2>4, <2>5 DEF NetParts
<1>9. CASE Answered
  <2>1. /\ response_bytes' = [response_bytes EXCEPT ![messages_sent] = Len(response_buf)]
        /\ m' = m + 1 /\ messages_sent' = messages_sent /\ phase = "answer"
        /\ \/ m < Len(messages) /\ phase' = "send" /\ io' = "poll out"
           \/ ~(m < Len(messages)) /\ phase' = "last" /\ io' = "poll in"
    BY <1>9 DEF Answered
  <2>2. messages_sent = m /\ Len(response_bytes) = m
    BY <1>1, <1>3, <2>1 DEF Accounts
  <2>3. m <= Len(messages)
    BY <1>1, <2>1 DEF NetPlaces
  <2>4. \A b \in DOMAIN wire : wire[b] <= messages_sent
    BY <1>1, <2>2 DEF Sending
  <2>5. Settled = m - 1
    BY <2>1, <2>2 DEF Settled
  <2>6. /\ \A k \in 1 .. m - 1 : /\ response_bytes[k] \in 0 .. Len(response_buf)
                                /\ \A b \in 1 .. response_bytes[k] : response_buf[b] <= k
        /\ \A j, k \in 1 .. m - 1 : j <= k => response_bytes[j] <= response_bytes[k]
    BY <1>1, <1>3, <2>5 DEF Accounts
  <2>7. \A b \in DOMAIN response_buf : response_buf[b] <= m
    BY <1>7, <2>2, <2>4
  <2>8. /\ response_bytes' \in Seq(Int) /\ Len(response_bytes') = m /\ response_bytes' # <<>>
        /\ \A k \in 1 .. m : /\ response_bytes'[k] \in 0 .. Len(response_buf)
                             /\ \A b \in 1 .. response_bytes'[k] : response_buf[b] <= k
        /\ \A j, k \in 1 .. m : j <= k => response_bytes'[j] <= response_bytes'[k]
    <3>1. response_bytes' = [response_bytes EXCEPT ![m] = Len(response_buf)]
      BY <2>1, <2>2
    <3> QED
      BY <1>4, <2>2, <2>6, <2>7, <3>1, LastSize
  <2>9. m + 1 \in Nat \ {0} /\ (m < Len(messages) => m + 1 <= Len(messages)) /\ m + 1 - 1 = m
    BY <1>4
  <2>10. NetTypes'
    <3>1. phase' \in NetPhases /\ io' \in NetCalls
      BY <2>1, PlacesKnown
    <3>2. m' \in Nat \ {0} /\ messages_sent' \in Nat
      BY <1>4, <2>1, <2>9
    <3> QED
      BY <1>1, <1>3, <1>4, <2>8, <3>1, <3>2, TypesStay
  <2>11. NetPlaces'
    BY <1>3, <2>1, <2>9 DEF NetPlaces
  <2>12. Sending'
    <3>1. ToNext
      BY <1>3, <2>1, <2>9 DEF ToNext
    <3> QED
      BY <1>1, <3>1, SendingNext
  <2>13. Accounts'
    <3>1. Settled' = m - 0 \/ Settled' = m - 1
      BY <2>8, SettledIs
    <3>2. \A k \in 1 .. Settled' : k \in 1 .. m
      BY <1>4, <3>1
    <3>3. phase' = "send" => messages_sent' = m' - 1 /\ Len(response_bytes') = m' - 1
      <4>1. m' = m + 1 /\ messages_sent' = m
        BY <2>1, <2>2, Zenon
      <4> QED
        BY <2>8, <2>9, <4>1
    <3>4. Len(response_bytes') = messages_sent' /\ \A b \in DOMAIN wire' : wire'[b] <= messages_sent'
      BY <1>3, <2>1, <2>2, <2>4, <2>8
    <3>5. /\ \A k \in 1 .. Settled' : /\ response_bytes'[k] \in 0 .. Len(response_buf')
                                    /\ \A b \in 1 .. response_bytes'[k] : response_buf'[b] <= k
          /\ \A j, k \in 1 .. Settled' : j <= k => response_bytes'[j] <= response_bytes'[k]
      BY <1>3, <2>8, <3>2
    <3>6. phase' = "send" \/ phase' = "last"
      BY <2>1
    <3> QED
      BY <3>3, <3>4, <3>5, <3>6 DEF Accounts
  <2> QED
    BY <1>5, <2>10, <2>11, <2>12, <2>13 DEF NetParts
<1>10. CASE LastReceived
  <2>1. /\ phase = "last" /\ UNCHANGED <<m, messages_sent>> /\ phase' = "done" /\ io' = "none"
        /\ response_bytes' = IF messages_sent > 0 /\ response_bytes # <<>>
                             THEN [response_bytes EXCEPT ![messages_sent] = Len(response_buf)]
                             ELSE response_bytes
    BY <1>10 DEF LastReceived
  <2>2. NetPlaces'
    BY <1>1, <1>3, <2>1 DEF NetPlaces
  <2>3. Sending'
    BY <1>1, <1>3, <2>1, SendingNext DEF ToNext
  <2>4. ASSUME response_bytes' \in Seq(Int) PROVE NetTypes'
    <3>1. phase' \in NetPhases /\ io' \in NetCalls
      BY <2>1, PlacesKnown
    <3>2. m' \in Nat \ {0} /\ messages_sent' \in Nat
      BY <1>4, <2>1
    <3> QED
      BY <1>1, <1>3, <1>4, <2>4, <3>1, <3>2, TypesStay
  <2>5. CASE response_bytes = <<>>
    <3>1. response_bytes' = <<>> /\ Len(response_bytes') = 0 /\ response_bytes' \in Seq(Int)
      BY <2>1, <2>5
    <3>2. Settled' = 0
      BY <2>1, <3>1 DEF Settled
    <3>3. 1 .. Settled' = {}
      BY <3>2
    <3>4. Accounts'
      BY <2>1, <3>1, <3>3 DEF Accounts
    <3> QED
      BY <1>5, <2>2, <2>3, <2>4, <3>1, <3>4 DEF NetParts
  <2>6. CASE response_bytes # <<>>
    <3>1. PICK n \in Nat : n = messages_sent
      BY <1>4
    <3>2. Len(response_bytes) = n /\ \A b \in DOMAIN wire : wire[b] <= messages_sent
      BY <1>1, <1>3, <2>1, <2>6, <3>1 DEF Accounts
    <3>3. n \in Nat \ {0} /\ n > 0
      BY <1>4, <2>6, <3>2, EmptySeq
    <3>4. response_bytes' = [response_bytes EXCEPT ![n] = Len(response_buf)]
      BY <2>1, <2>6, <3>1, <3>3
    <3>5. Settled = n - 1
      BY <2>1, <3>2 DEF Settled
    <3>6. /\ \A k \in 1 .. n - 1 : /\ response_bytes[k] \in 0 .. Len(response_buf)
                                  /\ \A b \in 1 .. response_bytes[k] : response_buf[b] <= k
          /\ \A j, k \in 1 .. n - 1 : j <= k => response_bytes[j] <= response_bytes[k]
      BY <1>1, <1>3, <3>5 DEF Accounts
    <3>7. \A b \in DOMAIN response_buf : response_buf[b] <= n
      BY <1>7, <3>1, <3>2
    <3>8. /\ response_bytes' \in Seq(Int) /\ Len(response_bytes') = n
          /\ response_bytes'[n] = Len(response_buf)
          /\ \A k \in 1 .. n : /\ response_bytes'[k] \in 0 .. Len(response_buf)
                               /\ \A b \in 1 .. response_bytes'[k] : response_buf[b] <= k
          /\ \A j, k \in 1 .. n : j <= k => response_bytes'[j] <= response_bytes'[k]
      BY <1>4, <3>2, <3>3, <3>4, <3>6, <3>7, LastSize
    <3>9. Settled' = n
      BY <2>1, <3>8 DEF Settled
    <3>10. messages_sent' = n /\ response_buf' = response_buf /\ wire' = wire
      BY <1>3, <2>1, <3>1
    <3>11. Accounts'
      BY <2>1, <3>1, <3>2, <3>8, <3>9, <3>10 DEF Accounts
    <3> QED
      BY <1>5, <2>2, <2>3, <2>4, <3>8, <3>11 DEF NetParts
  <2> QED
    BY <2>5, <2>6
<1> QED
  BY <1>6, <1>8, <1>9, <1>10

(* What aflnet-replay and afl-replay do when they have received.           *)
ReplayMoves ==
    /\ UNCHANGED <<messages_sent, response_bytes>>
    /\ \/ phase' = "done" /\ io' = "none"
          /\ (m' = m \/ (m' = m + 1 /\ phase = "answer" /\ program # "afl-replay"))
       \/ phase = "before" /\ phase' = "send" /\ io' = "poll out" /\ m' = m
       \/ /\ phase = "answer" /\ program # "afl-replay" /\ m # Len(messages)
          /\ phase' = "next" /\ io' = "none" /\ m' = m + 1

(* The two replay tools do no more than this.                              *)
LEMMA ReplayMovesSo ==
    ASSUME NEW bad, Network!ReplayReceived(bad) \/ Network!WholeReceived(bad), NetPlaces,
           Network!ReplayReceived(bad) => program = "aflnet-replay",
           io = "poll in" \/ io = "recv"
    PROVE  ReplayMoves
<1>1. CASE Network!WholeReceived(bad)
  BY <1>1, Zenon DEF Network!WholeReceived, Network!Goto, ReplayMoves
<1>2. CASE Network!ReplayReceived(bad)
  <2>1. program = "aflnet-replay" /\ (phase = "before" \/ phase = "answer")
    <3>1. program = "aflnet-replay"
      BY <1>2
    <3> QED
      BY <3>1 DEF NetPlaces
  <2>2. program # "afl-replay" /\ program = "aflnet-replay"
    BY <2>1
  <2>3. CASE phase = "before"
    <3>1. phase # "answer"
      BY <2>3
    <3> QED
      BY <1>2, <2>2, <2>3, <3>1, Zenon DEF Network!ReplayReceived, Network!Goto, ReplayMoves
  <2>4. CASE phase = "answer"
    <3>1. phase # "before"
      BY <2>4
    <3> QED
      BY <1>2, <2>2, <2>4, <3>1, Zenon DEF Network!ReplayReceived, Network!Goto, ReplayMoves
  <2> QED
    BY <2>1, <2>3, <2>4
<1> QED
  BY <1>1, <1>2

(* A message number is followed by the next.                               *)
LEMMA NextNumber ==
    /\ \A x \in Nat \ {0} : \A y : y = x \/ y = x + 1 => y \in Nat \ {0}
    /\ \A x, y \in Nat : x <= y /\ x # y => x + 1 <= y
  OBVIOUS

(* The moves of the replay tools keep the session in order.                *)
LEMMA ReplayReceives ==
    ASSUME NetParts, program # "afl-fuzz", Untouched, ReplayMoves, io = "poll in" \/ io = "recv"
    PROVE  NetParts'
<1>1. NetTypes /\ NetPlaces /\ Sending /\ Heard /\ Accounts
  BY DEF NetParts
<1>2. UNCHANGED <<program, messages, udp, byte_count, response_buf, wire, read, written, inbox>>
  BY DEF Untouched
<1>3. /\ UNCHANGED <<messages_sent, response_bytes>>
      /\ \/ phase' = "done" /\ io' = "none"
            /\ (m' = m \/ (m' = m + 1 /\ phase = "answer" /\ program # "afl-replay"))
         \/ phase = "before" /\ phase' = "send" /\ io' = "poll out" /\ m' = m
         \/ /\ phase = "answer" /\ program # "afl-replay" /\ m # Len(messages)
            /\ phase' = "next" /\ io' = "none" /\ m' = m + 1
  BY DEF ReplayMoves
<1>4. phase # "send" /\ byte_count = 0
  BY <1>1 DEF NetPlaces
<1>5. /\ m \in Nat \ {0} /\ messages_sent \in Nat /\ response_bytes \in Seq(Int)
      /\ Len(messages) \in Nat /\ byte_count \in Nat
  BY <1>1, NetFacts
<1>6. NetTypes'
  <2>1. phase' \in NetPhases /\ io' \in NetCalls
    BY <1>3, PlacesKnown
  <2>2. m' = m \/ m' = m + 1
    BY <1>3, Zenon
  <2>3. m' \in Nat \ {0}
    BY <1>5, <2>2, NextNumber, Zenon
  <2>4. messages_sent' \in Nat /\ response_bytes' \in Seq(Int) /\ byte_count' \in Nat
    BY <1>2, <1>3, <1>5
  <2> QED
    BY <1>1, <1>2, <2>1, <2>3, <2>4, TypesStay
<1>7. phase = "before" \/ phase = "answer" => m <= Len(messages)
  BY <1>1 DEF NetPlaces
<1>8. m <= Len(messages) /\ m # Len(messages) => m + 1 <= Len(messages)
  <2>1. m \in Nat /\ Len(messages) \in Nat
    BY <1>5
  <2> QED
    BY <2>1, NextNumber, Zenon
<1>9. program = "aflnet-replay" \/ program = "afl-replay"
  BY <1>1 DEF NetTypes
<1>10. NetPlaces'
  <2>1. phase' = "send" \/ phase' = "next" => m' <= Len(messages)
    BY <1>3, <1>7, <1>8
  <2>2. phase' = "next" => program = "aflnet-replay"
    BY <1>3, <1>9
  <2>3. /\ phase' = "done" \/ phase' = "send" \/ phase' = "next"
        /\ phase' = "send" <=> io' = "poll out"
        /\ io' = "none" \/ io' = "poll out"
    BY <1>3
  <2> QED
    BY <1>2, <1>4, <2>1, <2>2, <2>3 DEF NetPlaces
<1>11. Sending'
  <2>1. phase' = "send" => m' <= Len(messages)
    BY <1>3, <1>7
  <2>2. ToNext
    BY <1>2, <1>3, <1>4, <2>1 DEF ToNext
  <2> QED
    BY <1>1, <2>2, SendingNext
<1>12. Heard'
  BY <1>1, <1>2, HeardStays
<1>13. Accounts'
  BY <1>2 DEF Accounts
<1> QED
  BY <1>6, <1>10, <1>11, <1>12, <1>13 DEF NetParts

(* net_recv returns, well or not.                                          *)
LEMMA NetReceives ==
    ASSUME NetParts, NEW bad, Network!ReturnRecv(bad), io = "poll in" \/ io = "recv"
    PROVE  NetParts'
<1>1. NetTypes /\ NetPlaces
  BY DEF NetParts
<1>2. Untouched
  BY DEF Network!ReturnRecv, Network!kernel, Untouched
<1>3. CASE program = "afl-fuzz"
  <2>1. Network!FuzzerReceived(bad)
    BY <1>3 DEF Network!ReturnRecv, Network!Received
  <2> QED
    BY <1>2, <1>3, <2>1, FuzzerMoves, FuzzerReceives
<1>4. CASE program = "aflnet-replay"
  <2>1. Network!ReplayReceived(bad) /\ program # "afl-fuzz"
    BY <1>4 DEF Network!ReturnRecv, Network!Received
  <2>2. ReplayMoves
    BY <1>1, <1>4, <2>1, ReplayMovesSo
  <2> QED
    BY <1>2, <2>1, <2>2, ReplayReceives
<1>5. CASE program = "afl-replay"
  <2>1. Network!WholeReceived(bad) /\ program # "afl-fuzz"
    BY <1>5 DEF Network!ReturnRecv, Network!Received
  <2>2. ReplayMoves
    BY <2>1, Zenon DEF Network!WholeReceived, Network!Goto, ReplayMoves
  <2> QED
    BY <1>2, <2>1, <2>2, ReplayReceives
<1> QED
  BY <1>1, <1>3, <1>4, <1>5 DEF NetTypes

(* net_recv has something to receive, or it returns.                       *)
LEMMA NetRecvPolls ==
    ASSUME NetParts, Network!RecvPoll \/ Network!RecvEnd
    PROVE  NetParts'
<1>1. CASE \E bad \in BOOLEAN : Network!ReturnRecv(bad)
  <2>1. io = "poll in" \/ io = "recv"
    BY DEF Network!RecvPoll, Network!RecvEnd
  <2> QED
    BY <1>1, <2>1, NetReceives
<1>2. CASE /\ io = "poll in" /\ io' = "recv"
           /\ UNCHANGED <<program, messages, udp, phase, m, byte_count, Network!record, Network!kernel>>
  <2>1. NetTypes /\ NetPlaces /\ Sending /\ Heard /\ Accounts
    BY DEF NetParts
  <2>2. UNCHANGED <<program, messages, udp, phase, m, byte_count, messages_sent, response_buf,
                    response_bytes, wire, read, written, inbox>>
    BY <1>2 DEF Network!record, Network!kernel
  <2>3. NetTypes'
    <3>1. /\ m' \in Nat \ {0} /\ byte_count' \in Nat /\ messages_sent' \in Nat
          /\ response_bytes' \in Seq(Int)
      BY <2>1, <2>2 DEF NetTypes
    <3>2. phase' \in NetPhases /\ io' \in NetCalls
      BY <1>2, <2>1, <2>2, PlacesKnown DEF NetTypes
    <3> QED
      BY <2>1, <2>2, <3>1, <3>2, TypesStay
  <2>4. NetPlaces'
    BY <1>2, <2>1, <2>2 DEF NetPlaces
  <2> QED
    BY <2>1, <2>2, <2>3, <2>4, SendingStays, HeardStays, AccountsStay DEF NetParts
<1> QED
  BY <1>1, <1>2 DEF Network!RecvPoll, Network!RecvEnd

(* A sequence behind another, element by element.                          *)
LEMMA Joined ==
    ASSUME NEW S, NEW r \in Seq(S), NEW x \in Seq(S)
    PROVE  /\ r \o x \in Seq(S) /\ Len(r \o x) = Len(r) + Len(x)
           /\ Len(r) \in Nat /\ Len(x) \in Nat
           /\ DOMAIN r = 1 .. Len(r) /\ DOMAIN x = 1 .. Len(x)
           /\ DOMAIN (r \o x) = 1 .. Len(r) + Len(x)
           /\ \A a \in DOMAIN r : (r \o x)[a] = r[a] /\ a \in DOMAIN (r \o x)
           /\ \A a \in DOMAIN (r \o x) :
                \/ a \in DOMAIN r /\ (r \o x)[a] = r[a]
                \/ a > Len(r) /\ a - Len(r) \in DOMAIN x /\ (r \o x)[a] = x[a - Len(r)]
<1>1. PICK y \in Seq(S) : y = r \o x
  BY ConcatProperties
<1>2. Len(y) = Len(r) + Len(x)
      /\ \A a \in 1 .. Len(r) + Len(x) : y[a] = IF a <= Len(r) THEN r[a] ELSE x[a - Len(r)]
  BY <1>1, ConcatProperties
<1>3. Len(r) \in Nat /\ Len(x) \in Nat /\ DOMAIN r = 1 .. Len(r) /\ DOMAIN x = 1 .. Len(x)
      /\ DOMAIN y = 1 .. Len(r) + Len(x)
  BY <1>2
<1>4. \A p, q \in Nat : \A a \in 1 .. p + q : a \in 1 .. p \/ (a > p /\ ~(a <= p) /\ a - p \in 1 .. q)
  OBVIOUS
<1>5. \A a \in 1 .. Len(r) + Len(x) :
        a \in 1 .. Len(r) \/ (a > Len(r) /\ ~(a <= Len(r)) /\ a - Len(r) \in 1 .. Len(x))
  BY <1>3, <1>4
<1>6. \A a \in DOMAIN y :
        \/ a \in DOMAIN r /\ y[a] = r[a]
        \/ a > Len(r) /\ a - Len(r) \in DOMAIN x /\ y[a] = x[a - Len(r)]
  <2> SUFFICES ASSUME NEW a \in 1 .. Len(r) + Len(x)
               PROVE  \/ a \in 1 .. Len(r) /\ y[a] = r[a]
                      \/ a > Len(r) /\ a - Len(r) \in 1 .. Len(x) /\ y[a] = x[a - Len(r)]
    BY <1>3
  <2>1. CASE a \in 1 .. Len(r)
    BY <1>2, <1>3, <2>1
  <2>2. CASE a > Len(r) /\ ~(a <= Len(r)) /\ a - Len(r) \in 1 .. Len(x)
    BY <1>2, <2>2
  <2> QED
    BY <1>5, <2>1, <2>2
<1>7. \A a \in DOMAIN r : y[a] = r[a] /\ a \in DOMAIN y
  BY <1>2, <1>3
<1> QED
  BY <1>1, <1>2, <1>3, <1>6, <1>7

(* Sequences of numbers, one behind the other.                             *)
LEMMA ConcatNumbers == \A r, t, u \in Seq(Nat) : (r \o t) \o u = r \o (t \o u)
  OBVIOUS

(* The part that is taken and the part that is left.                       *)
LEMMA SplitAt ==
    ASSUME NEW S, NEW s \in Seq(S), NEW n \in Nat, n <= Len(s)
    PROVE  /\ SubSeq(s, 1, n) \in Seq(S) /\ SubSeq(s, n + 1, Len(s)) \in Seq(S)
           /\ s = SubSeq(s, 1, n) \o SubSeq(s, n + 1, Len(s))
           /\ Len(SubSeq(s, 1, n)) = n
           /\ \A a \in 1 .. n : SubSeq(s, 1, n)[a] = s[a]
<1>1. Len(s) \in Nat /\ \A a \in 1 .. Len(s) : s[a] \in S
  OBVIOUS
<1>2. PICK l \in Nat : l = Len(s)
  BY <1>1
<1>3. n \in 0 .. l /\ n <= l /\ n \in Int /\ l \in Int /\ n + 1 \in Int /\ 1 \in Int
  BY <1>2
<1>4. (\A a \in 1 .. n : s[a] \in S) /\ (\A a \in n + 1 .. l : s[a] \in S)
  <2>1. \A a \in 1 .. n : a \in 1 .. l
    BY <1>3
  <2>2. \A a \in n + 1 .. l : a \in 1 .. l
    BY <1>3
  <2> QED
    BY <1>1, <1>2, <2>1, <2>2
<1>5. /\ SubSeq(s, 1, n) \in Seq(S)
      /\ Len(SubSeq(s, 1, n)) = IF 1 <= n THEN n - 1 + 1 ELSE 0
      /\ \A a \in 1 .. n - 1 + 1 : SubSeq(s, 1, n)[a] = s[1 + a - 1]
  BY <1>3, <1>4, SubSeqProperties
<1>6. SubSeq(s, n + 1, l) \in Seq(S)
  BY <1>3, <1>4, SubSeqProperties
<1>7. SubSeq(s, 1, n) \o SubSeq(s, n + 1, l) = SubSeq(s, 1, l)
  <2>1. 1 \in 1 .. l + 1 /\ n \in 1 - 1 .. l /\ l \in n .. l
    BY <1>3
  <2> QED
    BY <1>2, <2>1, ConcatAdjacentSubSeq
<1>8. SubSeq(s, 1, l) = s
  BY <1>2, SubSeqFull
<1>9. (IF 1 <= n THEN n - 1 + 1 ELSE 0) = n /\ n - 1 + 1 = n /\ \A a \in 1 .. n : 1 + a - 1 = a
  BY <1>3
<1> QED
  BY <1>2, <1>5, <1>6, <1>7, <1>8, <1>9

(* The server would answer with a later message: what was written remains  *)
(* in order.                                                               *)
LEMMA SaidLater ==
    ASSUME NetTypes, Heard, NEW x \in Nat, Said <= x, Said \in Nat
    PROVE  /\ \A a \in DOMAIN response_buf : response_buf[a] <= x
           /\ udp => \A d \in DOMAIN inbox : \A c \in DOMAIN inbox[d] : inbox[d][c] <= x
           /\ ~udp => \A c \in DOMAIN inbox : inbox[c] <= x
<1>1. \A y, z \in Nat : y <= z /\ z <= x => y <= x
  OBVIOUS
<1>2. \A a \in DOMAIN response_buf : response_buf[a] <= Said /\ response_buf[a] \in Nat
  <2>1. \A a \in DOMAIN response_buf : response_buf[a] \in Nat
    BY NetFacts
  <2> QED
    BY <2>1 DEF Heard
<1>3. ASSUME udp, NEW d \in DOMAIN inbox, NEW c \in DOMAIN inbox[d] PROVE inbox[d][c] <= x
  <2>1. inbox \in Seq(Seq(Nat))
    BY <1>3 DEF NetTypes
  <2>2. inbox[d] \in Seq(Nat)
    BY <1>3, <2>1
  <2>3. inbox[d][c] \in Nat
    BY <1>3, <2>2
  <2>4. inbox[d][c] <= Said
    BY <1>3 DEF Heard
  <2> QED
    BY <1>1, <2>3, <2>4
<1>4. ASSUME ~udp, NEW c \in DOMAIN inbox PROVE inbox[c] <= x
  <2>1. inbox \in Seq(Nat)
    BY <1>4 DEF NetTypes
  <2>2. inbox[c] \in Nat
    BY <1>4, <2>1
  <2>3. inbox[c] <= Said
    BY <1>4 DEF Heard
  <2> QED
    BY <1>1, <2>2, <2>3
<1> QED
  BY <1>1, <1>2, <1>3, <1>4

(* The server reads on.                                                    *)
LEMMA NetServerReads == ASSUME NetParts, Network!ServerReads PROVE NetParts'
<1>1. NetTypes /\ NetPlaces /\ Sending /\ Heard /\ Accounts
  BY DEF NetParts
<1>2. /\ UNCHANGED <<program, messages, udp, phase, io, m, byte_count, messages_sent, response_buf,
                     response_bytes, wire, written, inbox>>
      /\ read' \in read + 1 .. Len(wire)
  BY DEF Network!ServerReads, Network!client, Network!record
<1>3. wire \in Seq(Nat) /\ Len(wire) \in Nat /\ DOMAIN wire = 1 .. Len(wire) /\ read \in 0 .. Len(wire)
  BY <1>1, NetFacts
<1>4. read' \in 1 .. Len(wire) /\ read < read' /\ read' # 0
  BY <1>2, <1>3
<1>5. Said' = wire[read'] /\ Said' \in Nat
  BY <1>2, <1>3, <1>4 DEF Said
<1>6. Said \in Nat /\ Said <= Said'
  <2>1. CASE read = 0
    BY <1>5, <2>1 DEF Said
  <2>2. CASE read # 0
    <3>1. read \in 1 .. Len(wire)
      BY <1>3, <2>2
    <3>2. wire[read] <= wire[read'] /\ wire[read] \in Nat
      BY <1>1, <1>3, <1>4, <3>1, SendingFacts
    <3> QED
      BY <1>5, <2>2, <3>2 DEF Said
  <2> QED
    BY <2>1, <2>2
<1>7. NetTypes'
  <2>1. read' \in 0 .. Len(wire)
    BY <1>4
  <2> QED
    BY <1>1, <1>2, <2>1 DEF NetTypes
<1>8. Heard'
  <2>1. PICK x \in Nat : x = Said'
    BY <1>5
  <2>2. /\ \A a \in DOMAIN response_buf : response_buf[a] <= x
        /\ udp => \A d \in DOMAIN inbox : \A c \in DOMAIN inbox[d] : inbox[d][c] <= x
        /\ ~udp => \A c \in DOMAIN inbox : inbox[c] <= x
    BY <1>1, <1>6, <2>1, SaidLater
  <2> HIDE DEF Said
  <2> QED
    BY <1>1, <1>2, <2>1, <2>2 DEF Heard
<1>9. NetPlaces'
  BY <1>1, <1>2 DEF NetPlaces
<1> QED
  BY <1>1, <1>2, <1>7, <1>8, <1>9, SendingStays, AccountsStay DEF NetParts

(* The server closes: what it wrote remains to be received.                *)
LEMMA NetServerCloses == ASSUME NetParts, Network!ServerCloses PROVE NetParts'
<1>1. NetTypes /\ NetPlaces /\ Sending /\ Heard /\ Accounts
  BY DEF NetParts
<1>2. UNCHANGED <<program, messages, udp, phase, io, m, byte_count, messages_sent, response_buf,
                  response_bytes, wire, read, written, inbox>>
  BY DEF Network!ServerCloses, Network!client, Network!record
<1>3. NetTypes' /\ NetPlaces'
  BY <1>1, <1>2 DEF NetTypes, NetPlaces
<1> QED
  BY <1>1, <1>2, <1>3, SendingStays, HeardStays, AccountsStay DEF NetParts

(* Bytes that are all the same.                                            *)
LEMMA CopiesOf ==
    ASSUME NEW n \in Nat, NEW k \in Nat
    PROVE  Copies(n, k) \in Seq(Nat) /\ \A b \in DOMAIN Copies(n, k) : Copies(n, k)[b] = k
<1>1. Copies(n, k) \in [1 .. n -> Nat] /\ \A b \in DOMAIN Copies(n, k) : Copies(n, k)[b] = k
  BY DEF Copies
<1>2. \A f \in [1 .. n -> Nat] : f \in Seq(Nat)
  OBVIOUS
<1> QED
  BY <1>1, <1>2

(* The server answers the message that it has read last.                   *)
LEMMA NetServerWrites == ASSUME NetParts, Network!ServerWrites PROVE NetParts'
<1>1. NetTypes /\ NetPlaces /\ Sending /\ Heard /\ Accounts
  BY DEF NetParts
<1>2. PICK n \in 1 .. MaxAnswer - Len(written) :
        /\ written' = written \o Copies(n, Said)
        /\ inbox' = IF udp THEN Append(inbox, Copies(n, Said)) ELSE inbox \o Copies(n, Said)
  BY Zenon DEF Network!ServerWrites, Copies, Said
<1>3. UNCHANGED <<program, messages, udp, phase, io, m, byte_count, messages_sent, response_buf,
                  response_bytes, wire, read>>
  BY DEF Network!ServerWrites, Network!client, Network!record
<1>4. n \in Nat /\ Said \in Nat
  <2>1. Len(messages) \in Nat /\ \A b \in DOMAIN wire : wire[b] <= Len(messages)
    BY <1>1, SendingFacts, NetFacts
  <2>2. Said \in Nat
    BY <1>1, <2>1, SaidWas
  <2>3. MaxAnswer - Len(written) \in Int
    <3>1. Len(written) \in Nat
      BY <1>1 DEF NetTypes
    <3> QED
      BY <3>1, NetworkAssumption
  <2> QED
    BY <2>2, <2>3
<1>5. PICK x \in Nat : x = Said
  BY <1>4
<1>6. PICK t \in Seq(Nat) : t = Copies(n, x) /\ \A b \in DOMAIN t : t[b] = x
  BY <1>4, CopiesOf
<1>7. Said' = x
  BY <1>3, <1>5 DEF Said
<1>8. /\ written' = written \o t
      /\ udp => inbox' = Append(inbox, t)
      /\ ~udp => inbox' = inbox \o t
  BY <1>2, <1>5, <1>6
<1>9. /\ written \in Seq(Nat) /\ response_buf \in Seq(Nat)
      /\ udp => inbox \in Seq(Seq(Nat))
      /\ ~udp => inbox \in Seq(Nat)
  BY <1>1 DEF NetTypes
<1>10. written' \in Seq(Nat)
  BY <1>8, <1>9, Joined
<1>11. /\ \A a \in DOMAIN response_buf : response_buf[a] <= x
       /\ udp => \A d \in DOMAIN inbox : \A c \in DOMAIN inbox[d] : inbox[d][c] <= x
       /\ ~udp => \A c \in DOMAIN inbox : inbox[c] <= x
  <2>1. Said <= x /\ Said \in Nat
    BY <1>5
  <2> QED
    BY <1>1, <2>1, SaidLater
<1>12. inbox' \in (IF udp THEN Seq(Seq(Nat)) ELSE Seq(Nat)) /\ Heard'
  <2>1. CASE udp
    <3>1. PICK q \in Seq(Seq(Nat)) : q = Append(inbox, t)
      BY <1>9, <2>1, AppendProperties
    <3>2. /\ Len(inbox) \in Nat /\ Len(q) = Len(inbox) + 1
          /\ \A d \in 1 .. Len(inbox) : q[d] = inbox[d]
          /\ q[Len(inbox) + 1] = t
      BY <1>9, <2>1, <3>1, AppendProperties
    <3>3. DOMAIN inbox = 1 .. Len(inbox) /\ DOMAIN q = 1 .. Len(inbox) + 1
      BY <1>9, <2>1, <3>2
    <3>4. \A d \in DOMAIN q : (d \in DOMAIN inbox /\ q[d] = inbox[d]) \/ (d = Len(inbox) + 1 /\ q[d] = t)
      BY <3>2, <3>3
    <3>5. /\ \A a, b \in DOMAIN response_buf : a < b => response_buf[a] <= response_buf[b]
          /\ \A d \in DOMAIN inbox : \A c \in DOMAIN inbox[d] :
               \A a \in DOMAIN response_buf : response_buf[a] <= inbox[d][c]
          /\ \A d, e \in DOMAIN inbox : d <= e =>
               \A c \in DOMAIN inbox[d], f \in DOMAIN inbox[e] : inbox[d][c] <= inbox[e][f]
      BY <1>1, <2>1 DEF Heard
    <3>6. ASSUME NEW d \in DOMAIN q, NEW c \in DOMAIN q[d]
          PROVE  q[d][c] <= x /\ \A a \in DOMAIN response_buf : response_buf[a] <= q[d][c]
      <4>1. CASE d \in DOMAIN inbox /\ q[d] = inbox[d]
        BY <1>11, <2>1, <3>5, <3>6, <4>1
      <4>2. CASE q[d] = t
        BY <1>6, <1>11, <3>6, <4>2
      <4> QED
        BY <3>4, <4>1, <4>2
    <3>7. ASSUME NEW d \in DOMAIN q, NEW e \in DOMAIN q, d <= e, NEW c \in DOMAIN q[d], NEW f \in DOMAIN q[e]
          PROVE  q[d][c] <= q[e][f]
      <4>1. CASE e \in DOMAIN inbox /\ q[e] = inbox[e]
        <5>1. d \in DOMAIN inbox
          BY <3>2, <3>3, <3>7, <4>1
        <5>2. q[d] = inbox[d]
          BY <3>2, <3>3, <5>1
        <5> QED
          BY <3>5, <3>7, <4>1, <5>1, <5>2
      <4>2. CASE q[e] = t
        <5>1. q[e][f] = x
          BY <1>6, <3>7, <4>2
        <5> QED
          BY <3>6, <3>7, <5>1
      <4> QED
        BY <3>4, <4>1, <4>2
    <3>8. inbox' = q
      BY <1>8, <2>1, <3>1
    <3>9. udp' /\ inbox' = q /\ response_buf' = response_buf /\ Said' = x
      BY <1>3, <1>7, <2>1, <3>8
    <3>10. /\ \A a \in DOMAIN response_buf : response_buf[a] <= x
           /\ \A a, b \in DOMAIN response_buf : a < b => response_buf[a] <= response_buf[b]
           /\ \A d \in DOMAIN q : \A c \in DOMAIN q[d] :
                q[d][c] <= x /\ \A a \in DOMAIN response_buf : response_buf[a] <= q[d][c]
           /\ \A d, e \in DOMAIN q : d <= e =>
                \A c \in DOMAIN q[d], f \in DOMAIN q[e] : q[d][c] <= q[e][f]
      BY <1>11, <3>5, <3>6, <3>7
    <3>11. Heard'
      BY <3>9, <3>10, Zenon DEF Heard
    <3> QED
      BY <2>1, <3>1, <3>8, <3>11
  <2>2. CASE ~udp
    <3>1. PICK q \in Seq(Nat) : q = inbox \o t
      BY <1>9, <2>2, ConcatProperties
    <3>2. \A a \in DOMAIN q : (a \in DOMAIN inbox /\ q[a] = inbox[a]) \/ (\E b \in DOMAIN t : q[a] = t[b])
      BY <1>9, <2>2, <3>1, Joined
    <3>3. \A a \in DOMAIN q : q[a] <= x
      BY <1>6, <1>11, <2>2, <3>2
    <3>4. inbox' = q
      BY <1>8, <2>2, <3>1
    <3>5. written' = response_buf \o q
      <4>1. written = response_buf \o inbox
        BY <1>1, <2>2 DEF Heard
      <4>2. (response_buf \o inbox) \o t = response_buf \o (inbox \o t)
        <5>1. response_buf \in Seq(Nat) /\ inbox \in Seq(Nat) /\ t \in Seq(Nat)
          BY <1>9, <2>2
        <5> QED
          BY <5>1, ConcatNumbers, Zenon
      <4> QED
        BY <1>8, <3>1, <4>1, <4>2
    <3> QED
      BY <1>3, <1>7, <1>11, <2>2, <3>1, <3>3, <3>4, <3>5 DEF Heard
  <2> QED
    BY <2>1, <2>2
<1>13. NetTypes'
  BY <1>1, <1>3, <1>10, <1>12 DEF NetTypes
<1>14. NetPlaces'
  BY <1>1, <1>3 DEF NetPlaces
<1> QED
  BY <1>1, <1>3, <1>12, <1>13, <1>14, SendingStays, AccountsStay DEF NetParts

(* One recv: what is taken goes behind the response.                       *)
LEMMA NetRecv == ASSUME NetParts, Network!Recv PROVE NetParts'
<1>1. NetTypes /\ NetPlaces /\ Sending /\ Heard /\ Accounts
  BY DEF NetParts
<1>2. /\ UNCHANGED <<program, messages, udp, phase, io, m, byte_count, messages_sent,
                     response_bytes, wire, read, written>>
      /\ inbox # <<>> /\ io = "recv"
  BY DEF Network!Recv, Network!client
<1>3. PICK n \in Nat :
        /\ n <= Len(Network!Ready)
        /\ inbox' = IF udp THEN Tail(inbox) ELSE SubSeq(inbox, n + 1, Len(inbox))
        /\ response_buf' = response_buf \o SubSeq(Network!Ready, 1, n)
  <2>1. PICK n \in 1 .. MaxAnswer :
          Network!Takes(n) /\ response_buf' = response_buf \o SubSeq(Network!Ready, 1, n)
    BY DEF Network!Recv
  <2>2. n \in Nat
    BY <2>1, NetworkAssumption
  <2> QED
    BY <2>1, <2>2 DEF Network!Takes
<1>4. /\ response_buf \in Seq(Nat) /\ Len(response_buf) \in Nat
      /\ DOMAIN response_buf = 1 .. Len(response_buf)
  BY <1>1, NetFacts
<1>5. Network!Ready \in Seq(Nat)
  <2>1. CASE udp
    <3>1. inbox \in Seq(Seq(Nat))
      BY <1>1, <2>1 DEF NetTypes
    <3>2. Head(inbox) \in Seq(Nat)
      BY <1>2, <3>1, HeadTailProperties
    <3> QED
      BY <2>1, <3>2 DEF Network!Ready
  <2>2. CASE ~udp
    BY <1>1, <2>2 DEF NetTypes, Network!Ready
  <2> QED
    BY <2>1, <2>2
<1>6. PICK r \in Seq(Nat) : r = Network!Ready
  BY <1>5
<1>7. PICK t \in Seq(Nat) : /\ t = SubSeq(r, 1, n) /\ Len(t) = n
                            /\ \A a \in 1 .. n : t[a] = r[a]
  <2>1. n \in Nat /\ n <= Len(r)
    BY <1>3, <1>6
  <2>2. /\ SubSeq(r, 1, n) \in Seq(Nat) /\ Len(SubSeq(r, 1, n)) = n
        /\ \A a \in 1 .. n : SubSeq(r, 1, n)[a] = r[a]
    BY <2>1, SplitAt, Zenon
  <2> QED
    BY <2>2, Zenon
<1>8. DOMAIN t = 1 .. n /\ DOMAIN r = 1 .. Len(r) /\ Len(r) \in Nat
      /\ \A a \in DOMAIN t : a \in DOMAIN r /\ t[a] = r[a]
  <2>1. n <= Len(r)
    BY <1>3, <1>6
  <2> QED
    BY <1>7, <2>1
<1>9. PICK q \in Seq(Nat) : q = response_buf \o t
  BY <1>4, ConcatProperties
<1>10. /\ Len(q) \in Nat /\ Len(response_buf) <= Len(q)
       /\ DOMAIN q = 1 .. Len(q)
       /\ \A a \in DOMAIN response_buf : q[a] = response_buf[a] /\ a \in DOMAIN q
       /\ \A a \in DOMAIN q :
            \/ a \in DOMAIN response_buf /\ q[a] = response_buf[a]
            \/ /\ a > Len(response_buf) /\ a - Len(response_buf) \in DOMAIN r
               /\ q[a] = r[a - Len(response_buf)]
  <2>1. /\ Len(q) = Len(response_buf) + Len(t) /\ Len(t) \in Nat
        /\ DOMAIN q = 1 .. Len(response_buf) + Len(t)
        /\ \A a \in DOMAIN response_buf : q[a] = response_buf[a] /\ a \in DOMAIN q
        /\ \A a \in DOMAIN q :
             \/ a \in DOMAIN response_buf /\ q[a] = response_buf[a]
             \/ /\ a > Len(response_buf) /\ a - Len(response_buf) \in DOMAIN t
                /\ q[a] = t[a - Len(response_buf)]
    BY <1>4, <1>9, Joined
  <2>2. Len(q) \in Nat /\ Len(response_buf) <= Len(q)
    BY <1>4, <2>1
  <2>3. DOMAIN q = 1 .. Len(q)
    BY <2>1
  <2> QED
    BY <1>8, <2>1, <2>2, <2>3
<1>11. response_buf' = q
  BY <1>3, <1>6, <1>7, <1>9
<1>12. PICK x \in Nat : x = Said
  <2>1. Len(messages) \in Nat /\ \A b \in DOMAIN wire : wire[b] <= Len(messages)
    BY <1>1, SendingFacts, NetFacts
  <2> QED
    BY <1>1, <2>1, SaidWas
<1>13. Said' = x
  BY <1>2, <1>12 DEF Said
<1>14. inbox' \in (IF udp THEN Seq(Seq(Nat)) ELSE Seq(Nat)) /\ Heard'
  <2>1. CASE udp
    <3>1. inbox \in Seq(Seq(Nat)) /\ r = Head(inbox)
      BY <1>1, <1>6, <2>1 DEF NetTypes, Network!Ready
    <3>2. PICK p \in Seq(Seq(Nat)) : /\ p = Tail(inbox) /\ Len(p) = Len(inbox) - 1
                                     /\ \A d \in 1 .. Len(p) : p[d] = inbox[d + 1]
      BY <1>2, <3>1, HeadTailProperties
    <3>3. /\ Len(inbox) \in Nat /\ Len(inbox) > 0 /\ DOMAIN inbox = 1 .. Len(inbox)
          /\ DOMAIN p = 1 .. Len(p) /\ r = inbox[1] /\ Len(p) \in Nat
      BY <1>2, <3>1, <3>2, EmptySeq
    <3>4. /\ 1 \in DOMAIN inbox
          /\ \A d \in DOMAIN p : d + 1 \in DOMAIN inbox /\ 1 <= d + 1 /\ p[d] = inbox[d + 1]
          /\ \A d, e \in DOMAIN p : d <= e => d + 1 <= e + 1
      BY <3>2, <3>3
    <3>5. /\ \A a \in DOMAIN response_buf : response_buf[a] <= x
          /\ \A a, b \in DOMAIN response_buf : a < b => response_buf[a] <= response_buf[b]
          /\ \A d \in DOMAIN inbox : \A c \in DOMAIN inbox[d] :
               /\ inbox[d][c] <= x
               /\ \A a \in DOMAIN response_buf : response_buf[a] <= inbox[d][c]
          /\ \A d, e \in DOMAIN inbox : d <= e =>
               \A c \in DOMAIN inbox[d], f \in DOMAIN inbox[e] : inbox[d][c] <= inbox[e][f]
      BY <1>1, <1>12, <2>1 DEF Heard
    <3>6. \A c \in DOMAIN r : /\ r[c] <= x
                              /\ \A a \in DOMAIN response_buf : response_buf[a] <= r[c]
                              /\ \A f \in DOMAIN r : r[c] <= r[f]
                              /\ \A d \in DOMAIN p : \A f \in DOMAIN p[d] : r[c] <= p[d][f]
      <4>1. 1 <= 1
        OBVIOUS
      <4> QED
        BY <3>3, <3>4, <3>5, <4>1
    <3>7. \A a \in DOMAIN q : q[a] <= x
      BY <1>10, <3>5, <3>6
    <3>8. ASSUME NEW a \in DOMAIN q, NEW b \in DOMAIN q, a < b PROVE q[a] <= q[b]
      <4>1. CASE b \in DOMAIN response_buf /\ q[b] = response_buf[b]
        <5>1. a \in DOMAIN response_buf
          BY <1>4, <1>10, <3>8, <4>1
        <5>2. q[a] = response_buf[a]
          BY <1>10, <5>1
        <5> QED
          BY <3>5, <3>8, <4>1, <5>1, <5>2
      <4>2. CASE b - Len(response_buf) \in DOMAIN r /\ q[b] = r[b - Len(response_buf)]
        <5>1. PICK f \in DOMAIN r : q[b] = r[f]
          BY <4>2
        <5>2. CASE a \in DOMAIN response_buf /\ q[a] = response_buf[a]
          BY <3>6, <5>1, <5>2
        <5>3. CASE a - Len(response_buf) \in DOMAIN r /\ q[a] = r[a - Len(response_buf)]
          <6>1. PICK c \in DOMAIN r : q[a] = r[c]
            BY <5>3
          <6> QED
            BY <3>6, <5>1, <6>1
        <5> QED
          BY <1>10, <5>2, <5>3
      <4> QED
        BY <1>10, <4>1, <4>2
    <3>9. ASSUME NEW d \in DOMAIN p, NEW c \in DOMAIN p[d]
          PROVE  p[d][c] <= x /\ \A a \in DOMAIN q : q[a] <= p[d][c]
      <4>1. p[d][c] <= x /\ \A a \in DOMAIN response_buf : response_buf[a] <= p[d][c]
        BY <3>4, <3>5, <3>9
      <4>2. \A a \in DOMAIN r : r[a] <= p[d][c]
        BY <3>6, <3>9
      <4> QED
        BY <1>10, <4>1, <4>2
    <3>10. ASSUME NEW d \in DOMAIN p, NEW e \in DOMAIN p, d <= e, NEW c \in DOMAIN p[d], NEW f \in DOMAIN p[e]
           PROVE  p[d][c] <= p[e][f]
      BY <3>4, <3>5, <3>10
    <3>11. inbox' = p
      BY <1>3, <2>1, <3>2
    <3>12. udp' /\ inbox' = p /\ response_buf' = q /\ Said' = x
      BY <1>2, <1>11, <1>13, <2>1, <3>11
    <3>13. /\ \A a \in DOMAIN q : q[a] <= x
           /\ \A a, b \in DOMAIN q : a < b => q[a] <= q[b]
           /\ \A d \in DOMAIN p : \A c \in DOMAIN p[d] :
                p[d][c] <= x /\ \A a \in DOMAIN q : q[a] <= p[d][c]
           /\ \A d, e \in DOMAIN p : d <= e =>
                \A c \in DOMAIN p[d], f \in DOMAIN p[e] : p[d][c] <= p[e][f]
      BY <3>7, <3>8, <3>9, <3>10
    <3>14. inbox' \in Seq(Seq(Nat)) /\ Heard'
      BY <3>2, <3>12, <3>13 DEF Heard
    <3> QED
      BY <2>1, <3>14
  <2>2. CASE ~udp
    <3>1. inbox \in Seq(Nat) /\ r = inbox
      BY <1>1, <1>6, <2>2 DEF NetTypes, Network!Ready
    <3>2. n <= Len(inbox)
      BY <1>3, <1>6, <3>1
    <3>3. PICK s \in Seq(Nat) : s = SubSeq(inbox, n + 1, Len(inbox)) /\ inbox = t \o s
      <4>1. /\ SubSeq(inbox, n + 1, Len(inbox)) \in Seq(Nat)
            /\ inbox = SubSeq(inbox, 1, n) \o SubSeq(inbox, n + 1, Len(inbox))
        BY <3>1, <3>2, SplitAt, Zenon
      <4> QED
        BY <1>7, <3>1, <4>1, Zenon
    <3>4. written = response_buf \o (t \o s)
      BY <1>1, <2>2, <3>3 DEF Heard
    <3>5. written = q \o s
      <4>1. (response_buf \o t) \o s = response_buf \o (t \o s)
        BY <1>4, ConcatNumbers, Zenon
      <4> QED
        BY <1>9, <3>4, <4>1
    <3>6. \A c \in DOMAIN inbox : inbox[c] <= x
      BY <1>1, <1>12, <2>2 DEF Heard
    <3>7. \A c \in DOMAIN s : s[c] <= x
      <4>1. PICK y \in Seq(Nat) : y = inbox /\ y = t \o s
        BY <3>1, <3>3
      <4>2. ASSUME NEW c \in DOMAIN s PROVE \E e \in DOMAIN y : y[e] = s[c]
        <5>1. /\ DOMAIN s = 1 .. Len(s) /\ Len(s) \in Nat /\ Len(t) \in Nat
              /\ \A a \in 1 .. Len(t) + Len(s) : y[a] = IF a <= Len(t) THEN t[a] ELSE s[a - Len(t)]
              /\ DOMAIN y = 1 .. Len(t) + Len(s)
          BY <4>1, Joined, ConcatProperties
        <5>2. c + Len(t) \in 1 .. Len(t) + Len(s) /\ ~(c + Len(t) <= Len(t)) /\ c + Len(t) - Len(t) = c
          BY <4>2, <5>1
        <5>3. y[c + Len(t)] = s[c]
          BY <5>1, <5>2
        <5> QED
          BY <5>1, <5>2, <5>3
      <4> QED
        BY <3>6, <4>1, <4>2
    <3>8. \A a \in DOMAIN q : q[a] <= x
      <4>1. \A a \in DOMAIN response_buf : response_buf[a] <= x
        BY <1>1, <1>12 DEF Heard
      <4> QED
        BY <1>10, <3>1, <3>6, <4>1
    <3>9. inbox' = s
      BY <1>3, <2>2, <3>3
    <3> QED
      BY <1>2, <1>11, <1>13, <2>2, <3>3, <3>5, <3>7, <3>8, <3>9 DEF Heard
  <2> QED
    BY <2>1, <2>2
<1>15. NetTypes'
  BY <1>1, <1>2, <1>11, <1>14 DEF NetTypes
<1>16. NetPlaces'
  BY <1>1, <1>2 DEF NetPlaces
<1>17. Sending'
  BY <1>1, <1>2, SendingStays
<1>18. Accounts'
  <2>1. phase # "done"
    BY <1>1, <1>2 DEF NetPlaces
  <2>2. Settled' = Settled
    BY <1>2 DEF Settled
  <2>3. ASSUME NEW k \in 1 .. Settled, response_bytes[k] \in 0 .. Len(response_buf),
               \A b \in 1 .. response_bytes[k] : response_buf[b] <= k
        PROVE  /\ response_bytes[k] \in 0 .. Len(q)
               /\ \A b \in 1 .. response_bytes[k] : q[b] <= k
    <3>1. response_bytes[k] \in 0 .. Len(q)
      BY <1>4, <1>10, <2>3
    <3>2. \A b \in 1 .. response_bytes[k] : b \in DOMAIN response_buf
      BY <1>4, <2>3
    <3> QED
      BY <1>10, <2>3, <3>1, <3>2
  <2> QED
    BY <1>1, <1>2, <1>11, <2>1, <2>2, <2>3 DEF Accounts
<1> QED
  BY <1>14, <1>15, <1>16, <1>17, <1>18 DEF NetParts

(* Every step of a session keeps it in order.                              *)
LEMMA NetSteps == ASSUME NetParts, Network!Next PROVE NetParts'
<1>1. CASE Network!SendError
  <2>1. NetPlaces /\ io = "send" /\ UNCHANGED Network!kernel /\ Network!Sent(-1)
    BY <1>1 DEF NetParts, Network!SendError
  <2>2. phase = "send"
    BY <2>1 DEF NetPlaces
  <2>3. messages[m] \in Nat
    <3>1. NetTypes /\ m <= Len(messages)
      BY <2>1, <2>2 DEF NetParts, NetPlaces
    <3> QED
      BY <3>1, SizeOfMessage
  <2>4. PICK n \in Int : n = -1
    OBVIOUS
  <2>5. Network!Sent(n) /\ n # messages[m]
    BY <2>1, <2>3, <2>4
  <2> QED
    BY <2>1, <2>2, <2>5, NetSent
<1>2. CASE Network!SendEnd
  <2>1. NetPlaces /\ io = "send" /\ UNCHANGED Network!kernel /\ Network!Sent(byte_count)
        /\ byte_count = messages[m] /\ byte_count \in Nat
    BY <1>2 DEF NetParts, NetTypes, Network!SendEnd
  <2>2. phase = "send" /\ byte_count \in Int
    BY <2>1 DEF NetPlaces
  <2> QED
    BY <2>1, <2>2, NetSent
<1> QED
  BY <1>1, <1>2, NetBegins, NetSendPolls, NetSends, NetRecvPolls, NetRecv, NetServerReads,
     NetServerWrites, NetServerCloses DEF Network!Next

(* The server gets the messages in their order and without a gap.          *)
LEMMA WireIsTrue == ASSUME NetTypes, NetPlaces, Sending PROVE Network!WireTrue
<1>1. /\ m \in Nat \ {0} /\ messages \in Seq(Nat) /\ Len(messages) \in Nat
      /\ wire \in Seq(Nat) /\ Len(wire) \in Nat /\ DOMAIN wire = 1 .. Len(wire)
      /\ byte_count \in Nat
  BY NetFacts
<1>2. /\ \A a, b \in DOMAIN wire : a < b => wire[a] <= wire[b]
      /\ \A b \in DOMAIN wire : wire[b] \in 1 .. m /\ wire[b] <= Len(messages)
  BY SendingFacts
<1>3. DOMAIN messages = 1 .. Len(messages)
  BY <1>1
<1>4. \A b \in DOMAIN wire : wire[b] \in DOMAIN messages
  BY <1>1, <1>2, <1>3
<1>5. ASSUME NEW k \in DOMAIN messages
      PROVE  /\ NumberOf(wire, k) <= messages[k]
             /\ (\E b \in DOMAIN wire : wire[b] > k) => NumberOf(wire, k) = messages[k]
  <2>1. k \in Nat /\ k \in 1 .. Len(messages) /\ messages[k] \in Nat
    BY <1>1, <1>3
  <2>2. CASE k < m
    <3>1. NumberOf(wire, k) = messages[k]
      BY <2>1, <2>2, SendingFacts
    <3> QED
      BY <2>1, <3>1
  <2>3. CASE k = m
    <3>1. \A b \in DOMAIN wire : ~(wire[b] > k)
      BY <1>1, <1>2, <2>3
    <3>2. NumberOf(wire, m) <= messages[m]
      <4>1. m <= Len(messages)
        BY <2>1, <2>3
      <4>2. CASE phase = "send"
        <5>1. BytesOf(wire, m) = Len(wire) - byte_count + 1 .. Len(wire) /\ byte_count <= Len(wire)
              /\ byte_count <= messages[m]
          BY <4>2 DEF Sending
        <5>2. byte_count \in 0 .. Len(wire)
          BY <1>1, <5>1
        <5>3. NumberOf(wire, m) = byte_count
          BY <1>1, <5>1, <5>2, LastBytes
        <5> QED
          BY <5>1, <5>3
      <4>3. CASE phase # "send"
        BY <4>1, <4>3, SendingFacts
      <4> QED
        BY <4>2, <4>3
    <3> QED
      BY <2>3, <3>1, <3>2
  <2>4. CASE k > m
    <3>1. \A b \in DOMAIN wire : wire[b] # k /\ ~(wire[b] > k)
      BY <1>1, <1>2, <2>1, <2>4
    <3>2. NumberOf(wire, k) = 0
      BY <3>1, NoneOf
    <3> QED
      BY <2>1, <3>1, <3>2
  <2> QED
    BY <1>1, <2>1, <2>2, <2>3, <2>4
<1>6. \A k : Network!SentOf(k) = BytesOf(wire, k)
  BY DEF Network!SentOf, BytesOf
<1> QED
  BY <1>2, <1>4, <1>5, <1>6 DEF Network!WireTrue, NumberOf

(* The sizes that the fuzzer is left with agree with the response.         *)
LEMMA AnswersAttributed == ASSUME NetTypes, Accounts PROVE Network!AttributedWell
<1> SUFFICES ASSUME program = "afl-fuzz", phase = "done", response_bytes # <<>>
             PROVE  /\ Len(response_bytes) = messages_sent
                    /\ response_bytes[messages_sent] = Len(response_buf)
                    /\ \A k \in 1 .. messages_sent :
                         /\ k > 1 => response_bytes[k - 1] <= response_bytes[k]
                         /\ \A b \in 1 .. response_bytes[k] : response_buf[b] <= k
  BY DEF Network!AttributedWell, Network!NULL
<1>1. Len(response_bytes) = messages_sent /\ response_bytes[messages_sent] = Len(response_buf)
  BY DEF Accounts
<1>2. messages_sent \in Nat
  BY NetFacts
<1>3. Settled = messages_sent
  BY <1>1, <1>2 DEF Settled
<1>4. /\ \A k \in 1 .. messages_sent : \A b \in 1 .. response_bytes[k] : response_buf[b] <= k
      /\ \A j, k \in 1 .. messages_sent : j <= k => response_bytes[j] <= response_bytes[k]
  BY <1>3 DEF Accounts
<1>5. \A k \in 1 .. messages_sent : k > 1 => k - 1 \in 1 .. messages_sent /\ k - 1 <= k
  BY <1>2
<1> QED
  BY <1>1, <1>4, <1>5

(* The server gets the test case without a gap, what is taken for the      *)
(* response is what it wrote, and no answer is counted for an earlier      *)
(* message, for all test cases and however the bytes travel.               *)
THEOREM NetworkIsTrue == Spec => []NetworkTrue
<1>1. NetInv /\ [Next]_vars => NetInv'
  <2> SUFFICES ASSUME NetInv, [Next]_vars, running' = "net" PROVE NetParts'
    BY DEF NetInv
  <2>1. running = "net" /\ (Network!Next \/ UNCHANGED vars)
    BY Steps
  <2>2. NetParts
    BY <2>1 DEF NetInv
  <2>3. CASE UNCHANGED vars
    <3>1. UNCHANGED <<program, netVars>>
      BY <2>3 DEF vars, sharedVars
    <3>2. NetTypes /\ NetPlaces /\ Sending /\ Heard /\ Accounts
      BY <2>2 DEF NetParts
    <3>3. UNCHANGED <<program, messages, udp, phase, io, m, byte_count, messages_sent, response_buf,
                      response_bytes, wire, read, written, inbox>>
      BY <3>1 DEF netVars
    <3>4. NetTypes' /\ NetPlaces'
      BY <3>2, <3>3 DEF NetTypes, NetPlaces
    <3> QED
      BY <3>2, <3>3, <3>4, SendingStays, HeardStays, AccountsStay DEF NetParts
  <2> QED
    BY <2>1, <2>2, <2>3, NetSteps
<1>2. NetInv => NetworkTrue
  <2> SUFFICES ASSUME NetParts PROVE Network!NetworkTrue
    BY DEF NetInv, NetworkTrue
  <2>1. Network!ResponseTrue
    BY DEF NetParts, Heard, Network!ResponseTrue
  <2> QED
    BY <2>1, WireIsTrue, AnswersAttributed DEF NetParts, Network!NetworkTrue
<1> QED
  BY NetInit, <1>1, <1>2, PTL DEF Spec

-----------------------------------------------------------------------------
(* Compiling                                                               *)

(* Every set of numbers that is not empty has a least one.                 *)
LEMMA LeastNumber ==
    ASSUME NEW T \in SUBSET Nat, T # {}
    PROVE  \E low \in T : \A k \in T : low <= k
<1> DEFINE R == {ss \in Nat \X Nat : ss[1] < ss[2]}
<1>1. IsWellFoundedOn(R, Nat)
  BY NatLessThanWellFounded DEF OpToRel
<1> HIDE DEF R
<1>2. PICK low \in T : \A k \in T : ~(<<k, low>> \in R)
  BY <1>1, WFMin
<1>3. \A k \in T : ~(k < low)
  BY <1>2 DEF R
<1>4. \A k \in T : k \in Nat
  OBVIOUS
<1> QED
  BY <1>3, <1>4

(* What is appended is the last element and the others stay.               *)
LEMMA Appended ==
    ASSUME NEW S, NEW s \in Seq(S), NEW a \in S
    PROVE  /\ Append(s, a) \in Seq(S) /\ Len(s) \in Nat
           /\ DOMAIN s = 1 .. Len(s) /\ DOMAIN Append(s, a) = 1 .. (Len(s) + 1)
           /\ Len(Append(s, a)) = Len(s) + 1
           /\ Append(s, a)[Len(s) + 1] = a
           /\ \A k \in 1 .. Len(s) : Append(s, a)[k] = s[k]
  OBVIOUS

(* A row of -B reaches back to where it began.                             *)
LEMMA RowFound ==
    ASSUME NEW S, NEW s \in Seq(S)
    PROVE  \E j \in 1 .. Len(s) + 1 : Toolchain!RowBefore(s, j, Len(s) + 1)
<1> DEFINE n == Len(s)
           T == {j \in Nat : j \in 1 .. n + 1 /\ \A l \in j .. n : s[l] = "-B"}
<1>1. n \in Nat
  OBVIOUS
<1> HIDE DEF n
<1>2. n + 1 \in T
  BY <1>1
<1>3. PICK j \in T : \A k \in T : j <= k
  BY <1>2, LeastNumber
<1>4. j \in 1 .. n + 1 /\ \A l \in j .. n : s[l] = "-B"
  BY <1>3
<1>5. j > 1 => s[j - 1] # "-B"
  <2> SUFFICES ASSUME j > 1, s[j - 1] = "-B" PROVE FALSE
    OBVIOUS
  <2>1. j - 1 \in 1 .. n + 1 /\ \A l \in j - 1 .. n : l = j - 1 \/ l \in j .. n
    BY <1>1, <1>4
  <2>2. \A l \in j - 1 .. n : s[l] = "-B"
    BY <1>4, <2>1
  <2>3. j - 1 \in T
    BY <2>1, <2>2
  <2>4. j <= j - 1
    BY <1>3, <2>3
  <2> QED
    BY <1>4, <2>4
<1>6. \A l \in j .. (n + 1) - 1 : s[l] = "-B"
  BY <1>1, <1>4
<1>7. Toolchain!RowBefore(s, j, n + 1)
  BY <1>5, <1>6, Zenon DEF Toolchain!RowBefore
<1> QED
  BY <1>4, <1>7 DEF n

(* An argument behind others does not change which of them are values, and *)
(* the next one is its value if it is a -B and no value itself.            *)
LEMMA ValueNext ==
    ASSUME NEW S, NEW s \in Seq(S), NEW a \in S
    PROVE  /\ \A k \in 1 .. Len(s) + 1 :
                Toolchain!IsValue(Append(s, a), k) <=> Toolchain!IsValue(s, k)
           /\ Toolchain!IsValue(Append(s, a), Len(s) + 2)
                <=> a = "-B" /\ ~Toolchain!IsValue(s, Len(s) + 1)
<1>1. PICK n \in Nat : n = Len(s)
  OBVIOUS
<1>2. PICK t : t = Append(s, a)
  OBVIOUS
<1>3. t[n + 1] = a /\ \A k \in 1 .. n : t[k] = s[k]
  BY <1>1, <1>2, Appended
<1>4. ASSUME NEW k \in 1 .. n + 1, NEW j \in 1 .. k
      PROVE  Toolchain!RowBefore(t, j, k) <=> Toolchain!RowBefore(s, j, k)
  <2>1. \A l \in j .. k - 1 : t[l] = s[l]
    BY <1>3
  <2>2. j > 1 => t[j - 1] = s[j - 1]
    BY <1>3
  <2> QED
    BY <2>1, <2>2 DEF Toolchain!RowBefore
<1>5. \A k \in 1 .. n + 1 : Toolchain!IsValue(t, k) <=> Toolchain!IsValue(s, k)
  BY <1>4 DEF Toolchain!IsValue
<1>6. ASSUME Toolchain!IsValue(t, n + 2) PROVE a = "-B" /\ ~Toolchain!IsValue(s, n + 1)
  <2>1. PICK j \in 1 .. n + 2 : Toolchain!RowBefore(t, j, n + 2) /\ (n + 2 - j) % 2 = 1
    BY <1>6 DEF Toolchain!IsValue
  <2>2. /\ \A l \in j .. n + 2 - 1 : t[l] = "-B"
        /\ j > 1 => t[j - 1] # "-B"
    BY <2>1 DEF Toolchain!RowBefore
  <2>3. j # n + 2
    BY <2>1
  <2>4. n + 1 \in j .. n + 2 - 1
    BY <2>3
  <2>5. a = "-B"
    BY <1>3, <2>2, <2>4
  <2>6. ASSUME Toolchain!IsValue(s, n + 1) PROVE FALSE
    <3>1. PICK h \in 1 .. n + 1 : Toolchain!RowBefore(s, h, n + 1) /\ (n + 1 - h) % 2 = 1
      BY <2>6 DEF Toolchain!IsValue
    <3>2. /\ \A l \in h .. n + 1 - 1 : s[l] = "-B"
          /\ h > 1 => s[h - 1] # "-B"
      BY <3>1 DEF Toolchain!RowBefore
    <3>3. ~(j < h)
      <4> SUFFICES ASSUME j < h PROVE FALSE
        OBVIOUS
      <4>1. h - 1 \in j .. n + 2 - 1 /\ h > 1 /\ h - 1 \in 1 .. n
        OBVIOUS
      <4>2. t[h - 1] = "-B" /\ t[h - 1] = s[h - 1]
        BY <4>1, <2>2, <1>3
      <4> QED
        BY <4>1, <4>2, <3>2
    <3>4. ~(h < j)
      <4> SUFFICES ASSUME h < j PROVE FALSE
        OBVIOUS
      <4>1. j - 1 \in h .. n + 1 - 1 /\ j > 1 /\ j - 1 \in 1 .. n
        BY <2>3
      <4>2. s[j - 1] = "-B" /\ t[j - 1] = s[j - 1]
        BY <4>1, <3>2, <1>3
      <4> QED
        BY <4>1, <4>2, <2>2
    <3>5. h = j
      BY <3>3, <3>4
    <3>6. (n + 2 - j) % 2 = 1 /\ (n + 1 - j) % 2 = 1
      BY <3>5, <3>1, <2>1
    <3> QED
      BY <3>6, <2>3
  <2> QED
    BY <2>5, <2>6
<1>7. ASSUME a = "-B", ~Toolchain!IsValue(s, n + 1) PROVE Toolchain!IsValue(t, n + 2)
  <2>1. PICK j \in 1 .. n + 1 : Toolchain!RowBefore(s, j, n + 1)
    BY <1>1, RowFound
  <2>2. /\ \A l \in j .. n + 1 - 1 : s[l] = "-B"
        /\ j > 1 => s[j - 1] # "-B"
    BY <2>1 DEF Toolchain!RowBefore
  <2>3. (n + 1 - j) % 2 # 1
    BY <1>7, <2>1 DEF Toolchain!IsValue
  <2>4. (n + 2 - j) % 2 = 1 /\ j \in 1 .. n + 2
    BY <2>3
  <2>5. \A l \in j .. n + 2 - 1 : t[l] = "-B"
    <3>1. \A l \in j .. n + 2 - 1 : l = n + 1 \/ (l \in j .. n + 1 - 1 /\ l \in 1 .. n)
      OBVIOUS
    <3> QED
      BY <1>3, <1>7, <2>2, <3>1
  <2>6. j > 1 => t[j - 1] # "-B"
    BY <1>3, <2>2
  <2>7. Toolchain!RowBefore(t, j, n + 2)
    BY <2>5, <2>6 DEF Toolchain!RowBefore
  <2> QED
    BY <2>4, <2>7 DEF Toolchain!IsValue
<1> QED
  BY <1>1, <1>2, <1>5, <1>6, <1>7, Zenon

(* One number more in a set of small numbers.                              *)
LEMMA OneMore ==
    ASSUME NEW n \in Nat, NEW T \in SUBSET (1 .. n)
    PROVE  Cardinality(T) \in Nat /\ Cardinality(T \cup {n + 1}) = Cardinality(T) + 1
<1>1. IsFiniteSet(T)
  <2>1. IsFiniteSet(1 .. n)
    BY FS_Interval
  <2> QED
    BY <2>1, FS_Subset
<1>2. n + 1 \notin T
  OBVIOUS
<1> QED
  BY <1>1, <1>2, FS_AddElement, FS_CardinalityType

LEMMA SameCardinalityOfChain == ASSUME NEW S PROVE Toolchain!Cardinality(S) = Cardinality(S)
  BY DEF Toolchain!Cardinality, Cardinality

\* Where an argument stands, and where it stands for itself.
PlacesOf(s, a) == {k \in DOMAIN s : s[k] = a}
OwnPlacesOf(s, a) ==
    {k \in DOMAIN s : s[k] = a /\ (~Toolchain!Fast => ~Toolchain!IsValue(s, k))}
Has(s, a) == \E k \in DOMAIN s : s[k] = a

(* Where an argument stands grows by its own place.                        *)
LEMMA PlacesGrow ==
    ASSUME NEW S, NEW s \in Seq(S), NEW a \in S, NEW b
    PROVE  /\ Cardinality(PlacesOf(s, b)) \in Nat
           /\ a = b => Cardinality(PlacesOf(Append(s, a), b)) = Cardinality(PlacesOf(s, b)) + 1
           /\ a # b => Cardinality(PlacesOf(Append(s, a), b)) = Cardinality(PlacesOf(s, b))
           /\ Has(Append(s, a), b) <=> a = b \/ Has(s, b)
<1>1. PICK n \in Nat : n = Len(s)
  OBVIOUS
<1>2. PICK t : t = Append(s, a)
  OBVIOUS
<1>3. /\ DOMAIN s = 1 .. n /\ DOMAIN t = 1 .. n + 1
      /\ t[n + 1] = a /\ \A k \in 1 .. n : t[k] = s[k]
  BY <1>1, <1>2, Appended
<1>4. PlacesOf(s, b) \in SUBSET (1 .. n)
  BY <1>3 DEF PlacesOf
<1>5. a = b => PlacesOf(t, b) = PlacesOf(s, b) \cup {n + 1}
  BY <1>3 DEF PlacesOf
<1>6. a # b => PlacesOf(t, b) = PlacesOf(s, b)
  BY <1>3 DEF PlacesOf
<1>7. Has(t, b) <=> a = b \/ Has(s, b)
  BY <1>3 DEF Has
<1> QED
  BY <1>2, <1>4, <1>5, <1>6, <1>7, OneMore

(* So does where it stands for itself, unless it is a value.               *)
LEMMA OwnPlacesGrow ==
    ASSUME NEW S, NEW s \in Seq(S), NEW a \in S, NEW b
    PROVE  LET own == ~Toolchain!Fast => ~Toolchain!IsValue(s, Len(s) + 1)
           IN  /\ Cardinality(OwnPlacesOf(s, b)) \in Nat
               /\ a = b /\ own =>
                    Cardinality(OwnPlacesOf(Append(s, a), b)) = Cardinality(OwnPlacesOf(s, b)) + 1
               /\ ~(a = b /\ own) =>
                    Cardinality(OwnPlacesOf(Append(s, a), b)) = Cardinality(OwnPlacesOf(s, b))
<1> DEFINE own == ~Toolchain!Fast => ~Toolchain!IsValue(s, Len(s) + 1)
<1>1. PICK n \in Nat : n = Len(s)
  OBVIOUS
<1>2. PICK t : t = Append(s, a)
  OBVIOUS
<1>3. /\ DOMAIN s = 1 .. n /\ DOMAIN t = 1 .. n + 1
      /\ t[n + 1] = a /\ \A k \in 1 .. n : t[k] = s[k]
  BY <1>1, <1>2, Appended
<1>4. \A k \in 1 .. n + 1 : Toolchain!IsValue(t, k) <=> Toolchain!IsValue(s, k)
  BY <1>1, <1>2, ValueNext
<1>5. OwnPlacesOf(s, b) \in SUBSET (1 .. n)
  BY <1>3 DEF OwnPlacesOf
<1>6. own <=> (~Toolchain!Fast => ~Toolchain!IsValue(t, n + 1))
  BY <1>1, <1>4
<1> HIDE DEF own
<1>7. a = b /\ own => OwnPlacesOf(t, b) = OwnPlacesOf(s, b) \cup {n + 1}
  BY <1>3, <1>4, <1>6 DEF OwnPlacesOf
<1>8. ~(a = b /\ own) => OwnPlacesOf(t, b) = OwnPlacesOf(s, b)
  BY <1>3, <1>4, <1>6 DEF OwnPlacesOf
<1>9. /\ Cardinality(OwnPlacesOf(s, b)) \in Nat
      /\ a = b /\ own =>
           Cardinality(OwnPlacesOf(Append(s, a), b)) = Cardinality(OwnPlacesOf(s, b)) + 1
      /\ ~(a = b /\ own) =>
           Cardinality(OwnPlacesOf(Append(s, a), b)) = Cardinality(OwnPlacesOf(s, b))
  BY <1>2, <1>5, <1>7, <1>8, OneMore
<1> QED
  BY <1>9, Zenon DEF own

Sanitizers == {"-fsanitize=address", "-fsanitize=memory"}
\* What every wrapper passes on.
PassedOn == Toolchain!Arguments \ {"-B", "-Bdir", "-integrated-as", "-Wl,-z,defs", "-x"}

ChainTypes ==
    /\ given \in Seq(Toolchain!Arguments) /\ kept \in Seq(Toolchain!Arguments)
    /\ value \in BOOLEAN /\ asan_set \in BOOLEAN /\ x_set \in BOOLEAN /\ maybe_linking \in BOOLEAN
    /\ bit_mode \in {0, 32, 64} /\ env \subseteq {"AFL_HARDEN", "AFL_USE_ASAN", "AFL_USE_MSAN"}
    /\ stage \in {"find", "arguments", "compile", "compiled", "instrument", "assemble", "assembled",
                  "error", "killed", "failed"}

\* The arguments so far: which of them is a value, and how often each was passed on.
PassedSoFar ==
    /\ ~Toolchain!Fast => (value <=> Toolchain!IsValue(given, Len(given) + 1))
    /\ \A a \in PassedOn : Cardinality(PlacesOf(kept, a)) = Cardinality(OwnPlacesOf(given, a))
    /\ ~Toolchain!Fast => ~Has(kept, "-B") /\ ~Has(kept, "-Bdir") /\ ~Has(kept, "-integrated-as")
    /\ Toolchain!Fast => ~Has(kept, "-Wl,-z,defs")

\* What afl-clang-fast noted of them.
Noted ==
    Toolchain!Fast =>
      /\ maybe_linking <=> ~(\E a \in {"-c", "-S", "-E", "-shared"} : Has(given, a))
      /\ bit_mode = 0 => ~Has(given, "-m32")
      /\ x_set <=> Has(given, "-x")

\* Before the command line is finished.
Unfinished ==
    Toolchain!Fast /\ stage = "arguments" => added = <<"-load afl-llvm-pass.so">>

\* The compiler passes on what afl-as has to know.
EnvTold ==
    stage \in {"compile", "instrument", "assemble", "assembled"} =>
      (env \cap {"AFL_USE_ASAN", "AFL_USE_MSAN"} # {}
        <=> asan_set \/ \E k \in DOMAIN added : added[k] \in Sanitizers)

ChainParts ==
    /\ ChainTypes /\ PassedSoFar /\ Noted /\ Unfinished /\ EnvTold
    /\ Toolchain!SanitizersExclude /\ Toolchain!DensityFollows /\ Toolchain!RuntimeLinked
    /\ Toolchain!StatusTold

ChainInv == running = "cc" => ChainParts

(* Nothing is passed on at the start.                                      *)
LEMMA ChainInit == Init => ChainInv
<1> SUFFICES ASSUME Init, running = "cc" PROVE ChainParts
  BY DEF ChainInv
<1>1. Toolchain!Init
  BY DEF Init
<1>2. given = <<>> /\ value = FALSE /\ kept = <<>> /\ stage = "find"
  BY <1>1, Zenon DEF Toolchain!Init
<1>3. ChainTypes
  <2>1. asan_set \in BOOLEAN /\ x_set \in BOOLEAN /\ maybe_linking \in BOOLEAN /\ value \in BOOLEAN
    BY <1>1, Zenon DEF Toolchain!Init
  <2>2. env \subseteq {"AFL_HARDEN", "AFL_USE_ASAN", "AFL_USE_MSAN"} /\ bit_mode = 0
    BY <1>1, Zenon DEF Toolchain!Init
  <2> QED
    BY <1>2, <2>1, <2>2 DEF ChainTypes
<1>4. \A a : PlacesOf(kept, a) = {} /\ OwnPlacesOf(given, a) = {} /\ ~Has(kept, a) /\ ~Has(given, a)
  BY <1>2 DEF PlacesOf, OwnPlacesOf, Has
<1>5. PassedSoFar
  <2>1. ~Toolchain!IsValue(given, Len(given) + 1)
    BY <1>2 DEF Toolchain!IsValue
  <2> QED
    BY <1>2, <1>4, <2>1 DEF PassedSoFar
<1>6. Noted
  <2>1. maybe_linking = TRUE /\ x_set = FALSE
    BY <1>1, Zenon DEF Toolchain!Init
  <2> QED
    BY <1>4, <2>1, Zenon DEF Noted
<1>7. Unfinished /\ EnvTold
  BY <1>2 DEF Unfinished, EnvTold
<1>8. Toolchain!SanitizersExclude /\ Toolchain!DensityFollows /\ Toolchain!RuntimeLinked
  BY <1>2 DEF Toolchain!SanitizersExclude, Toolchain!DensityFollows, Toolchain!RuntimeLinked,
              Toolchain!Compiled
<1>9. Toolchain!StatusTold
  BY <1>1 DEF Toolchain!Init, Toolchain!StatusTold
<1> QED
  BY <1>3, <1>5, <1>6, <1>7, <1>8, <1>9 DEF ChainParts

(* What was noted of the arguments stays with them.                        *)
LEMMA ArgumentsStay ==
    ASSUME PassedSoFar, Noted,
           UNCHANGED <<wrapper, given, value, kept, x_set, maybe_linking, bit_mode>>
    PROVE  PassedSoFar' /\ Noted'
<1>1. Toolchain!Fast' <=> Toolchain!Fast
  BY DEF Toolchain!Fast
<1>2. \A a : OwnPlacesOf(given, a)' = OwnPlacesOf(given, a)
  BY <1>1 DEF OwnPlacesOf
<1>3. PassedSoFar'
  BY <1>1, <1>2 DEF PassedSoFar
<1>4. Noted'
  BY <1>1 DEF Noted
<1> QED
  BY <1>3, <1>4

(* As long as nothing is compiled there is nothing to say of the result.   *)
LEMMA NothingCompiled ==
    ASSUME Toolchain!StatusTold, stage \notin {"assembled", "killed"},
           stage' \in {"find", "arguments", "failed"}, status' = status
    PROVE  /\ EnvTold' /\ Toolchain!SanitizersExclude' /\ Toolchain!DensityFollows'
           /\ Toolchain!RuntimeLinked' /\ Toolchain!StatusTold'
<1>1. EnvTold' /\ Toolchain!DensityFollows' /\ Toolchain!RuntimeLinked' /\ Toolchain!StatusTold'
  BY DEF EnvTold, Toolchain!DensityFollows, Toolchain!RuntimeLinked, Toolchain!StatusTold
<1>2. Toolchain!SanitizersExclude'
  BY DEF Toolchain!SanitizersExclude, Toolchain!Compiled
<1> QED
  BY <1>1, <1>2

(* The wrapper finds afl-as, or the runtime and the pass.                  *)
LEMMA FindStep ==
    ASSUME ChainParts, Toolchain!find_as \/ Toolchain!find_obj PROVE ChainParts'
<1>1. /\ stage = "find" /\ stage' \in {"arguments", "failed"} /\ status' = status
      /\ UNCHANGED <<wrapper, given, value, kept, asan_set, x_set, maybe_linking, bit_mode, env>>
      /\ Toolchain!Fast => stage' = "failed" \/ added' = <<"-load afl-llvm-pass.so">>
  <2>1. CASE Toolchain!find_as
    BY <2>1 DEF Toolchain!find_as, Toolchain!Fail, Toolchain!compiling, Toolchain!assembling
  <2>2. CASE Toolchain!find_obj
    <3>1. /\ stage = "find" /\ status' = status
          /\ UNCHANGED <<wrapper, given, value, kept, asan_set, x_set, maybe_linking, bit_mode, env>>
      BY <2>2 DEF Toolchain!find_obj, Toolchain!assembling
    <3>2. stage' = "failed" \/ (stage' = "arguments" /\ added' = <<"-load afl-llvm-pass.so">>)
      BY <2>2 DEF Toolchain!find_obj, Toolchain!Fail
    <3> QED
      BY <3>1, <3>2
  <2> QED
    BY <2>1, <2>2
<1>2. PassedSoFar' /\ Noted'
  BY <1>1, ArgumentsStay DEF ChainParts
<1>3. ChainTypes'
  BY <1>1 DEF ChainParts, ChainTypes
<1>4. Unfinished'
  <2>1. Toolchain!Fast' <=> Toolchain!Fast
    BY <1>1 DEF Toolchain!Fast
  <2> QED
    BY <1>1, <2>1 DEF Unfinished
<1>5. Toolchain!StatusTold
  BY DEF ChainParts
<1>6. /\ EnvTold' /\ Toolchain!SanitizersExclude' /\ Toolchain!DensityFollows'
      /\ Toolchain!RuntimeLinked' /\ Toolchain!StatusTold'
  BY <1>1, <1>5, NothingCompiled
<1> QED
  BY <1>2, <1>3, <1>4, <1>6 DEF ChainParts

(* afl-gcc passes an argument on, or drops it.                             *)
LEMMA ArgumentStep ==
    ASSUME ChainParts, NEW a \in Toolchain!Arguments, Toolchain!EditArgument(a) PROVE ChainParts'
<1>1. /\ stage = "arguments" /\ stage' = stage /\ status' = status /\ ~Toolchain!Fast
      /\ UNCHANGED <<wrapper, env, added, x_set, maybe_linking, bit_mode>>
      /\ given' = Append(given, a)
      /\ value' = (a = "-B" /\ ~value)
      /\ kept' = IF Toolchain!Drops(a) THEN kept ELSE Append(kept, a)
  BY Zenon DEF Toolchain!EditArgument, Toolchain!assembling
<1>2. /\ given \in Seq(Toolchain!Arguments) /\ kept \in Seq(Toolchain!Arguments)
      /\ value \in BOOLEAN /\ asan_set \in BOOLEAN
  BY DEF ChainParts, ChainTypes
<1>3. ~Toolchain!Fast'
  BY <1>1 DEF Toolchain!Fast
<1>4. ChainTypes'
  <2>1. given' \in Seq(Toolchain!Arguments) /\ kept' \in Seq(Toolchain!Arguments)
    BY <1>1, <1>2, Appended
  <2>2. value' \in BOOLEAN
    BY <1>1, Zenon
  <2>3. asan_set' \in BOOLEAN
    <3>1. asan_set' = (asan_set \/ (~Toolchain!Drops(a) /\ a \in {"-fsanitize=address", "-fsanitize=memory"}))
      BY Zenon DEF Toolchain!EditArgument
    <3> QED
      BY <3>1, Zenon
  <2> QED
    BY <1>1, <2>1, <2>2, <2>3 DEF ChainParts, ChainTypes
<1>5. PassedSoFar'
  <2>1. value <=> Toolchain!IsValue(given, Len(given) + 1)
    BY <1>1 DEF ChainParts, PassedSoFar
  <2>2. value' <=> Toolchain!IsValue(given', Len(given') + 1)
    <3>1. Len(given') + 1 = Len(given) + 2
      BY <1>1, <1>2, Appended
    <3>2. Toolchain!IsValue(given', Len(given) + 2)
            <=> a = "-B" /\ ~Toolchain!IsValue(given, Len(given) + 1)
      BY <1>1, <1>2, ValueNext
    <3> QED
      BY <1>1, <2>1, <3>1, <3>2, Zenon
  <2>3. ASSUME NEW b \in PassedOn
        PROVE  Cardinality(PlacesOf(kept', b)) = Cardinality(OwnPlacesOf(given, b)')
    <3>1. Cardinality(PlacesOf(kept, b)) = Cardinality(OwnPlacesOf(given, b))
      BY DEF ChainParts, PassedSoFar
    <3>2. OwnPlacesOf(given, b)' = OwnPlacesOf(given', b)
      BY <1>1, <1>3 DEF OwnPlacesOf
    <3>3. b \notin {"-B", "-Bdir", "-integrated-as", "-pipe"}
      BY DEF PassedOn, Toolchain!Arguments
    <3>4. a = b => (Toolchain!Drops(a) <=> value)
      BY <3>3 DEF Toolchain!Drops
    <3>5. CASE a # b
      <4>1. Cardinality(PlacesOf(kept', b)) = Cardinality(PlacesOf(kept, b))
        BY <1>1, <1>2, <3>5, PlacesGrow
      <4>2. Cardinality(OwnPlacesOf(given', b)) = Cardinality(OwnPlacesOf(given, b))
        BY <1>1, <1>2, <3>5, OwnPlacesGrow
      <4> QED
        BY <3>1, <3>2, <4>1, <4>2
    <3>6. CASE a = b /\ value
      <4>1. kept' = kept
        BY <1>1, <3>4, <3>6
      <4>2. Cardinality(OwnPlacesOf(given', b)) = Cardinality(OwnPlacesOf(given, b))
        BY <1>1, <1>2, <2>1, <3>6, OwnPlacesGrow
      <4> QED
        BY <3>1, <3>2, <4>1, <4>2
    <3>7. CASE a = b /\ ~value
      <4>1. kept' = Append(kept, a)
        BY <1>1, <3>4, <3>7
      <4>2. Cardinality(PlacesOf(kept', b)) = Cardinality(PlacesOf(kept, b)) + 1
        BY <1>2, <3>7, <4>1, PlacesGrow
      <4>3. Cardinality(OwnPlacesOf(given', b)) = Cardinality(OwnPlacesOf(given, b)) + 1
        BY <1>1, <1>2, <2>1, <3>7, OwnPlacesGrow
      <4> QED
        BY <3>1, <3>2, <4>2, <4>3
    <3> QED
      BY <3>5, <3>6, <3>7
  <2>4. ~Has(kept, "-B")' /\ ~Has(kept, "-Bdir")' /\ ~Has(kept, "-integrated-as")'
    <3>1. ~Has(kept, "-B") /\ ~Has(kept, "-Bdir") /\ ~Has(kept, "-integrated-as")
      BY <1>1 DEF ChainParts, PassedSoFar
    <3>2. CASE Toolchain!Drops(a)
      BY <1>1, <3>1, <3>2 DEF Has
    <3>3. CASE ~Toolchain!Drops(a)
      <4>1. a # "-B" /\ a # "-Bdir" /\ a # "-integrated-as"
        BY <3>3 DEF Toolchain!Drops
      <4>2. kept' = Append(kept, a)
        BY <1>1, <3>3
      <4>3. ASSUME NEW b, a # b, ~Has(kept, b) PROVE ~Has(kept', b)
        BY <1>2, <4>2, <4>3, PlacesGrow
      <4> QED
        BY <3>1, <4>1, <4>3
    <3> QED
      BY <3>2, <3>3
  <2> QED
    BY <1>3, <2>2, <2>3, <2>4 DEF PassedSoFar
<1>6. Noted' /\ Unfinished'
  BY <1>3 DEF Noted, Unfinished
<1>7. Toolchain!StatusTold
  BY DEF ChainParts
<1>8. /\ EnvTold' /\ Toolchain!SanitizersExclude' /\ Toolchain!DensityFollows'
      /\ Toolchain!RuntimeLinked' /\ Toolchain!StatusTold'
  BY <1>1, <1>7, NothingCompiled
<1> QED
  BY <1>4, <1>5, <1>6, <1>8 DEF ChainParts

(* afl-clang-fast passes an argument on and notes what it needs at the end. *)
LEMMA FastArgumentStep ==
    ASSUME ChainParts, NEW a \in Toolchain!Arguments, Toolchain!EditFastArgument(a)
    PROVE  ChainParts'
<1>1. /\ stage = "arguments" /\ stage' = stage /\ status' = status /\ Toolchain!Fast
      /\ UNCHANGED <<wrapper, env, added, value>>
      /\ given' = Append(given, a)
      /\ kept' = IF a \in {"-Wl,-z,defs", "-Wl,--no-undefined"} THEN kept ELSE Append(kept, a)
  BY Zenon DEF Toolchain!EditFastArgument, Toolchain!assembling
<1>2. /\ given \in Seq(Toolchain!Arguments) /\ kept \in Seq(Toolchain!Arguments)
      /\ value \in BOOLEAN /\ asan_set \in BOOLEAN /\ x_set \in BOOLEAN /\ maybe_linking \in BOOLEAN
      /\ bit_mode \in {0, 32, 64}
  BY DEF ChainParts, ChainTypes
<1>3. Toolchain!Fast'
  BY <1>1 DEF Toolchain!Fast
<1>4. /\ a = "-m32" => bit_mode' = 32
      /\ a # "-m32" => bit_mode' = 64 \/ bit_mode' = bit_mode
  BY DEF Toolchain!EditFastArgument
<1>5. x_set' = (x_set \/ a = "-x")
  BY Zenon DEF Toolchain!EditFastArgument
<1>6. maybe_linking' = (maybe_linking /\ a \notin {"-c", "-S", "-E", "-shared"})
  BY Zenon DEF Toolchain!EditFastArgument
<1>7. ChainTypes'
  <2>1. given' \in Seq(Toolchain!Arguments) /\ kept' \in Seq(Toolchain!Arguments)
    BY <1>1, <1>2, Appended
  <2>2. x_set' \in BOOLEAN /\ maybe_linking' \in BOOLEAN
    BY <1>5, <1>6, Zenon
  <2>3. asan_set' \in BOOLEAN
    <3>1. asan_set' = (asan_set \/ a \in {"-fsanitize=address", "-fsanitize=memory"})
      BY Zenon DEF Toolchain!EditFastArgument
    <3> QED
      BY <3>1, Zenon
  <2>4. bit_mode' \in {0, 32, 64}
    BY <1>2, <1>4
  <2> QED
    BY <1>1, <2>1, <2>2, <2>3, <2>4 DEF ChainParts, ChainTypes
<1>8. PassedSoFar'
  <2>1. ASSUME NEW b \in PassedOn
        PROVE  Cardinality(PlacesOf(kept', b)) = Cardinality(OwnPlacesOf(given, b)')
    <3>1. Cardinality(PlacesOf(kept, b)) = Cardinality(OwnPlacesOf(given, b))
      BY DEF ChainParts, PassedSoFar
    <3>2. OwnPlacesOf(given, b)' = OwnPlacesOf(given', b)
      BY <1>1, <1>3 DEF OwnPlacesOf
    <3>3. b \notin {"-Wl,-z,defs", "-Wl,--no-undefined"}
      BY DEF PassedOn, Toolchain!Arguments
    <3>4. CASE a # b
      <4>1. Cardinality(PlacesOf(kept', b)) = Cardinality(PlacesOf(kept, b))
        BY <1>1, <1>2, <3>4, PlacesGrow
      <4>2. Cardinality(OwnPlacesOf(given', b)) = Cardinality(OwnPlacesOf(given, b))
        BY <1>1, <1>2, <3>4, OwnPlacesGrow
      <4> QED
        BY <3>1, <3>2, <4>1, <4>2
    <3>5. CASE a = b
      <4>1. kept' = Append(kept, a)
        BY <1>1, <3>3, <3>5
      <4>2. Cardinality(PlacesOf(kept', b)) = Cardinality(PlacesOf(kept, b)) + 1
        BY <1>2, <3>5, <4>1, PlacesGrow
      <4>3. Cardinality(OwnPlacesOf(given', b)) = Cardinality(OwnPlacesOf(given, b)) + 1
        BY <1>1, <1>2, <3>5, OwnPlacesGrow
      <4> QED
        BY <3>1, <3>2, <4>2, <4>3
    <3> QED
      BY <3>4, <3>5
  <2>2. ~Has(kept, "-Wl,-z,defs")'
    <3>1. ~Has(kept, "-Wl,-z,defs")
      BY <1>1 DEF ChainParts, PassedSoFar
    <3>2. CASE kept' = kept
      BY <3>1, <3>2 DEF Has
    <3>3. CASE a # "-Wl,-z,defs" /\ kept' = Append(kept, a)
      <4>1. ~Has(kept', "-Wl,-z,defs")
        BY <1>2, <3>1, <3>3, PlacesGrow
      <4> QED
        BY <4>1
    <3> QED
      BY <1>1, <3>2, <3>3
  <2> QED
    BY <1>3, <2>1, <2>2 DEF PassedSoFar
<1>9. Noted'
  <2>1. ASSUME NEW b PROVE Has(given, b)' <=> a = b \/ Has(given, b)
    <3>1. Has(given', b) <=> a = b \/ Has(given, b)
      BY <1>1, <1>2, PlacesGrow
    <3> QED
      BY <3>1
  <2>2. /\ maybe_linking <=> ~(\E b \in {"-c", "-S", "-E", "-shared"} : Has(given, b))
        /\ bit_mode = 0 => ~Has(given, "-m32")
        /\ x_set <=> Has(given, "-x")
    BY <1>1 DEF ChainParts, Noted
  <2>3. maybe_linking' <=> ~(\E b \in {"-c", "-S", "-E", "-shared"} : Has(given, b)')
    BY <1>6, <2>1, <2>2, Zenon
  <2>4. bit_mode' = 0 => ~Has(given, "-m32")'
    BY <1>4, <2>1, <2>2
  <2>5. x_set' <=> Has(given, "-x")'
    BY <1>5, <2>1, <2>2, Zenon
  <2> QED
    BY <2>3, <2>4, <2>5 DEF Noted
<1>10. Unfinished'
  BY <1>1 DEF ChainParts, Unfinished
<1>11. Toolchain!StatusTold
  BY DEF ChainParts
<1>12. /\ EnvTold' /\ Toolchain!SanitizersExclude' /\ Toolchain!DensityFollows'
       /\ Toolchain!RuntimeLinked' /\ Toolchain!StatusTold'
  BY <1>1, <1>11, NothingCompiled
<1> QED
  BY <1>7, <1>8, <1>9, <1>10, <1>12 DEF ChainParts

(* afl-as: its steps change neither the command line nor what was noted.   *)
LEMMA AssemblerSteps ==
    ASSUME ChainParts,
           \/ \E a \in Toolchain!AsArguments : Toolchain!EditAsArgument(a)
           \/ Toolchain!EditInputFile \/ Toolchain!Instrument \/ Toolchain!Assemble
    PROVE  ChainParts'
<1>1. /\ stage \in {"compile", "instrument", "assemble"}
      /\ UNCHANGED <<wrapper, env, given, value, kept, added, asan_set, x_set, maybe_linking, bit_mode>>
      /\ \/ stage' = stage /\ stage = "compile" /\ UNCHANGED <<status, inst_ratio>>
         \/ stage' \in {"instrument", "failed"} /\ UNCHANGED <<status, inst_ratio>>
         \/ stage = "instrument" /\ stage' = "failed" /\ UNCHANGED <<status, inst_ratio>>
         \/ /\ stage = "instrument" /\ stage' = "assemble" /\ UNCHANGED status
            /\ inst_ratio' = IF env \cap {"AFL_USE_ASAN", "AFL_USE_MSAN"} # {}
                             THEN InstRatio \div 3 ELSE InstRatio
         \/ /\ stage = "assemble" /\ stage' \in {"assembled", "error", "killed"}
            /\ UNCHANGED inst_ratio
            /\ status' = IF stage' = "error" THEN 1 ELSE 0
  <2>1. ASSUME NEW a \in Toolchain!AsArguments, Toolchain!EditAsArgument(a)
        PROVE  /\ stage = "compile" /\ stage' = stage /\ UNCHANGED <<status, inst_ratio>>
               /\ UNCHANGED <<wrapper, env, given, value, kept, added, asan_set, x_set, maybe_linking,
                              bit_mode>>
    BY <2>1, Zenon DEF Toolchain!EditAsArgument, Toolchain!compiling
  <2>2. CASE Toolchain!EditInputFile
    <3>1. /\ stage = "compile" /\ UNCHANGED <<status, inst_ratio>>
          /\ UNCHANGED <<wrapper, env, given, value, kept, added, asan_set, x_set, maybe_linking,
                         bit_mode>>
      BY <2>2, Zenon DEF Toolchain!EditInputFile, Toolchain!compiling
    <3>2. stage' \in {"instrument", "failed"}
      BY <2>2 DEF Toolchain!EditInputFile, Toolchain!Fail
    <3> QED
      BY <3>1, <3>2
  <2>3. CASE Toolchain!Instrument
    <3>1. /\ stage = "instrument" /\ UNCHANGED status
          /\ UNCHANGED <<wrapper, env, given, value, kept, added, asan_set, x_set, maybe_linking,
                         bit_mode>>
      BY <2>3, Zenon DEF Toolchain!Instrument, Toolchain!compiling
    <3>2. \/ stage' = "failed" /\ UNCHANGED inst_ratio
          \/ /\ stage' = "assemble"
             /\ inst_ratio' = IF env \cap {"AFL_USE_ASAN", "AFL_USE_MSAN"} # {}
                              THEN InstRatio \div 3 ELSE InstRatio
      BY <2>3, Zenon DEF Toolchain!Instrument, Toolchain!Fail
    <3> QED
      BY <3>1, <3>2
  <2>4. CASE Toolchain!Assemble
    <3>1. /\ stage = "assemble" /\ UNCHANGED inst_ratio
          /\ UNCHANGED <<wrapper, env, given, value, kept, added, asan_set, x_set, maybe_linking,
                         bit_mode>>
      BY <2>4, Zenon DEF Toolchain!Assemble, Toolchain!compiling
    <3>2. /\ stage' \in {"assembled", "error", "killed"}
          /\ status' = IF stage' = "error" THEN 1 ELSE 0
      BY <2>4 DEF Toolchain!Assemble
    <3> QED
      BY <3>1, <3>2
  <2> QED
    BY <2>1, <2>2, <2>3, <2>4
<1>2. PassedSoFar' /\ Noted'
  BY <1>1, ArgumentsStay DEF ChainParts
<1>3. stage' \in {"compile", "instrument", "assemble", "assembled", "error", "killed", "failed"}
  BY <1>1
<1>4. ChainTypes'
  BY <1>1, <1>3 DEF ChainParts, ChainTypes
<1>5. Unfinished' /\ Toolchain!RuntimeLinked'
  BY <1>3 DEF Unfinished, Toolchain!RuntimeLinked
<1>6. EnvTold'
  BY <1>1 DEF ChainParts, EnvTold
<1>7. Toolchain!SanitizersExclude'
  BY <1>1 DEF ChainParts, Toolchain!SanitizersExclude, Toolchain!Compiled
<1>8. Toolchain!StatusTold'
  BY <1>1 DEF ChainParts, Toolchain!StatusTold
<1>9. Toolchain!DensityFollows'
  <2>1. Toolchain!ToSet(added) \cap {"-fsanitize=address", "-fsanitize=memory"} # {}
          <=> \E k \in DOMAIN added : added[k] \in Sanitizers
    BY DEF Toolchain!ToSet, Sanitizers
  <2>2. CASE stage = "instrument" /\ stage' = "assemble"
    <3>1. env \cap {"AFL_USE_ASAN", "AFL_USE_MSAN"} # {}
            <=> asan_set \/ Toolchain!ToSet(added) \cap {"-fsanitize=address", "-fsanitize=memory"} # {}
      BY <2>1, <2>2 DEF ChainParts, EnvTold
    <3>2. inst_ratio' = IF env \cap {"AFL_USE_ASAN", "AFL_USE_MSAN"} # {}
                        THEN InstRatio \div 3 ELSE InstRatio
      BY <1>1, <2>2
    <3> QED
      BY <1>1, <3>1, <3>2 DEF Toolchain!DensityFollows
  <2>3. CASE stage = "assemble" /\ stage' = "assembled"
    BY <1>1, <2>3 DEF ChainParts, Toolchain!DensityFollows
  <2>4. CASE stage' \notin {"assemble", "assembled"}
    BY <2>4 DEF Toolchain!DensityFollows
  <2> QED
    BY <1>1, <2>2, <2>3, <2>4
<1> QED
  BY <1>2, <1>4, <1>5, <1>6, <1>7, <1>8, <1>9 DEF ChainParts

\* What the wrappers put on the command line.
Pieces ==
    {"-B as_path", "-no-integrated-as", "-load afl-llvm-pass.so", "-fstack-protector-all",
     "-D_FORTIFY_SOURCE=2", "-U_FORTIFY_SOURCE", "-fsanitize=address", "-fsanitize=memory", "-g", "-O3",
     "-funroll-loops", "-D__AFL_COMPILER=1", "-D__AFL_LOOP", "-x none", "afl-llvm-rt.o",
     "afl-llvm-rt-32.o", "afl-llvm-rt-64.o"}

\* The sanitizer that the environment asks for, if the arguments ask for none.
Wanted ==
    IF asan_set THEN "none"
    ELSE IF "AFL_USE_ASAN" \in env THEN "-fsanitize=address"
    ELSE IF "AFL_USE_MSAN" \in env THEN "-fsanitize=memory" ELSE "none"

\* Arguments with no sanitizer but w, which stands behind what takes back a fortified build.
Fit(s, w) ==
    /\ s \in Seq(Pieces)
    /\ \A k \in DOMAIN s : s[k] \in Sanitizers => s[k] = w /\ k > 1 /\ s[k - 1] = "-U_FORTIFY_SOURCE"
    /\ w # "none" => ~Has(s, "-D_FORTIFY_SOURCE=2")

(* Such arguments can be put behind each other.                            *)
LEMMA FitTogether ==
    ASSUME NEW w, NEW s, NEW t, Fit(s, w), Fit(t, w)
    PROVE  Fit(s \o t, w) /\ \A a : Has(s \o t, a) <=> Has(s, a) \/ Has(t, a)
<1>1. PICK u : u = s \o t
  OBVIOUS
<1>2. s \in Seq(Pieces) /\ t \in Seq(Pieces)
  BY DEF Fit
<1>3. PICK n \in Nat, p \in Nat : n = Len(s) /\ p = Len(t)
  BY <1>2
<1>4. /\ u \in Seq(Pieces) /\ DOMAIN s = 1 .. n /\ DOMAIN t = 1 .. p /\ DOMAIN u = 1 .. n + p
      /\ \A k \in 1 .. n : u[k] = s[k]
      /\ \A k \in 1 .. p : u[n + k] = t[k]
  BY <1>1, <1>2, <1>3, ConcatProperties
<1>5. \A k \in 1 .. n + p : k \in 1 .. n \/ (k - n \in 1 .. p /\ k = n + (k - n))
  OBVIOUS
<1>6. ASSUME NEW a PROVE Has(u, a) <=> Has(s, a) \/ Has(t, a)
  <2>1. \A k \in 1 .. n : k \in 1 .. n + p
    OBVIOUS
  <2>2. \A k \in 1 .. p : n + k \in 1 .. n + p
    OBVIOUS
  <2>3. Has(s, a) => Has(u, a)
    BY <1>4, <2>1 DEF Has
  <2>4. Has(t, a) => Has(u, a)
    BY <1>4, <2>2 DEF Has
  <2>5. Has(u, a) => Has(s, a) \/ Has(t, a)
    <3> SUFFICES ASSUME NEW k \in 1 .. n + p, u[k] = a PROVE Has(s, a) \/ Has(t, a)
      BY <1>4 DEF Has
    <3>1. CASE k \in 1 .. n
      BY <1>4, <3>1 DEF Has
    <3>2. CASE k - n \in 1 .. p
      <4>1. u[n + (k - n)] = t[k - n] /\ n + (k - n) = k
        BY <1>4, <3>2
      <4> QED
        BY <1>4, <3>2, <4>1 DEF Has
    <3> QED
      BY <1>5, <3>1, <3>2
  <2> QED
    BY <2>3, <2>4, <2>5
<1>7. ASSUME NEW k \in 1 .. n + p, u[k] \in Sanitizers
      PROVE  u[k] = w /\ k > 1 /\ u[k - 1] = "-U_FORTIFY_SOURCE"
  <2>1. CASE k \in 1 .. n
    <3>1. s[k] \in Sanitizers /\ k \in DOMAIN s /\ u[k] = s[k]
      BY <1>4, <1>7, <2>1
    <3>2. s[k] = w /\ k > 1 /\ s[k - 1] = "-U_FORTIFY_SOURCE"
      BY <3>1 DEF Fit
    <3>3. k - 1 \in 1 .. n
      BY <2>1, <3>2
    <3> QED
      BY <1>4, <3>1, <3>2, <3>3
  <2>2. CASE k - n \in 1 .. p
    <3>1. PICK h \in 1 .. p : k = n + h
      BY <1>5, <2>2
    <3>2. t[h] \in Sanitizers /\ h \in DOMAIN t /\ u[k] = t[h]
      BY <1>4, <1>7, <3>1
    <3>3. t[h] = w /\ h > 1 /\ t[h - 1] = "-U_FORTIFY_SOURCE"
      BY <3>2 DEF Fit
    <3>4. h - 1 \in 1 .. p /\ n + (h - 1) = k - 1 /\ k > 1
      BY <3>1, <3>3
    <3>5. u[n + (h - 1)] = t[h - 1]
      BY <1>4, <3>4
    <3> QED
      BY <3>2, <3>3, <3>4, <3>5
  <2> QED
    BY <1>5, <2>1, <2>2
<1>8. w # "none" => ~Has(u, "-D_FORTIFY_SOURCE=2")
  BY <1>6 DEF Fit
<1>9. Fit(u, w)
  BY <1>4, <1>7, <1>8 DEF Fit
<1> QED
  BY <1>1, <1>6, <1>9

\* Arguments of no consequence for sanitizers.
Plain(s) ==
    s \in Seq(Pieces) /\ \A k \in DOMAIN s : s[k] \notin Sanitizers \cup {"-D_FORTIFY_SOURCE=2"}

(* They fit whatever is wanted.                                           *)
LEMMA PlainFits == ASSUME NEW w, NEW s, Plain(s) PROVE Fit(s, w) /\ \A a \in Sanitizers : ~Has(s, a)
<1>1. /\ s \in Seq(Pieces)
      /\ \A k \in DOMAIN s : s[k] \notin Sanitizers /\ s[k] # "-D_FORTIFY_SOURCE=2"
  BY DEF Plain
<1> QED
  BY <1>1 DEF Fit, Has

(* Most of what the wrappers add is plain.                                 *)
LEMMA PiecesPlain ==
    /\ Plain(<<>>) /\ Plain(<<"-B as_path">>) /\ Plain(<<"-no-integrated-as">>)
    /\ Plain(<<"-load afl-llvm-pass.so">>) /\ Plain(<<"-fstack-protector-all">>)
    /\ Plain(<<"-D__AFL_LOOP">>) /\ Plain(<<"-x none">>) /\ Plain(<<"afl-llvm-rt.o">>)
    /\ Plain(<<"afl-llvm-rt-32.o">>) /\ Plain(<<"afl-llvm-rt-64.o">>)
    /\ \A o \in Toolchain!Optimizing : Plain(o)
<1>1. ASSUME NEW a \in Pieces \ (Sanitizers \cup {"-D_FORTIFY_SOURCE=2"}) PROVE Plain(<<a>>)
  BY <1>1 DEF Plain
<1>2. Plain(<<>>)
  BY DEF Plain
<1>3. Plain(<<"-g", "-O3", "-funroll-loops", "-D__AFL_COMPILER=1">>)
  BY DEF Plain, Pieces, Sanitizers
<1> QED
  BY <1>1, <1>2, <1>3 DEF Pieces, Sanitizers, Toolchain!Optimizing

(* A sanitizer of the environment excludes hardening.                      *)
LEMMA NotHardened ==
    ASSUME ChainTypes, ~Toolchain!Exclusive, Wanted # "none" PROVE "AFL_HARDEN" \notin env
<1> SUFFICES ASSUME "AFL_HARDEN" \in env PROVE FALSE
  OBVIOUS
<1>1. PICK x \in {"AFL_USE_ASAN", "AFL_USE_MSAN"} : x \in env
  BY DEF Wanted
<1>2. ~asan_set
  BY DEF Wanted
<1>3. ~(Toolchain!Cardinality(env) > 1)
  BY <1>1, <1>2 DEF Toolchain!Exclusive
<1>4. IsFiniteSet(env) /\ Cardinality(env) \in Nat
  <2>1. IsFiniteSet({"AFL_HARDEN", "AFL_USE_ASAN", "AFL_USE_MSAN"})
    <3>1. IsFiniteSet({}) /\ IsFiniteSet({} \cup {"AFL_HARDEN"})
      BY FS_EmptySet, FS_AddElement
    <3>2. IsFiniteSet(({} \cup {"AFL_HARDEN"}) \cup {"AFL_USE_ASAN"})
      BY <3>1, FS_AddElement
    <3>3. IsFiniteSet((({} \cup {"AFL_HARDEN"}) \cup {"AFL_USE_ASAN"}) \cup {"AFL_USE_MSAN"})
      BY <3>2, FS_AddElement
    <3>4. (({} \cup {"AFL_HARDEN"}) \cup {"AFL_USE_ASAN"}) \cup {"AFL_USE_MSAN"}
            = {"AFL_HARDEN", "AFL_USE_ASAN", "AFL_USE_MSAN"}
      OBVIOUS
    <3> QED
      BY <3>3, <3>4
  <2>2. env \subseteq {"AFL_HARDEN", "AFL_USE_ASAN", "AFL_USE_MSAN"}
    BY DEF ChainTypes
  <2> QED
    BY <2>1, <2>2, FS_Subset, FS_CardinalityType
<1>5. Cardinality({"AFL_HARDEN"} \cup {x}) = 2
  <2>1. Cardinality({"AFL_HARDEN"}) = 1 /\ IsFiniteSet({"AFL_HARDEN"})
    BY FS_Singleton
  <2>2. x \notin {"AFL_HARDEN"}
    BY <1>1
  <2> QED
    BY <2>1, <2>2, FS_AddElement
<1>6. {"AFL_HARDEN"} \cup {x} \subseteq env
  BY <1>1
<1>7. Cardinality({"AFL_HARDEN"} \cup {x}) <= Cardinality(env)
  BY <1>4, <1>6, FS_Subset
<1> QED
  BY <1>3, <1>4, <1>5, <1>7, SameCardinalityOfChain

(* Hardening fits what is wanted: it comes only where nothing is.          *)
LEMMA HardeningFits ==
    ASSUME ChainTypes, ~Toolchain!Exclusive
    PROVE  Fit(Toolchain!Hardening, Wanted) /\ \A a \in Sanitizers : ~Has(Toolchain!Hardening, a)
<1>1. CASE "AFL_HARDEN" \notin env
  <2>1. Toolchain!Hardening = <<>>
    BY <1>1 DEF Toolchain!Hardening
  <2> QED
    BY <2>1, PiecesPlain, PlainFits
<1>2. CASE "AFL_HARDEN" \in env
  <2>1. Wanted = "none"
    BY <1>2, NotHardened
  <2>2. Fit(<<"-fstack-protector-all">>, "none") /\ Fit(<<>>, "none")
        /\ \A a \in Sanitizers : ~Has(<<"-fstack-protector-all">>, a) /\ ~Has(<<>>, a)
    BY PiecesPlain, PlainFits
  <2>3. Fit(<<"-D_FORTIFY_SOURCE=2">>, "none") /\ \A a \in Sanitizers : ~Has(<<"-D_FORTIFY_SOURCE=2">>, a)
    BY DEF Fit, Has, Pieces, Sanitizers
  <2>4. Toolchain!Hardening
          = <<"-fstack-protector-all">> \o (IF fortify_set THEN <<>> ELSE <<"-D_FORTIFY_SOURCE=2">>)
    BY <1>2 DEF Toolchain!Hardening
  <2>5. CASE fortify_set
    BY <2>1, <2>2, <2>4, <2>5, FitTogether
  <2>6. CASE ~fortify_set
    BY <2>1, <2>2, <2>3, <2>4, <2>6, FitTogether
  <2> QED
    BY <2>5, <2>6
<1> QED
  BY <1>1, <1>2

(* What is wanted is what the wrapper asks the compiler for.               *)
LEMMA SanitizingFits ==
    /\ Fit(Toolchain!Sanitizing, Wanted)
    /\ \A a \in Sanitizers : Has(Toolchain!Sanitizing, a) <=> a = Wanted
<1>1. CASE Toolchain!Sanitizing = <<>> /\ Wanted = "none"
  <2>1. "none" \notin Sanitizers
    BY DEF Sanitizers
  <2> QED
    BY <1>1, <2>1, PiecesPlain, PlainFits
<1>2. ASSUME NEW w \in Sanitizers, Toolchain!Sanitizing = <<"-U_FORTIFY_SOURCE", w>>, Wanted = w
      PROVE  /\ Fit(Toolchain!Sanitizing, Wanted)
             /\ \A a \in Sanitizers : Has(Toolchain!Sanitizing, a) <=> a = Wanted
  <2>1. PICK s : s = <<"-U_FORTIFY_SOURCE", w>>
    OBVIOUS
  <2>2. DOMAIN s = 1 .. 2 /\ s[1] = "-U_FORTIFY_SOURCE" /\ s[2] = w /\ s \in Seq(Pieces)
    <3>1. "-U_FORTIFY_SOURCE" \in Pieces /\ w \in Pieces
      BY DEF Pieces, Sanitizers
    <3> QED
      BY <2>1, <3>1
  <2>3. "-U_FORTIFY_SOURCE" \notin Sanitizers /\ "-D_FORTIFY_SOURCE=2" \notin Sanitizers
    BY DEF Sanitizers
  <2>4. \A k \in DOMAIN s : k = 1 \/ k = 2
    BY <2>2
  <2>5. \A a \in Sanitizers : Has(s, a) <=> a = w
    BY <2>2, <2>3, <2>4 DEF Has
  <2>6. ~Has(s, "-D_FORTIFY_SOURCE=2")
    BY <2>2, <2>3, <2>4 DEF Has
  <2>7. \A k \in DOMAIN s : s[k] \in Sanitizers => s[k] = w /\ k > 1 /\ s[k - 1] = "-U_FORTIFY_SOURCE"
    BY <2>2, <2>3, <2>4
  <2> QED
    BY <1>2, <2>1, <2>2, <2>5, <2>6, <2>7 DEF Fit
<1>3. \/ Toolchain!Sanitizing = <<>> /\ Wanted = "none"
      \/ /\ Toolchain!Sanitizing = <<"-U_FORTIFY_SOURCE", "-fsanitize=address">>
         /\ Wanted = "-fsanitize=address"
      \/ /\ Toolchain!Sanitizing = <<"-U_FORTIFY_SOURCE", "-fsanitize=memory">>
         /\ Wanted = "-fsanitize=memory"
  BY Zenon DEF Toolchain!Sanitizing, Wanted
<1> QED
  BY <1>1, <1>2, <1>3 DEF Sanitizers

(* The last pieces of a command line are the last ones of its end.         *)
LEMMA EndOf ==
    ASSUME NEW s \in Seq(Pieces), NEW t \in Seq(Pieces), t # <<>>
    PROVE  /\ Toolchain!Last(s \o t) = t[Len(t)]
           /\ Len(t) = 2 => (s \o t)[Len(s \o t) - 1] = t[1]
<1>1. PICK n \in Nat, p \in Nat : n = Len(s) /\ p = Len(t)
  OBVIOUS
<1>2. p # 0
  BY <1>1
<1>3. PICK u : u = s \o t
  OBVIOUS
<1>4. Len(u) = n + p /\ \A k \in 1 .. p : u[n + k] = t[k]
  BY <1>1, <1>3, ConcatProperties
<1>5. u[n + p] = t[p]
  BY <1>2, <1>4
<1>6. p = 2 => u[(n + p) - 1] = t[1]
  BY <1>4
<1> QED
  BY <1>1, <1>3, <1>4, <1>5, <1>6 DEF Toolchain!Last

(* A command line that fits has one sanitizer at most, which takes back    *)
(* what was fortified.                                                     *)
LEMMA FitExcludes ==
    ASSUME NEW w, Fit(added', w) PROVE Toolchain!SanitizersExclude'
<1>1. PICK u : u = added'
  OBVIOUS
<1>2. /\ Fit(u, w)
      /\ \A k \in DOMAIN u : u[k] \in Sanitizers => u[k] = w /\ k > 1 /\ u[k - 1] = "-U_FORTIFY_SOURCE"
      /\ w # "none" => ~Has(u, "-D_FORTIFY_SOURCE=2")
  BY <1>1 DEF Fit
<1>3. PICK T : T = Toolchain!ToSet(u) \cap {"-fsanitize=address", "-fsanitize=memory"}
  OBVIOUS
<1>4. T \subseteq {w}
  BY <1>2, <1>3 DEF Toolchain!ToSet, Sanitizers
<1>5. Toolchain!Cardinality(T) <= 1
  <2>1. IsFiniteSet({w}) /\ Cardinality({w}) = 1
    BY FS_Singleton
  <2>2. Cardinality(T) <= 1
    BY <1>4, <2>1, FS_Subset
  <2> QED
    BY <2>2, SameCardinalityOfChain
<1>6. ASSUME NEW k \in DOMAIN u, u[k] \in {"-fsanitize=address", "-fsanitize=memory"}
      PROVE  u[k - 1] = "-U_FORTIFY_SOURCE" /\ "-D_FORTIFY_SOURCE=2" \notin Toolchain!ToSet(u)
  <2>1. u[k] \in Sanitizers
    BY <1>6 DEF Sanitizers
  <2>2. u[k] = w /\ u[k - 1] = "-U_FORTIFY_SOURCE"
    BY <1>2, <2>1
  <2>3. w # "none"
    BY <2>1, <2>2 DEF Sanitizers
  <2> QED
    BY <1>2, <2>2, <2>3 DEF Has, Toolchain!ToSet
<1> QED
  BY <1>1, <1>3, <1>5, <1>6, Zenon DEF Toolchain!SanitizersExclude

(* What afl-gcc adds fits what is wanted, and has it.                      *)
LEMMA CommandFits ==
    ASSUME ChainTypes, ~Toolchain!Exclusive, NEW o \in Toolchain!Optimizing,
           NEW c \in {<<>>, <<"-no-integrated-as">>},
           NEW u, u = <<"-B as_path">> \o c \o Toolchain!Hardening \o Toolchain!Sanitizing \o o
    PROVE  Fit(u, Wanted) /\ \A a \in Sanitizers : Has(u, a) <=> a = Wanted
<1>1. /\ Fit(<<"-B as_path">>, Wanted) /\ Fit(c, Wanted) /\ Fit(o, Wanted)
      /\ \A a \in Sanitizers : ~Has(<<"-B as_path">>, a) /\ ~Has(c, a) /\ ~Has(o, a)
  BY PiecesPlain, PlainFits
<1>2. PICK u1 : u1 = <<"-B as_path">> \o c
  OBVIOUS
<1>3. Fit(u1, Wanted) /\ \A a \in Sanitizers : ~Has(u1, a)
  BY <1>1, <1>2, FitTogether
<1>4. PICK u2 : u2 = u1 \o Toolchain!Hardening
  OBVIOUS
<1>5. Fit(u2, Wanted) /\ \A a \in Sanitizers : ~Has(u2, a)
  BY <1>3, <1>4, HardeningFits, FitTogether
<1>6. PICK u3 : u3 = u2 \o Toolchain!Sanitizing
  OBVIOUS
<1>7. Fit(u3, Wanted) /\ \A a \in Sanitizers : Has(u3, a) <=> a = Wanted
  BY <1>5, <1>6, SanitizingFits, FitTogether
<1>8. u = u3 \o o
  BY <1>2, <1>4, <1>6
<1>9. /\ Fit(u3 \o o, Wanted)
      /\ \A a : Has(u3 \o o, a) <=> Has(u3, a) \/ Has(o, a)
  BY <1>1, <1>7, FitTogether
<1> QED
  BY <1>1, <1>7, <1>8, <1>9

(* afl-gcc finishes its command line and executes the compiler.            *)
LEMMA CompilerStep == ASSUME ChainParts, Toolchain!ExecCompiler PROVE ChainParts'
<1>1. /\ stage = "arguments" /\ status' = status /\ ~Toolchain!Fast
      /\ UNCHANGED <<wrapper, given, value, kept, asan_set, x_set, maybe_linking, bit_mode>>
  BY Zenon DEF Toolchain!ExecCompiler, Toolchain!assembling
<1>2. \/ stage' = "failed" /\ UNCHANGED env
      \/ /\ ~Toolchain!Exclusive /\ stage' = "compile" /\ env' = Toolchain!EnvOfCompiler
         /\ \E o \in Toolchain!Optimizing :
              added' = <<"-B as_path">> \o (IF Toolchain!ClangMode THEN <<"-no-integrated-as">> ELSE <<>>)
                         \o Toolchain!Hardening \o Toolchain!Sanitizing \o o
  BY Zenon DEF Toolchain!ExecCompiler, Toolchain!Fail
<1>3. ChainTypes /\ Toolchain!StatusTold
  BY DEF ChainParts
<1>4. PassedSoFar' /\ Noted'
  BY <1>1, ArgumentsStay DEF ChainParts
<1>5. Unfinished'
  <2>1. ~Toolchain!Fast'
    BY <1>1 DEF Toolchain!Fast
  <2> QED
    BY <2>1 DEF Unfinished
<1>6. ChainTypes'
  <2>1. env' \subseteq {"AFL_HARDEN", "AFL_USE_ASAN", "AFL_USE_MSAN"}
    BY <1>2, <1>3 DEF ChainTypes, Toolchain!EnvOfCompiler
  <2> QED
    BY <1>1, <1>2, <1>3, <2>1 DEF ChainTypes
<1>7. CASE stage' = "failed"
  <2>1. /\ EnvTold' /\ Toolchain!SanitizersExclude' /\ Toolchain!DensityFollows'
        /\ Toolchain!RuntimeLinked' /\ Toolchain!StatusTold'
    BY <1>1, <1>3, <1>7, NothingCompiled
  <2> QED
    BY <1>4, <1>5, <1>6, <2>1 DEF ChainParts
<1>8. CASE stage' # "failed"
  <2>1. ~Toolchain!Exclusive /\ stage' = "compile" /\ env' = Toolchain!EnvOfCompiler
    BY <1>2, <1>8
  <2>2. PICK o \in Toolchain!Optimizing :
          added' = <<"-B as_path">> \o (IF Toolchain!ClangMode THEN <<"-no-integrated-as">> ELSE <<>>)
                     \o Toolchain!Hardening \o Toolchain!Sanitizing \o o
    BY <1>2, <1>8
  <2>3. PICK c \in {<<>>, <<"-no-integrated-as">>} :
          c = IF Toolchain!ClangMode THEN <<"-no-integrated-as">> ELSE <<>>
    BY Zenon
  <2>4. PICK u : u = added'
    OBVIOUS
  <2>5. Fit(u, Wanted) /\ \A a \in Sanitizers : Has(u, a) <=> a = Wanted
    BY <1>3, <2>1, <2>2, <2>3, <2>4, CommandFits
  <2>6. Toolchain!SanitizersExclude'
    BY <2>4, <2>5, FitExcludes
  <2>7. EnvTold'
    <3>1. (\E k \in DOMAIN u : u[k] \in Sanitizers) <=> Wanted \in Sanitizers
      BY <2>5 DEF Has
    <3>2. CASE asan_set
      <4>1. "AFL_USE_ASAN" \in env'
        BY <2>1, <3>2 DEF Toolchain!EnvOfCompiler
      <4> QED
        BY <1>1, <3>2, <4>1 DEF EnvTold
    <3>3. CASE ~asan_set
      <4>1. env' = env
        BY <2>1, <3>3 DEF Toolchain!EnvOfCompiler
      <4>2. env \cap {"AFL_USE_ASAN", "AFL_USE_MSAN"} # {} <=> Wanted \in Sanitizers
        BY <3>3 DEF Wanted, Sanitizers
      <4> QED
        BY <1>1, <2>4, <3>1, <3>3, <4>1, <4>2 DEF EnvTold
    <3> QED
      BY <3>2, <3>3
  <2>8. Toolchain!DensityFollows' /\ Toolchain!RuntimeLinked' /\ Toolchain!StatusTold'
    BY <1>1, <1>3, <2>1 DEF Toolchain!DensityFollows, Toolchain!RuntimeLinked, Toolchain!StatusTold
  <2> QED
    BY <1>4, <1>5, <1>6, <2>6, <2>7, <2>8 DEF ChainParts
<1> QED
  BY <1>7, <1>8

(* Two pieces behind each other.                                           *)
LEMMA TwoPieces ==
    ASSUME NEW a \in Pieces, NEW b \in Pieces
    PROVE  /\ Len(<<a>> \o <<b>>) = 2 /\ <<a>> \o <<b>> # <<>>
           /\ (<<a>> \o <<b>>)[1] = a /\ (<<a>> \o <<b>>)[2] = b
<1>1. <<a>> \in Seq(Pieces) /\ <<b>> \in Seq(Pieces) /\ Len(<<a>>) = 1 /\ Len(<<b>>) = 1
  OBVIOUS
<1> QED
  BY <1>1

\* The runtimes of afl-clang-fast.
Runtimes == {"afl-llvm-rt.o", "afl-llvm-rt-32.o", "afl-llvm-rt-64.o"}

(* A program that may be linked gets the runtime of its width last.        *)
LEMMA LinkingFits ==
    ASSUME ChainTypes, NEW w
    PROVE  /\ Fit(Toolchain!Linking, w)
           /\ maybe_linking /\ bit_mode = 0 => Toolchain!Runtime = "afl-llvm-rt.o"
           /\ maybe_linking =>
                /\ Toolchain!Linking # <<>>
                /\ Toolchain!Linking[Len(Toolchain!Linking)] = Toolchain!Runtime
                /\ Toolchain!Runtime \in Runtimes
                /\ Toolchain!Runtime = "afl-llvm-rt.o" => bit_mode = 0
                /\ x_set => Len(Toolchain!Linking) = 2 /\ Toolchain!Linking[1] = "-x none"
           /\ ~maybe_linking => Toolchain!Linking = <<>>
<1>1. \/ bit_mode = 0 /\ Toolchain!Runtime = "afl-llvm-rt.o"
      \/ bit_mode = 32 /\ Toolchain!Runtime = "afl-llvm-rt-32.o"
      \/ bit_mode = 64 /\ Toolchain!Runtime = "afl-llvm-rt-64.o"
  <2>1. bit_mode = 0 \/ bit_mode = 32 \/ bit_mode = 64
    BY DEF ChainTypes
  <2>2. bit_mode = 0 => Toolchain!Runtime = "afl-llvm-rt.o"
    BY DEF Toolchain!Runtime
  <2>3. bit_mode = 32 => Toolchain!Runtime = "afl-llvm-rt-32.o"
    BY DEF Toolchain!Runtime
  <2>4. bit_mode = 64 => Toolchain!Runtime = "afl-llvm-rt-64.o"
    BY DEF Toolchain!Runtime
  <2> QED
    BY <2>1, <2>2, <2>3, <2>4
<1>2. PICK r \in Runtimes : r = Toolchain!Runtime
  BY <1>1 DEF Runtimes
<1>3. Fit(<<r>>, w) /\ Fit(<<"-x none">>, w) /\ Fit(<<>>, w)
  BY PiecesPlain, PlainFits DEF Runtimes
<1>4. r = "afl-llvm-rt.o" <=> bit_mode = 0
  BY <1>1, <1>2
<1>5. CASE ~maybe_linking
  <2>1. Toolchain!Linking = <<>>
    BY <1>5 DEF Toolchain!Linking
  <2> QED
    BY <1>3, <1>5, <2>1
<1>6. CASE maybe_linking
  <2>1. Toolchain!Linking = (IF x_set THEN <<"-x none">> ELSE <<>>) \o <<r>>
    BY <1>2, <1>6 DEF Toolchain!Linking
  <2>2. CASE x_set
    <3>1. Toolchain!Linking = <<"-x none">> \o <<r>>
      BY <2>1, <2>2
    <3>2. Fit(Toolchain!Linking, w)
      BY <1>3, <3>1, FitTogether
    <3>3. /\ Len(Toolchain!Linking) = 2 /\ Toolchain!Linking[1] = "-x none"
          /\ Toolchain!Linking[2] = r /\ Toolchain!Linking # <<>>
      <4>1. r \in Pieces /\ "-x none" \in Pieces
        BY DEF Runtimes, Pieces
      <4> QED
        BY <3>1, <4>1, TwoPieces
    <3> QED
      BY <1>2, <1>6, <1>4, <3>2, <3>3
  <2>3. CASE ~x_set
    <3>1. Toolchain!Linking = <<>> \o <<r>>
      BY <2>1, <2>3
    <3>2. Toolchain!Linking = <<r>>
      BY <3>1
    <3>3. Len(Toolchain!Linking) = 1 /\ Toolchain!Linking[1] = r /\ Toolchain!Linking # <<>>
      BY <3>2
    <3> QED
      BY <1>2, <1>3, <1>6, <1>4, <2>3, <3>2, <3>3
  <2> QED
    BY <2>2, <2>3
<1> QED
  BY <1>5, <1>6

(* What afl-clang-fast adds fits what is wanted, and ends as it should.    *)
LEMMA FastCommandFits ==
    ASSUME ChainTypes, ~Toolchain!Exclusive, NEW o \in Toolchain!Optimizing,
           added = <<"-load afl-llvm-pass.so">>,
           NEW u, u = added \o Toolchain!Hardening \o Toolchain!Sanitizing \o o \o <<"-D__AFL_LOOP">>
                        \o Toolchain!Linking
    PROVE  /\ Fit(u, Wanted)
           /\ maybe_linking =>
                /\ Toolchain!Last(u) = Toolchain!Runtime
                /\ x_set => u[Len(u) - 1] = "-x none"
           /\ ~maybe_linking => Toolchain!Last(u) = "-D__AFL_LOOP"
<1>1. Fit(added, Wanted) /\ Fit(<<"-D__AFL_LOOP">>, Wanted) /\ Fit(o, Wanted)
  BY PiecesPlain, PlainFits
<1>2. PICK u2 : u2 = added \o Toolchain!Hardening \o Toolchain!Sanitizing \o o
  OBVIOUS
<1>3. Fit(u2, Wanted)
  <2>1. PICK u0 : u0 = added \o Toolchain!Hardening
    OBVIOUS
  <2>2. Fit(u0, Wanted)
    BY <1>1, <2>1, HardeningFits, FitTogether
  <2>3. PICK u1 : u1 = u0 \o Toolchain!Sanitizing
    OBVIOUS
  <2>4. Fit(u1, Wanted)
    BY <2>2, <2>3, SanitizingFits, FitTogether
  <2>5. u2 = u1 \o o
    BY <1>2, <2>1, <2>3
  <2> QED
    BY <1>1, <2>4, <2>5, FitTogether
<1>4. PICK u3 : u3 = u2 \o <<"-D__AFL_LOOP">>
  OBVIOUS
<1>5. Fit(u3, Wanted) /\ u3 \in Seq(Pieces) /\ u2 \in Seq(Pieces)
  <2>1. Fit(u3, Wanted)
    BY <1>1, <1>3, <1>4, FitTogether
  <2> QED
    BY <1>3, <2>1 DEF Fit
<1>6. u = u3 \o Toolchain!Linking
  BY <1>2, <1>4
<1>7. Fit(Toolchain!Linking, Wanted) /\ Toolchain!Linking \in Seq(Pieces)
  <2>1. Fit(Toolchain!Linking, Wanted)
    BY LinkingFits
  <2> QED
    BY <2>1 DEF Fit
<1>8. Fit(u, Wanted)
  <2>1. Fit(u3 \o Toolchain!Linking, Wanted)
    BY <1>5, <1>7, FitTogether
  <2> QED
    BY <1>6, <2>1
<1>9. CASE maybe_linking
  <2>1. /\ Toolchain!Linking # <<>>
        /\ Toolchain!Linking[Len(Toolchain!Linking)] = Toolchain!Runtime
        /\ x_set => Len(Toolchain!Linking) = 2 /\ Toolchain!Linking[1] = "-x none"
    BY <1>9, LinkingFits
  <2>2. PICK t : t = Toolchain!Linking
    OBVIOUS
  <2>3. Toolchain!Last(u3 \o t) = t[Len(t)] /\ (Len(t) = 2 => (u3 \o t)[Len(u3 \o t) - 1] = t[1])
    BY <1>5, <1>7, <2>1, <2>2, EndOf
  <2>4. Toolchain!Last(u) = Toolchain!Runtime /\ (x_set => u[Len(u) - 1] = "-x none")
    BY <1>6, <2>1, <2>2, <2>3, Zenon
  <2> QED
    BY <1>8, <1>9, <2>4
<1>10. CASE ~maybe_linking
  <2>1. u = u3
    <3>1. u = u3 \o <<>>
      BY <1>6, <1>10, LinkingFits
    <3> QED
      BY <1>5, <3>1, ConcatEmptySeq
  <2>2. <<"-D__AFL_LOOP">> \in Seq(Pieces)
    BY <1>1 DEF Fit
  <2>3. PICK t : t = <<"-D__AFL_LOOP">>
    OBVIOUS
  <2>4. t # <<>> /\ t[Len(t)] = "-D__AFL_LOOP"
    BY <2>3
  <2>5. Toolchain!Last(u2 \o t) = t[Len(t)]
    BY <1>5, <2>2, <2>3, <2>4, EndOf
  <2> QED
    BY <1>4, <1>8, <1>10, <2>1, <2>3, <2>4, <2>5
<1> QED
  BY <1>9, <1>10

(* afl-clang-fast finishes its command line and executes the compiler.     *)
LEMMA FastCompilerStep == ASSUME ChainParts, Toolchain!ExecFastCompiler PROVE ChainParts'
<1>1. /\ stage = "arguments" /\ status' = status /\ Toolchain!Fast
      /\ UNCHANGED <<wrapper, env, given, value, kept, asan_set, x_set, maybe_linking, bit_mode>>
  BY Zenon DEF Toolchain!ExecFastCompiler, Toolchain!assembling
<1>2. \/ stage' = "failed"
      \/ /\ ~Toolchain!Exclusive /\ stage' = "compiled"
         /\ \E o \in Toolchain!Optimizing :
              added' = added \o Toolchain!Hardening \o Toolchain!Sanitizing \o o
                         \o <<"-D__AFL_LOOP">> \o Toolchain!Linking
  BY Zenon DEF Toolchain!ExecFastCompiler, Toolchain!Fail
<1>3. ChainTypes /\ Toolchain!StatusTold /\ Noted
  BY DEF ChainParts
<1>4. PassedSoFar' /\ Noted'
  BY <1>1, ArgumentsStay DEF ChainParts
<1>5. Unfinished'
  BY <1>2 DEF Unfinished
<1>6. ChainTypes'
  BY <1>1, <1>2, <1>3 DEF ChainTypes
<1>7. CASE stage' = "failed"
  <2>1. /\ EnvTold' /\ Toolchain!SanitizersExclude' /\ Toolchain!DensityFollows'
        /\ Toolchain!RuntimeLinked' /\ Toolchain!StatusTold'
    BY <1>1, <1>3, <1>7, NothingCompiled
  <2> QED
    BY <1>4, <1>5, <1>6, <2>1 DEF ChainParts
<1>8. CASE stage' # "failed"
  <2>1. ~Toolchain!Exclusive /\ stage' = "compiled"
    BY <1>2, <1>8
  <2>2. PICK o \in Toolchain!Optimizing :
          added' = added \o Toolchain!Hardening \o Toolchain!Sanitizing \o o
                     \o <<"-D__AFL_LOOP">> \o Toolchain!Linking
    BY <1>2, <1>8
  <2>3. added = <<"-load afl-llvm-pass.so">>
    BY <1>1 DEF ChainParts, Unfinished
  <2>4. PICK u : u = added'
    OBVIOUS
  <2>5. /\ Fit(u, Wanted)
        /\ maybe_linking =>
             /\ Toolchain!Last(u) = Toolchain!Runtime
             /\ x_set => u[Len(u) - 1] = "-x none"
        /\ ~maybe_linking => Toolchain!Last(u) = "-D__AFL_LOOP"
    BY <1>3, <2>1, <2>2, <2>3, <2>4, FastCommandFits
  <2>6. Toolchain!SanitizersExclude'
    BY <2>4, <2>5, FitExcludes
  <2>7. EnvTold' /\ Toolchain!DensityFollows' /\ Toolchain!StatusTold'
    BY <1>1, <1>3, <2>1 DEF EnvTold, Toolchain!DensityFollows, Toolchain!StatusTold
  <2>8. Toolchain!RuntimeLinked'
    <3>1. /\ maybe_linking <=> ~(\E b \in {"-c", "-S", "-E", "-shared"} : Has(given, b))
          /\ bit_mode = 0 => ~Has(given, "-m32")
          /\ x_set <=> Has(given, "-x")
      BY <1>1, <1>3 DEF Noted
    <3>2. \A b : Has(given, b) <=> b \in Toolchain!ToSet(given)
      BY DEF Has, Toolchain!ToSet
    <3>3. maybe_linking <=> Toolchain!ToSet(given) \cap {"-c", "-S", "-E", "-shared"} = {}
      BY <3>1, <3>2
    <3>4. maybe_linking => Toolchain!Runtime \in Runtimes /\ (Toolchain!Runtime = "afl-llvm-rt.o" => bit_mode = 0)
      BY <1>3, LinkingFits
    <3>5. (Toolchain!Last(u) \in {"afl-llvm-rt.o", "afl-llvm-rt-32.o", "afl-llvm-rt-64.o"})
            <=> Toolchain!ToSet(given) \cap {"-c", "-S", "-E", "-shared"} = {}
      <4>1. "-D__AFL_LOOP" \notin {"afl-llvm-rt.o", "afl-llvm-rt-32.o", "afl-llvm-rt-64.o"}
        OBVIOUS
      <4> QED
        BY <2>5, <3>3, <3>4, <4>1 DEF Runtimes
    <3>6. Toolchain!Last(u) = "afl-llvm-rt.o" => "-m32" \notin Toolchain!ToSet(given)
      <4>1. "-D__AFL_LOOP" # "afl-llvm-rt.o"
        OBVIOUS
      <4> QED
        BY <2>5, <3>1, <3>2, <3>4, <4>1, Zenon
    <3>7. maybe_linking /\ "-x" \in Toolchain!ToSet(given) => u[Len(u) - 1] = "-x none"
      BY <2>5, <3>1, <3>2, Zenon
    <3> QED
      BY <1>1, <2>4, <3>5, <3>6, <3>7, Zenon DEF Toolchain!RuntimeLinked
  <2> QED
    BY <1>4, <1>5, <1>6, <2>6, <2>7, <2>8 DEF ChainParts
<1> QED
  BY <1>7, <1>8

(* What is known of the arguments is what the user expects of them.        *)
LEMMA ArgumentsAreKept == ASSUME ChainTypes, PassedSoFar PROVE Toolchain!ArgumentsKept
<1>1. ASSUME NEW a \in Toolchain!Arguments \ {"-B", "-Bdir", "-integrated-as", "-Wl,-z,defs", "-x"}
      PROVE  Toolchain!Cardinality({k \in DOMAIN kept : kept[k] = a})
               = Toolchain!Cardinality({k \in DOMAIN given : /\ given[k] = a
                                                             /\ ~Toolchain!Fast => ~Toolchain!IsValue(given, k)})
  <2>1. Cardinality(PlacesOf(kept, a)) = Cardinality(OwnPlacesOf(given, a))
    BY <1>1 DEF PassedSoFar, PassedOn
  <2>2. PlacesOf(kept, a) = {k \in DOMAIN kept : kept[k] = a}
    BY DEF PlacesOf
  <2>3. OwnPlacesOf(given, a) = {k \in DOMAIN given : /\ given[k] = a
                                                      /\ ~Toolchain!Fast => ~Toolchain!IsValue(given, k)}
    BY Zenon DEF OwnPlacesOf
  <2> QED
    BY <2>1, <2>2, <2>3, SameCardinalityOfChain
<1>2. \A b : Has(kept, b) <=> b \in Toolchain!ToSet(kept)
  BY DEF Has, Toolchain!ToSet
<1>3. ~Toolchain!Fast => Toolchain!ToSet(kept) \cap {"-B", "-Bdir", "-integrated-as"} = {}
  BY <1>2 DEF PassedSoFar
<1>4. Toolchain!Fast => "-Wl,-z,defs" \notin Toolchain!ToSet(kept)
  BY <1>2 DEF PassedSoFar
<1> QED
  BY <1>1, <1>3, <1>4, Zenon DEF Toolchain!ArgumentsKept

(* The compiler gets the user's arguments but what would bypass the        *)
(* instrumentation, one sanitizer at most comes with the environment and   *)
(* none with hardening, afl-as instruments a third of it however it is     *)
(* asked for, a program may be linked with the runtime of its width, and   *)
(* afl-as reports success for what was assembled, or when a signal killed  *)
(* the assembler, and for nothing else.                                    *)
THEOREM CommandsAreSound == Spec => []CommandSound
<1>1. ChainInv /\ [Next]_vars => ChainInv'
  <2> SUFFICES ASSUME running = "cc", ChainParts, Toolchain!Next \/ UNCHANGED vars PROVE ChainParts'
    BY Steps DEF ChainInv
  <2>1. CASE UNCHANGED vars
    <3>1. /\ UNCHANGED <<stage, env, wrapper, given, value, kept, added, asan_set, x_set>>
          /\ UNCHANGED <<maybe_linking, bit_mode, inst_ratio, status>>
      BY <2>1 DEF vars, sharedVars, chainVars
    <3>2. PassedSoFar' /\ Noted'
      BY <3>1, ArgumentsStay DEF ChainParts
    <3>3. ChainTypes' /\ Unfinished' /\ EnvTold'
      BY <3>1 DEF ChainParts, ChainTypes, Unfinished, EnvTold, Toolchain!Fast
    <3>4. Toolchain!SanitizersExclude' /\ Toolchain!StatusTold'
      BY <3>1 DEF ChainParts, Toolchain!SanitizersExclude, Toolchain!StatusTold, Toolchain!Compiled
    <3>5. Toolchain!DensityFollows' /\ Toolchain!RuntimeLinked'
      BY <3>1 DEF ChainParts, Toolchain!DensityFollows, Toolchain!RuntimeLinked
    <3> QED
      BY <3>2, <3>3, <3>4, <3>5 DEF ChainParts
  <2>2. CASE Toolchain!Next
    <3>1. \/ Toolchain!find_as \/ Toolchain!find_obj
          \/ \E a \in Toolchain!Arguments : Toolchain!EditArgument(a) \/ Toolchain!EditFastArgument(a)
          \/ Toolchain!ExecCompiler \/ Toolchain!ExecFastCompiler
          \/ \E a \in Toolchain!AsArguments : Toolchain!EditAsArgument(a)
          \/ Toolchain!EditInputFile \/ Toolchain!Instrument \/ Toolchain!Assemble
      BY <2>2, Zenon DEF Toolchain!Next
    <3> QED
      BY <3>1, FindStep, ArgumentStep, FastArgumentStep, CompilerStep, FastCompilerStep,
         AssemblerSteps, Zenon
  <2> QED
    BY <2>1, <2>2
<1>2. ChainInv => CommandSound
  <2> SUFFICES ASSUME running = "cc", ChainParts PROVE Toolchain!CommandSound
    BY DEF ChainInv, CommandSound
  <2> QED
    BY ArgumentsAreKept DEF ChainParts, Toolchain!CommandSound
<1> QED
  BY ChainInit, <1>1, <1>2, PTL DEF Spec
=============================================================================
