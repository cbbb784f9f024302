--------------------------- MODULE FuzzOne_proofs ----------------------------
(***************************************************************************)
(* Proofs about what fuzz_one does with one message of a sequence: the     *)
(* stages that make mutants of it, and the run of the server under test    *)
(* that follows each of them.                                              *)
(*                                                                         *)
(* ForkServer, for every set of modes and every number of runs: whatever   *)
(* signals and timers race with the runner, afl-fuzz and its fork server   *)
(* agree on who runs, and the verdict of a run is the cause of its end.    *)
(* The argument is a table of the dialogue: for each place afl-fuzz may    *)
(* stop at, what the fork server does and what is in the two pipes, and    *)
(* beside it which process may live and who has killed it.                 *)
(*                                                                         *)
(* Deterministic, for every message, every dictionary and every size:      *)
(* the stages leave the message as it was, do as much as they announce,    *)
(* and keep both lists of tokens in order.  The argument counts what is    *)
(* left of a stage, and follows the list of found tokens, as a function of *)
(* its places, through the two sorts and the evictions of maybe_add_auto.  *)
(***************************************************************************)
EXTENDS ForkServer, Deterministic, SequenceTheorems, FiniteSetTheorems, NaturalsInduction,
        WellFoundedInduction, TLAPS

-----------------------------------------------------------------------------
(* The inductive invariant                                                 *)

PcOfStart == {"init_forkserver", "hello", "up", "down", "init_failed"}
PcOfRun   == {"session", "await_end", "status"}
PcOfEnd   == {"settle", "disarm", "report"}
PcOfRest  == {"idle", "returned", "leave", "wait_fork_server", "exited", "fatal"}

Ends == {"", "SIGKILL", "SIGTERM", "crash", "exit", "exec_failed"}

(* The two messages of the fork server in a run.                           *)
Taken == [pid |-> fs_child_pid, how |-> ""]
Relay == [pid |-> fs_child_pid, how |-> IF child_stopped THEN "stopped" ELSE ended[fs_child_pid]]

FlagsTyped ==
    /\ dry_run \in BOOLEAN /\ timer \in BOOLEAN /\ child_stopped \in BOOLEAN
    /\ child_timed_out \in BOOLEAN /\ prev_timed_out \in BOOLEAN

PlacesTyped ==
    /\ mode \in Modes /\ runs \in 0 .. MaxRuns /\ stop_soon \in {0, 1, 2}
    /\ pc \in PcOfStart \cup {"request", "read_pid", "fork", "arm"} \cup PcOfRun \cup PcOfEnd
                \cup PcOfRest
    /\ fs \in {"none", "hello", "read", "write_off", "spawn", "write_pid", "wait", "dead"}
    /\ child_pid \in Pids \cup {-1, 0} /\ fs_child_pid \in Pids \cup {0}
    /\ fault \in {"", "NONE", "TMOUT", "CRASH", "ERROR"}
    /\ status.pid \in Pids \cup {0}

Message == [pid : Pids \cup {0}, how : Signalled \cup {"", "exit", "stopped", "exec_failed"}]

PipesTyped ==
    /\ ctl \in Seq(BOOLEAN) /\ Len(ctl) <= 1
    /\ st \in Seq(Message) /\ Len(st) <= 2

(* A process that has not ended has no reason of its end.                  *)
ProcsTyped ==
    /\ proc \in [Pids -> {"none", "running", "stopped", "zombie", "gone"}]
    /\ ended \in [Pids -> Ends]
    /\ \A p \in Pids : proc[p] \in {"none", "running", "stopped"} => ended[p] = ""
    /\ sigterm \subseteq Pids

Typed == FlagsTyped /\ PlacesTyped /\ PipesTyped /\ ProcsTyped

(* Process numbers are given out in order, and one is left for a run that  *)
(* has not got its process yet.                                            *)
WillSpawn ==
    \/ pc \in {"request", "fork"}
    \/ pc = "read_pid" /\ (fs \in {"write_off", "spawn"} \/ (fs = "read" /\ ctl # <<>>))

NumbersInOrder ==
    \E k \in 0 .. runs :
        /\ \A p \in Pids : proc[p] # "none" <=> p <= k
        /\ WillSpawn => k < runs

(* The verdict is of a process there was.                                  *)
VerdictStands ==
    /\ VerdictIsCause
    /\ pc = "returned" /\ stop_soon = 0 /\ fault = "CRASH" => status.pid \in Pids

(* Without a fork server there is none, and afl-fuzz is the parent.        *)
Alone ==
    /\ fs = "none" /\ ctl = <<>> /\ st = <<>> /\ fs_end = ""
    /\ pc \notin {"init_forkserver", "hello", "up", "down", "init_failed", "request", "read_pid", "fatal"}
    /\ pc \in {"arm"} \cup PcOfRun =>
          /\ child_pid \in Pids /\ proc[child_pid] \in {"running", "stopped", "zombie"}
          /\ Alive \subseteq {child_pid}
          /\ ended[child_pid] = "SIGKILL" => stop_soon # 0 \/ child_timed_out
    /\ pc \notin {"arm"} \cup PcOfRun => Alive = {}
    /\ pc \in PcOfEnd =>
          /\ status.pid \in Pids /\ status.how = ended[status.pid]
          /\ status.how = "SIGKILL" => stop_soon # 0 \/ child_timed_out
    /\ timer => pc \in PcOfRun \cup {"settle", "disarm"}
    /\ pc = "settle" => child_pid \in Pids
    /\ pc \in {"fork", "arm"} => ~child_timed_out

(* With a fork server: what it does and what is in the pipes, wherever     *)
(* afl-fuzz is.                                                            *)
DialogueAtStart ==
    /\ pc = "init_forkserver" => fs = "none" /\ ctl = <<>> /\ st = <<>>
    /\ pc = "hello" =>
          /\ ctl = <<>>
          /\ \/ fs \in {"hello", "dead"} /\ st = <<>>
             \/ fs \in {"read", "dead"} /\ st = <<NoStatus>> /\ fs_end # "start"
    /\ pc = "up" => fs \in {"read", "dead"}
    /\ pc \in {"down", "init_failed", "fatal"} => fs = "dead"
    /\ pc \in PcOfStart => child_pid = -1 /\ ~child_stopped

DialogueInRun ==
    /\ pc = "read_pid" =>
          \/ fs = "read" /\ ctl = <<prev_timed_out>> /\ st = <<>>
          \/ fs \in {"write_off", "spawn", "write_pid"} /\ ctl = <<>> /\ st = <<>>
          \/ fs = "wait" /\ ctl = <<>> /\ st = <<Taken>>
          \/ fs = "read" /\ ctl = <<>> /\ st = <<Taken, Relay>>
          \/ fs = "dead" /\ fs_end = "fork" /\ st = <<>>
          \/ fs = "dead" /\ stop_soon # 0
             /\ (st = <<>> \/ (ctl = <<>> /\ Head(st) = Taken))
    /\ pc \in {"arm"} \cup PcOfRun =>
          /\ ctl = <<>> /\ child_pid = fs_child_pid
          /\ \/ fs = "wait" /\ st = <<>>
             \/ fs = "read" /\ st = <<Relay>>
             \/ fs = "dead" /\ stop_soon # 0
    /\ pc \in PcOfEnd =>
          \/ fs = "read" /\ status = Relay
          \/ fs = "dead" /\ stop_soon # 0
    /\ pc = "settle" => child_pid = fs_child_pid
    /\ pc = "disarm" /\ fs = "read" => child_pid = IF child_stopped THEN fs_child_pid ELSE 0
    /\ pc \in {"request", "read_pid", "arm"} /\ fs # "dead" => ~child_timed_out

Quiet ==
    /\ pc \in {"request"} \cup PcOfRest => fs \in {"read", "dead"}
    /\ pc \in {"up", "request"} \cup PcOfEnd \cup PcOfRest /\ fs = "read" => ctl = <<>> /\ st = <<>>
    /\ fs # "none" /\ fs # "dead" /\ timer =>
          pc \in {"hello", "up"} \cup PcOfRun \cup {"settle", "disarm"}

(* The runner that may live, by what the fork server is about to do.  A    *)
(* stopped one it does not hear of again was killed by the timer of the    *)
(* run that has stopped it: prev_timed_out once that run is over.          *)
BetweenRuns ==
    pc \in {"up", "request"} \cup PcOfRest \/ (pc = "read_pid" /\ ctl # <<>>)

Lives ==
    /\ Alive \subseteq {fs_child_pid}
    /\ fs \in {"none", "hello"} => Alive = {} /\ ~child_stopped
    /\ fs \in {"read", "spawn"} /\ ~child_stopped => Alive = {}
    /\ fs = "read" /\ child_stopped => proc[fs_child_pid] \in {"stopped", "zombie"}
    /\ fs = "spawn" /\ child_stopped => proc[fs_child_pid] = "stopped"
    /\ fs = "write_off" => child_stopped /\ proc[fs_child_pid] = "zombie"
    /\ fs \in {"write_pid", "wait"} =>
          ~child_stopped /\ proc[fs_child_pid] \in {"running", "stopped", "zombie"}
    /\ fs \in {"write_off", "write_pid", "wait"} \/ child_stopped \/ pc \in {"arm"} \cup PcOfRun \cup PcOfEnd
          \/ (pc = "read_pid" /\ st # <<>>) => fs_child_pid \in Pids
    /\ fs = "hello" => pc = "hello"

WhoKilled ==
    /\ pc \in PcOfRun \cup PcOfEnd /\ child_timed_out /\ fs # "dead" => Alive = {}
    /\ fs = "read" /\ child_stopped =>
          (proc[fs_child_pid] = "zombie" <=> IF BetweenRuns THEN prev_timed_out ELSE child_timed_out)
    /\ \/ fs \in {"write_pid", "wait"}
       \/ fs = "read" /\ ~child_stopped /\ ~BetweenRuns /\ pc # "hello"
       => (ended[fs_child_pid] = "SIGKILL" => child_timed_out)

(* Why the fork server is dead.                                            *)
ServerEnds ==
    /\ fs_end \in {"", "start", "timeout", "stop", "fork", "alone"}
    /\ fs = "dead" <=> fs_end # ""
    /\ fs_end = "start" => pc \in {"hello", "down", "init_failed"}
    /\ fs_end = "stop" => stop_soon # 0
    /\ fs_end = "alone" => pc \in {"exited", "init_failed"}

WithServer ==
    DialogueAtStart /\ DialogueInRun /\ Quiet /\ Lives /\ WhoKilled /\ ServerEnds /\ pc # "fork"

IInv ==
    /\ Typed /\ NumbersInOrder /\ VerdictStands /\ ForkServerServes
    /\ mode.forkserver => WithServer
    /\ ~mode.forkserver => Alone
-----------------------------------------------------------------------------
(* Vocabulary every proof below sees through                               *)

USE ForkServerAssumption
USE DEF Pids, Alive, Ends, NoStatus, Halted, Signalled, Taken, Relay, ForkServerUp,
        PcOfStart, PcOfRun, PcOfEnd, PcOfRest, fuzzerVars, serverVars, pipeVars, procVars

(* Every part of the invariant has the types of the specification in it.   *)
LEMMA TypedIsTypeOK == Typed => TypeOK
  BY DEF Typed, FlagsTyped, PlacesTyped, PipesTyped, ProcsTyped, Message, TypeOK

(* A pipe of at most two messages, as a sequence.                        *)
LEMMA PipeFacts ==
  \A a, b :
    /\ Append(<<>>, a) = <<a>> /\ Append(<<a>>, b) = <<a, b>>
    /\ Head(<<a>>) = a /\ Head(<<a, b>>) = a
    /\ Tail(<<a>>) = <<>> /\ Tail(<<a, b>>) = <<b>>
    /\ Len(<<>>) = 0 /\ Len(<<a>>) = 1 /\ Len(<<a, b>>) = 2
    /\ <<a>> # <<>> /\ <<a, b>> # <<>>
  <1> TAKE a, b
  <1>1. Append(<<>>, a) = <<a>> /\ Append(<<a>>, b) = <<a, b>>
    <2>1. <<>> \in Seq({a, b}) /\ <<a>> \in Seq({a, b}) /\ <<a, b>> \in Seq({a, b})
      OBVIOUS
    <2>2. Append(<<>>, a) = <<a>>
      BY <2>1
    <2>3. Append(<<a>>, b) = <<a, b>>
      <3>1. Append(<<a>>, b) \in Seq({a, b}) /\ Len(Append(<<a>>, b)) = 2
        BY <2>1
      <3>2. Append(<<a>>, b)[1] = a /\ Append(<<a>>, b)[2] = b
        BY <2>1
      <3>3. \A i \in 1 .. 2 : Append(<<a>>, b)[i] = <<a, b>>[i]
        BY <3>2
      <3> QED BY <3>1, <3>3, <2>1, SeqEqual
    <2> QED BY <2>2, <2>3
  <1>2. Head(<<a>>) = a /\ Head(<<a, b>>) = a
    OBVIOUS
  <1>3. Tail(<<a>>) = <<>>
    OBVIOUS
  <1>4. Tail(<<a, b>>) = <<b>>
    OBVIOUS
  <1>5. Len(<<>>) = 0 /\ Len(<<a>>) = 1 /\ Len(<<a, b>>) = 2
    OBVIOUS
  <1>6. <<a>> # <<>> /\ <<a, b>> # <<>>
    BY <1>5
  <1> QED BY <1>1, <1>2, <1>3, <1>4, <1>5, <1>6


(* What the end of the processes of S changes: those that lived are zombies.*)
LEMMA EndFacts ==
  ASSUME ProcsTyped, NEW S, NEW how \in Ends \ {""}, End(S, how)
  PROVE  /\ ProcsTyped' /\ Alive' = Alive \ S
         /\ \A p \in Pids : p \in S \cap Alive => proc'[p] = "zombie" /\ ended'[p] = how
         /\ \A p \in Pids : p \notin S \cap Alive => proc'[p] = proc[p] /\ ended'[p] = ended[p]
         /\ \A p \in Pids : proc'[p] = "none" <=> proc[p] = "none"
  <1>1. /\ \A p \in Pids : p \in S \cap Alive => proc'[p] = "zombie" /\ ended'[p] = how
        /\ \A p \in Pids : p \notin S \cap Alive => proc'[p] = proc[p] /\ ended'[p] = ended[p]
    BY DEF End, ProcsTyped
  <1>2. ProcsTyped'
    BY DEF End, ProcsTyped
  <1>3. Alive' = Alive \ S
    BY <1>1
  <1>4. \A p \in Pids : proc'[p] = "none" <=> proc[p] = "none"
    BY <1>1
  <1> QED BY <1>1, <1>2, <1>3, <1>4

(* What waitpid changes of a zombie.                                     *)
LEMMA ReapFacts ==
  ASSUME ProcsTyped, NEW q \in Pids, proc[q] = "zombie", Reap(q)
  PROVE  /\ ProcsTyped' /\ Alive' = Alive /\ UNCHANGED ended
         /\ proc'[q] = "gone" /\ \A p \in Pids \ {q} : proc'[p] = proc[p]
         /\ \A p \in Pids : proc'[p] = "none" <=> proc[p] = "none"
  <1>1. proc'[q] = "gone" /\ \A p \in Pids \ {q} : proc'[p] = proc[p]
    BY DEF Reap, ProcsTyped
  <1>2. ProcsTyped'
    BY DEF Reap, ProcsTyped
  <1> QED BY <1>1, <1>2 DEF Reap

(* No process is forked.                                                 *)
LEMMA NumbersFrame ==
  ASSUME NumbersInOrder, UNCHANGED runs, WillSpawn' => WillSpawn,
         \A p \in Pids : proc'[p] = "none" <=> proc[p] = "none"
  PROVE  NumbersInOrder'
  BY DEF NumbersInOrder

(* fork() takes the next number, and there is one.                       *)
LEMMA SpawnFacts ==
  ASSUME Typed, NumbersInOrder, WillSpawn, Spawn(Unused), UNCHANGED runs, ~WillSpawn'
  PROVE  /\ Unused \in Pids /\ proc[Unused] = "none" /\ ended[Unused] = ""
         /\ ProcsTyped' /\ NumbersInOrder' /\ UNCHANGED ended
         /\ proc'[Unused] = "running" /\ \A p \in Pids \ {Unused} : proc'[p] = proc[p]
         /\ Alive' = Alive \cup {Unused}
  <1>1. PICK k \in 0 .. runs : (\A p \in Pids : proc[p] # "none" <=> p <= k) /\ k < runs
    BY DEF NumbersInOrder
  <1>a. MaxRuns \in Nat /\ runs \in Nat /\ runs <= MaxRuns /\ k \in Nat
    <2>1. MaxRuns \in Nat
      OBVIOUS
    <2>2. runs \in 0 .. MaxRuns
      BY DEF Typed, PlacesTyped
    <2> QED BY <2>1, <2>2, <1>1
  <1>2. k + 1 \in Pids /\ \A q \in 1 .. k : q \in Pids
    BY <1>1, <1>a
  <1>3. Unused \in Pids /\ proc[Unused] = "none" /\ \A q \in 1 .. Unused - 1 : proc[q] # "none"
    <2>1. proc[k + 1] = "none" /\ \A q \in 1 .. (k + 1) - 1 : proc[q] # "none"
      BY <1>1, <1>2, <1>a
    <2> QED BY <2>1, <1>2 DEF Unused
  <1>4. Unused = k + 1
    <2> HIDE DEF Unused
    <2>1. Unused > k
      BY <1>1, <1>3
    <2>2. ~(Unused > k + 1)
      <3> SUFFICES ASSUME Unused > k + 1 PROVE FALSE
        OBVIOUS
      <3>1. k + 1 \in 1 .. Unused - 1
        BY <1>3
      <3> QED BY <3>1, <1>1, <1>2, <1>3
    <2> QED BY <2>1, <2>2, <1>3
  <1>5. proc'[Unused] = "running" /\ \A p \in Pids \ {Unused} : proc'[p] = proc[p]
    BY <1>3 DEF Spawn, Typed, ProcsTyped
  <1>6. ended[Unused] = "" /\ ProcsTyped' /\ UNCHANGED ended
    BY <1>3 DEF Spawn, Typed, ProcsTyped
  <1>7. NumbersInOrder'
    <2>1. \A p \in Pids : proc'[p] # "none" <=> p <= k + 1
      BY <1>1, <1>2, <1>3, <1>4, <1>5
    <2>2. k + 1 \in 0 .. runs'
      BY <1>1, <1>a
    <2> QED BY <2>1, <2>2 DEF NumbersInOrder
  <1>8. Alive' = Alive \cup {Unused}
    BY <1>3, <1>5
  <1> QED BY <1>3, <1>5, <1>6, <1>7, <1>8

-----------------------------------------------------------------------------
(* The steps of afl-fuzz                                                   *)

(* The four bytes of the fork server arrive, or it is gone.                *)
LEMMA ReadHelloIInv ==
  ASSUME IInv, ReadHello
  PROVE  IInv'
  <1>1. FlagsTyped'
    BY DEF ReadHello, IInv, Typed, FlagsTyped
  <1>2. PlacesTyped'
    BY DEF ReadHello, IInv, Typed, PlacesTyped
  <1>3. PipesTyped'
    <2>1. st' = <<>> /\ UNCHANGED ctl
      BY DEF ReadHello
    <2> QED BY <2>1 DEF IInv, Typed, PipesTyped
  <1>4. ProcsTyped'
    BY DEF ReadHello, IInv, Typed, ProcsTyped
  <1>5. NumbersInOrder'
    BY NumbersFrame DEF ReadHello, IInv, WillSpawn
  <1>6. VerdictStands' /\ ForkServerServes'
    BY DEF ReadHello, IInv, VerdictStands, VerdictIsCause, ForkServerServes
  <1>7. mode'.forkserver => WithServer'
    BY PipeFacts DEF ReadHello, IInv, Typed, FlagsTyped, WithServer, DialogueAtStart,
           DialogueInRun, Quiet, Lives,
       WhoKilled, BetweenRuns, ServerEnds
  <1>8. ~mode'.forkserver => Alone'
    BY DEF ReadHello, IInv, Alone
  <1> QED BY <1>1, <1>2, <1>3, <1>4, <1>5, <1>6, <1>7, <1>8 DEF IInv, Typed

(* A request finds the server idle and both pipes empty, or the server dead for *)
(* a reason that lets afl-fuzz abort.                                      *)
LEMMA RequestIInv ==
  ASSUME IInv, Request
  PROVE  IInv'
  <1>a. CASE ~ForkServerUp
    <2>1. FlagsTyped'
      BY <1>a DEF Request, PipeBroken, IInv, Typed, FlagsTyped
    <2>2. PlacesTyped'
      BY <1>a DEF Request, PipeBroken, IInv, Typed, PlacesTyped
    <2>3. PipesTyped'
      BY <1>a DEF Request, PipeBroken, IInv, Typed, PipesTyped
    <2>4. ProcsTyped'
      BY <1>a DEF Request, PipeBroken, IInv, Typed, ProcsTyped
    <2>5. NumbersInOrder'
      BY <1>a, NumbersFrame DEF Request, PipeBroken, IInv, WillSpawn
    <2>6. VerdictStands' /\ ForkServerServes'
      BY <1>a DEF Request, PipeBroken, IInv, VerdictStands, VerdictIsCause, ForkServerServes,
             WithServer, ServerEnds, Quiet, Alone
    <2>7. mode'.forkserver => WithServer'
      BY <1>a DEF Request, PipeBroken, IInv, Typed, FlagsTyped, WithServer, DialogueAtStart,
             DialogueInRun, Quiet, Lives,
       WhoKilled, BetweenRuns, ServerEnds
    <2>8. ~mode'.forkserver => Alone'
      BY <1>a DEF Request, IInv, PipeBroken, Alone
    <2> QED BY <2>1, <2>2, <2>3, <2>4, <2>5, <2>6, <2>7, <2>8 DEF IInv, Typed
  <1>b. CASE ForkServerUp
    <2>0. /\ mode.forkserver /\ fs = "read" /\ ctl = <<>> /\ st = <<>> /\ pc = "request"
          /\ ctl' = <<prev_timed_out>> /\ pc' = "read_pid"
          /\ ~child_timed_out
          /\ UNCHANGED <<mode, dry_run, runs, child_pid, child_timed_out, prev_timed_out,
                         stop_soon, timer, status, fault, serverVars, st, procVars>>
      BY <1>b, PipeFacts DEF Request, IInv, WithServer, DialogueInRun, Alone, Quiet
    <2>1. FlagsTyped'
      BY <2>0 DEF IInv, Typed, FlagsTyped
    <2>2. PlacesTyped'
      BY <2>0 DEF IInv, Typed, PlacesTyped
    <2>3. PipesTyped'
      BY <2>0, PipeFacts DEF IInv, Typed, FlagsTyped, PipesTyped
    <2>4. ProcsTyped'
      BY <2>0 DEF IInv, Typed, ProcsTyped
    <2>5. NumbersInOrder'
      BY <2>0, NumbersFrame DEF IInv, WillSpawn
    <2>6. VerdictStands' /\ ForkServerServes'
      BY <2>0 DEF IInv, VerdictStands, VerdictIsCause, ForkServerServes, WithServer, ServerEnds
    <2>7. WithServer'
      BY <2>0, PipeFacts DEF IInv, Typed, FlagsTyped, WithServer, DialogueAtStart, DialogueInRun,
             Quiet, Lives,
         WhoKilled, BetweenRuns, ServerEnds
    <2> QED BY <2>0, <2>1, <2>2, <2>3, <2>4, <2>5, <2>6, <2>7 DEF IInv, Typed
  <1> QED BY <1>a, <1>b

(* The bound on the runs, as arithmetic needs it.                          *)
LEMMA RunsTyped == Typed => runs \in Nat /\ MaxRuns \in Nat /\ runs <= MaxRuns
  <1>1. MaxRuns \in Nat
    OBVIOUS
  <1>2. Typed => runs \in 0 .. MaxRuns
    BY DEF Typed, PlacesTyped
  <1> QED BY <1>1, <1>2

(* A run begins when nothing of the last one is left in the pipes.         *)
LEMMA RunTargetIInv ==
  ASSUME IInv, RunTarget
  PROVE  IInv'
  <1>1. FlagsTyped'
    BY DEF RunTarget, IInv, Typed, FlagsTyped
  <1>2. PlacesTyped'
    <2>1. runs' \in 0 .. MaxRuns
      <3>1. runs' = runs + 1 /\ runs < MaxRuns
        BY DEF RunTarget
      <3> QED BY <3>1, RunsTyped DEF IInv
    <2> QED BY <2>1 DEF RunTarget, IInv, Typed, PlacesTyped
  <1>3. PipesTyped'
    BY DEF RunTarget, IInv, Typed, PipesTyped
  <1>4. ProcsTyped'
    BY DEF RunTarget, IInv, Typed, ProcsTyped
  <1>5. NumbersInOrder'
    <2>1. PICK k \in 0 .. runs : \A p \in Pids : proc[p] # "none" <=> p <= k
      BY DEF IInv, NumbersInOrder
    <2>2. runs \in Nat /\ runs' = runs + 1
      BY RunsTyped DEF RunTarget, IInv
    <2>3. k \in 0 .. runs' /\ k < runs'
      BY <2>1, <2>2
    <2>4. proc' = proc
      BY DEF RunTarget
    <2> QED BY <2>1, <2>3, <2>4 DEF NumbersInOrder
  <1>6. VerdictStands' /\ ForkServerServes'
    BY DEF RunTarget, IInv, VerdictStands, VerdictIsCause, ForkServerServes
  <1>7. mode'.forkserver => WithServer'
    BY DEF RunTarget, IInv, Typed, FlagsTyped, WithServer, DialogueAtStart, DialogueInRun, Quiet, Lives,
       WhoKilled, BetweenRuns, ServerEnds
  <1>8. ~mode'.forkserver => Alone'
    BY DEF RunTarget, IInv, Alone
  <1> QED BY <1>1, <1>2, <1>3, <1>4, <1>5, <1>6, <1>7, <1>8 DEF IInv, Typed

(* The process number afl-fuzz reads is the one the fork server forked or woke. *)
LEMMA ReadPidIInv ==
  ASSUME IInv, ReadPid
  PROVE  IInv'
  <1>0. mode.forkserver
    BY DEF ReadPid, IInv, Alone
  <1>a. CASE st = <<>>
    <2>0. pc = "read_pid" /\ ~ForkServerUp /\ PipeBroken
      BY <1>a DEF ReadPid
    <2>1. FlagsTyped'
      BY <2>0 DEF PipeBroken, IInv, Typed, FlagsTyped
    <2>2. PlacesTyped'
      BY <2>0 DEF PipeBroken, IInv, Typed, PlacesTyped
    <2>3. PipesTyped'
      BY <2>0 DEF PipeBroken, IInv, Typed, PipesTyped
    <2>4. ProcsTyped'
      BY <2>0 DEF PipeBroken, IInv, Typed, ProcsTyped
    <2>5. NumbersInOrder'
      BY <2>0, NumbersFrame DEF PipeBroken, IInv, WillSpawn
    <2>6. VerdictStands' /\ ForkServerServes'
      BY <1>0, <2>0 DEF PipeBroken, IInv, VerdictStands, VerdictIsCause, ForkServerServes,
             WithServer, ServerEnds, DialogueInRun
    <2>7. WithServer'
      BY <1>0, <2>0 DEF PipeBroken, IInv, Typed, FlagsTyped, WithServer, DialogueAtStart,
             DialogueInRun, Quiet, Lives,
       WhoKilled, BetweenRuns, ServerEnds
    <2>8. mode' = mode
      BY <2>0 DEF PipeBroken
    <2> QED BY <1>0, <2>1, <2>2, <2>3, <2>4, <2>5, <2>6, <2>7, <2>8 DEF IInv, Typed
  <1>b. CASE st # <<>>
    <2>0. /\ pc = "read_pid" /\ pc' = "arm"
          /\ child_pid' = Head(st).pid /\ st' = Tail(st)
          /\ UNCHANGED <<mode, dry_run, runs, child_timed_out, prev_timed_out, stop_soon, timer,
                         status, fault, serverVars, ctl, procVars>>
      BY <1>b DEF ReadPid
    <2>a. /\ ctl = <<>>
          /\ \/ fs = "wait" /\ st = <<Taken>>
             \/ fs = "read" /\ st = <<Taken, Relay>>
             \/ fs = "dead" /\ stop_soon # 0 /\ Head(st) = Taken
      BY <1>0, <1>b, <2>0, PipeFacts DEF IInv, WithServer, DialogueInRun
    <2>b. /\ child_pid' = fs_child_pid
          /\ \/ fs = "wait" /\ st' = <<>>
             \/ fs = "read" /\ st' = <<Relay>>
             \/ fs = "dead" /\ stop_soon # 0
      <3> HIDE DEF Taken, Relay
      <3>1. Taken.pid = fs_child_pid
        BY DEF Taken
      <3>2. CASE st = <<Taken>>
        BY <2>0, <2>a, <3>1, <3>2, PipeFacts
      <3>3. CASE st = <<Taken, Relay>>
        BY <2>0, <2>a, <3>1, <3>3, PipeFacts
      <3>4. CASE Head(st) = Taken /\ fs = "dead" /\ stop_soon # 0
        BY <2>0, <3>1, <3>4
      <3> QED BY <2>a, <3>2, <3>3, <3>4
    <2>c. fs_child_pid \in Pids
      BY <1>0, <1>b, <2>0 DEF IInv, WithServer, Lives
    <2>1. FlagsTyped'
      BY <2>0 DEF IInv, Typed, FlagsTyped
    <2>2. PlacesTyped'
      BY <2>0, <2>b, <2>c DEF IInv, Typed, PlacesTyped
    <2>3. PipesTyped'
      <3>1. st' \in Seq(Message) /\ Len(st') <= 2
        BY <1>b, <2>0 DEF IInv, Typed, PipesTyped
      <3> QED BY <2>0, <3>1 DEF IInv, Typed, PipesTyped
    <2>4. ProcsTyped'
      BY <2>0 DEF IInv, Typed, ProcsTyped
    <2>5. NumbersInOrder'
      BY <2>0, NumbersFrame DEF IInv, WillSpawn
    <2>6. VerdictStands' /\ ForkServerServes'
      BY <2>0 DEF IInv, VerdictStands, VerdictIsCause, ForkServerServes
    <2>7. WithServer'
      <3>1. DialogueAtStart' /\ Quiet' /\ ServerEnds' /\ pc' # "fork"
        BY <1>0, <2>0, PipeFacts DEF IInv, WithServer, DialogueAtStart, Quiet, ServerEnds, DialogueInRun
      <3>2. DialogueInRun'
        <4>1. Relay' = Relay
          BY <2>0
        <4> HIDE DEF Taken, Relay
        <4> QED BY <1>0, <2>0, <2>a, <2>b, <4>1 DEF IInv, WithServer, DialogueInRun
      <3>3. Lives' /\ WhoKilled'
        BY <1>0, <1>b, <2>0, <2>c, PipeFacts DEF IInv, Typed, FlagsTyped, WithServer,
               DialogueInRun, Lives, WhoKilled, BetweenRuns
      <3> QED BY <3>1, <3>2, <3>3 DEF WithServer
    <2> QED BY <1>0, <2>0, <2>1, <2>2, <2>3, <2>4, <2>5, <2>6, <2>7 DEF IInv, Typed
  <1> QED BY <1>a, <1>b

(* Without a fork server the runner is a child of afl-fuzz.                *)
LEMMA ForkIInv ==
  ASSUME IInv, Fork
  PROVE  IInv'
  <1>0. ~mode.forkserver
    BY DEF Fork, IInv, WithServer
  <1>a. /\ Unused \in Pids /\ proc[Unused] = "none" /\ ended[Unused] = ""
        /\ ProcsTyped' /\ NumbersInOrder' /\ UNCHANGED ended
        /\ proc'[Unused] = "running" /\ \A p \in Pids \ {Unused} : proc'[p] = proc[p]
        /\ Alive' = Alive \cup {Unused}
    BY SpawnFacts DEF Fork, IInv, WillSpawn
  <1>1. FlagsTyped'
    BY DEF Fork, IInv, Typed, FlagsTyped
  <1>2. PlacesTyped'
    BY <1>a DEF Fork, IInv, Typed, PlacesTyped
  <1>3. PipesTyped'
    BY DEF Fork, IInv, Typed, PipesTyped
  <1>4. VerdictStands' /\ ForkServerServes'
    BY DEF Fork, IInv, VerdictStands, VerdictIsCause, ForkServerServes
  <1>5. Alone'
    BY <1>0, <1>a DEF Fork, IInv, Alone
  <1> QED BY <1>0, <1>a, <1>1, <1>2, <1>3, <1>4, <1>5 DEF IInv, Typed, Fork

(* All messages sent: only the runner that lives is told to terminate.     *)
LEMMA SessionIInv ==
  ASSUME IInv, Session
  PROVE  IInv'
  <1>0. /\ pc = "session" /\ pc' \in {"status", "await_end"}
        /\ sigterm' \subseteq sigterm \cup Pids
        /\ UNCHANGED <<mode, dry_run, runs, child_pid, child_timed_out, prev_timed_out, stop_soon,
                       timer, status, fault, serverVars, pipeVars, proc, ended>>
    BY DEF Session
  <1>1. FlagsTyped'
    BY <1>0 DEF IInv, Typed, FlagsTyped
  <1>2. PlacesTyped'
    <2>1. pc' \in PcOfRun
      BY <1>0
    <2>2. UNCHANGED <<mode, runs, stop_soon, fs, child_pid, fs_child_pid, fault, status>>
      BY <1>0
    <2> QED BY <2>1, <2>2, ZenonT(30) DEF IInv, Typed, PlacesTyped
  <1>3. PipesTyped'
    BY <1>0 DEF IInv, Typed, PipesTyped
  <1>4. ProcsTyped'
    BY <1>0 DEF IInv, Typed, ProcsTyped
  <1>5. NumbersInOrder'
    BY <1>0, NumbersFrame DEF IInv, WillSpawn
  <1>6. VerdictStands' /\ ForkServerServes'
    BY <1>0 DEF IInv, VerdictStands, VerdictIsCause, ForkServerServes
  <1>7. mode'.forkserver => WithServer'
    BY <1>0 DEF IInv, Typed, FlagsTyped, WithServer, DialogueAtStart, DialogueInRun, Quiet, Lives,
       WhoKilled, BetweenRuns, ServerEnds
  <1>8. ~mode'.forkserver => Alone'
    BY <1>0 DEF IInv, Alone
  <1> QED BY <1>1, <1>2, <1>3, <1>4, <1>5, <1>6, <1>7, <1>8 DEF IInv, Typed

(* The status read is the one of this run.                                 *)
LEMMA StatusArrivedIInv ==
  ASSUME IInv, mode.forkserver, StatusArrived
  PROVE  IInv'
  <1>0. /\ pc = "status" /\ pc' = "settle" /\ st # <<>>
        /\ status' = Head(st) /\ st' = Tail(st) /\ status'.pid \in Pids \cup {0}
        /\ UNCHANGED <<mode, dry_run, runs, child_pid, child_timed_out, prev_timed_out,
                       stop_soon, timer, fault, serverVars, ctl, procVars>>
    <2>1. st # <<>> /\ Head(st) \in Message
      BY DEF StatusArrived, IInv, Typed, PipesTyped
    <2> QED BY <2>1 DEF StatusArrived, Message
  <1>a. \/ fs = "read" /\ status' = Relay /\ st' = <<>>
        \/ fs = "dead" /\ stop_soon # 0
    <2>1. \/ fs = "read" /\ st = <<Relay>>
          \/ fs = "dead" /\ stop_soon # 0
      BY <1>0 DEF IInv, WithServer, DialogueInRun
    <2> HIDE DEF Relay
    <2> QED BY <1>0, <2>1, PipeFacts
  <1>1. FlagsTyped'
    BY <1>0 DEF IInv, Typed, FlagsTyped
  <1>2. PlacesTyped'
    BY <1>0 DEF IInv, Typed, PlacesTyped
  <1>3. PipesTyped'
    <2>1. st' \in Seq(Message) /\ Len(st') <= 2
      BY <1>0 DEF IInv, Typed, PipesTyped
    <2> QED BY <1>0, <2>1 DEF IInv, Typed, PipesTyped
  <1>4. ProcsTyped'
    BY <1>0 DEF IInv, Typed, ProcsTyped
  <1>5. NumbersInOrder'
    BY <1>0, NumbersFrame DEF IInv, WillSpawn
  <1>6. VerdictStands' /\ ForkServerServes'
    BY <1>0 DEF IInv, VerdictStands, VerdictIsCause, ForkServerServes
  <1>7. WithServer'
    <2>1. DialogueAtStart' /\ DialogueInRun' /\ Quiet' /\ ServerEnds' /\ pc' # "fork"
      BY <1>0, <1>a DEF IInv, WithServer, DialogueAtStart, DialogueInRun, Quiet, ServerEnds
    <2>2. Lives' /\ WhoKilled'
      BY <1>0, <1>a DEF IInv, Typed, FlagsTyped, WithServer, Lives, WhoKilled, BetweenRuns
    <2> QED BY <2>1, <2>2 DEF WithServer
  <1> QED BY <1>0, <1>1, <1>2, <1>3, <1>4, <1>5, <1>6, <1>7 DEF IInv, Typed

(* The status of this run, or a pipe that only a stop can have broken.     *)
LEMMA ReadStatusIInv ==
  ASSUME IInv, ReadStatus
  PROVE  IInv'
  <1>1. CASE StatusArrived
    BY <1>1, StatusArrivedIInv DEF ReadStatus
  <1>2. CASE pc = "status" /\ st = <<>> /\ ~ForkServerUp /\ PipeBroken
    <2>0. mode.forkserver /\ fs = "dead" /\ stop_soon # 0
      BY <1>2 DEF ReadStatus, IInv, WithServer, DialogueInRun
    <2>1. FlagsTyped'
      BY <1>2 DEF PipeBroken, IInv, Typed, FlagsTyped
    <2>2. PlacesTyped'
      BY <1>2 DEF PipeBroken, IInv, Typed, PlacesTyped
    <2>3. PipesTyped'
      BY <1>2 DEF PipeBroken, IInv, Typed, PipesTyped
    <2>4. ProcsTyped'
      BY <1>2 DEF PipeBroken, IInv, Typed, ProcsTyped
    <2>5. NumbersInOrder'
      BY <1>2, NumbersFrame DEF PipeBroken, IInv, WillSpawn
    <2>6. VerdictStands' /\ ForkServerServes'
      BY <1>2, <2>0 DEF PipeBroken, IInv, VerdictStands, VerdictIsCause, ForkServerServes
    <2>7. WithServer'
      BY <1>2, <2>0 DEF PipeBroken, IInv, Typed, FlagsTyped, WithServer, DialogueAtStart,
             DialogueInRun, Quiet, Lives,
         WhoKilled, BetweenRuns, ServerEnds
    <2> QED BY <1>2, <2>0, <2>1, <2>2, <2>3, <2>4, <2>5, <2>6, <2>7 DEF PipeBroken, IInv, Typed
  <1> QED BY <1>1, <1>2 DEF ReadStatus

(* The place of the runner is kept if and only if it will be used again.   *)
LEMMA SettleIInv ==
  ASSUME IInv, Settle
  PROVE  IInv'
  <1>1. FlagsTyped'
    BY DEF Settle, IInv, Typed, FlagsTyped
  <1>2. PlacesTyped'
    BY DEF Settle, IInv, Typed, PlacesTyped
  <1>3. PipesTyped'
    BY DEF Settle, IInv, Typed, PipesTyped
  <1>4. ProcsTyped'
    BY DEF Settle, IInv, Typed, ProcsTyped
  <1>5. NumbersInOrder'
    BY NumbersFrame DEF Settle, IInv, WillSpawn
  <1>6. VerdictStands' /\ ForkServerServes'
    BY DEF Settle, IInv, VerdictStands, VerdictIsCause, ForkServerServes
  <1>7. mode'.forkserver => WithServer'
    <2> SUFFICES ASSUME mode.forkserver PROVE WithServer'
      BY DEF Settle
    <2>1. /\ child_pid = fs_child_pid /\ fs_child_pid \in Pids
          /\ \/ fs = "read" /\ status = Relay
             \/ fs = "dead" /\ stop_soon # 0
      BY DEF Settle, IInv, WithServer, DialogueInRun, Lives
    <2>2. fs = "read" => (status.how = "stopped" <=> child_stopped)
      <3>1. ended[fs_child_pid] # "stopped" /\ child_stopped \in BOOLEAN
        BY <2>1 DEF IInv, Typed, ProcsTyped, FlagsTyped
      <3>2. CASE fs = "read" /\ child_stopped
        BY <2>1, <3>2
      <3>3. CASE fs = "read" /\ ~child_stopped
        BY <2>1, <3>1, <3>3
      <3> QED BY <3>2, <3>3
    <2>3. DialogueInRun'
      BY <2>1, <2>2 DEF Settle, IInv, WithServer, DialogueInRun
    <2>4. DialogueAtStart' /\ Quiet' /\ Lives' /\ WhoKilled' /\ ServerEnds' /\ pc' # "fork"
      BY <2>1 DEF Settle, IInv, Typed, FlagsTyped, WithServer, DialogueAtStart, Quiet, Lives,
         WhoKilled, BetweenRuns, ServerEnds
    <2> QED BY <2>3, <2>4 DEF WithServer
  <1>8. ~mode'.forkserver => Alone'
    BY DEF Settle, IInv, Alone
  <1> QED BY <1>1, <1>2, <1>3, <1>4, <1>5, <1>6, <1>7, <1>8 DEF IInv, Typed

(* What the verdicts crash and timeout say of a status.                    *)
LEMMA VerdictFacts ==
  ASSUME NEW how, NEW timed_out \in BOOLEAN
  PROVE  /\ Verdict(how, timed_out) = "CRASH" => how = "crash" \/ (how = "SIGKILL" /\ ~timed_out)
         /\ how = "SIGKILL" /\ timed_out => Verdict(how, timed_out) = "TMOUT"
  BY DEF Verdict

(* A run is a crash only if its runner crashed by itself.                  *)
LEMMA ReportIInv ==
  ASSUME IInv, Report
  PROVE  IInv'
  <1>1. FlagsTyped'
    BY DEF Report, IInv, Typed, FlagsTyped
  <1>2. PlacesTyped'
    BY DEF Report, Verdict, IInv, Typed, PlacesTyped
  <1>3. PipesTyped'
    BY DEF Report, IInv, Typed, PipesTyped
  <1>4. ProcsTyped'
    BY DEF Report, IInv, Typed, ProcsTyped
  <1>5. NumbersInOrder'
    BY NumbersFrame DEF Report, IInv, WillSpawn
  <1>6. VerdictStands'
    <2> SUFFICES ASSUME stop_soon = 0
                 PROVE  /\ fault' = "CRASH" => ended[status.pid] = "crash"
                        /\ status.how = "SIGKILL" => fault' = "TMOUT"
                        /\ status.pid \in Pids
      BY DEF Report, VerdictStands, VerdictIsCause
    <2>1. fault' = Verdict(status.how, child_timed_out)
      BY DEF Report
    <2>2. /\ status.how = "SIGKILL" => child_timed_out
          /\ status.how # "stopped" => status.how = ended[status.pid]
          /\ status.pid \in Pids
      <3>1. CASE mode.forkserver
        <4>1. pc = "report" /\ status = Relay /\ fs = "read" /\ fs_child_pid \in Pids
          BY <3>1 DEF Report, IInv, WithServer, DialogueInRun, Lives
        <4>2. CASE child_stopped
          BY <4>1, <4>2
        <4>3. CASE ~child_stopped
          BY <3>1, <4>1, <4>3 DEF IInv, WithServer, WhoKilled, BetweenRuns
        <4> QED BY <4>2, <4>3 DEF IInv, Typed, FlagsTyped
      <3>2. CASE ~mode.forkserver
        BY <3>2 DEF Report, IInv, Alone
      <3> QED BY <3>1, <3>2
    <2>3. fault' = "CRASH" => status.how = "crash" \/ (status.how = "SIGKILL" /\ ~child_timed_out)
      BY <2>1, VerdictFacts DEF IInv, Typed, FlagsTyped
    <2>4. status.how = "SIGKILL" /\ child_timed_out => fault' = "TMOUT"
      BY <2>1, VerdictFacts DEF IInv, Typed, FlagsTyped
    <2> QED BY <2>2, <2>3, <2>4
  <1>7. ForkServerServes'
    BY DEF Report, IInv, ForkServerServes
  <1>8. mode'.forkserver => WithServer'
    BY DEF Report, IInv, Typed, FlagsTyped, WithServer, DialogueAtStart, DialogueInRun, Quiet, Lives,
       WhoKilled, BetweenRuns, ServerEnds
  <1>9. ~mode'.forkserver => Alone'
    BY DEF Report, IInv, Alone
  <1> QED BY <1>1, <1>2, <1>3, <1>4, <1>5, <1>6, <1>7, <1>8, <1>9 DEF IInv, Typed

(* A programmatic stop kills the runner and the server between two runs.   *)
LEMMA LeaveLoopIInv ==
  ASSUME IInv, LeaveLoop
  PROVE  IInv'
  <1>0. /\ pc = "leave" /\ pc' = "wait_fork_server"
        /\ UNCHANGED <<mode, dry_run, runs, child_pid, child_timed_out, prev_timed_out,
                       stop_soon, timer, status, fault, pipeVars, fs_child_pid, child_stopped>>
        /\ \/ stop_soon = 2 /\ End({child_pid}, "SIGKILL") /\ KillForkServer("stop")
           \/ UNCHANGED <<procVars, serverVars>>
    BY DEF LeaveLoop, KillForkServer
  <1>a. ~mode.forkserver => fs = "none" /\ Alive = {}
    BY <1>0 DEF IInv, Alone
  <1>b. /\ ProcsTyped' /\ Alive' \subseteq Alive
        /\ \A p \in Pids : proc'[p] = "none" <=> proc[p] = "none"
    <2>1. CASE End({child_pid}, "SIGKILL")
      BY <2>1, EndFacts DEF IInv, Typed
    <2>2. CASE UNCHANGED procVars
      BY <2>2 DEF IInv, Typed, ProcsTyped
    <2> QED BY <1>0, <2>1, <2>2
  <1>c. /\ fs' \in {fs, "dead"}
        /\ ~mode.forkserver => fs' = "none" /\ fs_end' = fs_end
        /\ fs' = fs => UNCHANGED <<serverVars, procVars>> \/ (stop_soon = 2 /\ fs \in {"none", "dead"})
        /\ fs' = fs => fs_end' = fs_end
        /\ fs' # fs => fs_end' = "stop" /\ stop_soon # 0
    BY <1>0, <1>a DEF KillForkServer
  <1>1. FlagsTyped'
    BY <1>0 DEF IInv, Typed, FlagsTyped
  <1>2. PlacesTyped'
    <2>1. UNCHANGED <<mode, runs, stop_soon, child_pid, fs_child_pid, fault, status>>
      BY <1>0
    <2> QED BY <1>0, <1>c, <2>1 DEF IInv, Typed, PlacesTyped
  <1>3. PipesTyped'
    BY <1>0 DEF IInv, Typed, PipesTyped
  <1>4. NumbersInOrder'
    BY <1>0, <1>b, NumbersFrame DEF IInv, WillSpawn
  <1>5. VerdictStands' /\ ForkServerServes'
    BY <1>0, <1>c DEF IInv, VerdictStands, VerdictIsCause, ForkServerServes
  <1>6. mode'.forkserver => WithServer'
    <2> SUFFICES ASSUME mode.forkserver PROVE WithServer'
      BY <1>0
    <2>1. DialogueAtStart' /\ DialogueInRun' /\ Quiet' /\ ServerEnds' /\ pc' # "fork"
      BY <1>0, <1>c DEF IInv, WithServer, DialogueAtStart, DialogueInRun, Quiet, ServerEnds
    <2>2. fs \in {"read", "dead"} /\ (fs' = "read" => UNCHANGED <<serverVars, procVars>>)
      BY <1>0, <1>c DEF IInv, WithServer, Quiet
    <2>3. Lives' /\ WhoKilled'
      BY <1>0, <1>b, <1>c, <2>2 DEF IInv, Typed, FlagsTyped, WithServer, Lives, WhoKilled, BetweenRuns
    <2> QED BY <2>1, <2>3 DEF WithServer
  <1>7. ~mode'.forkserver => Alone'
    BY <1>0, <1>a, <1>b, <1>c DEF IInv, Alone
  <1> QED BY <1>b, <1>1, <1>2, <1>3, <1>4, <1>5, <1>6, <1>7 DEF IInv, Typed
-----------------------------------------------------------------------------
(* The fork server and the runner                                          *)

(* A runner is written off if and only if the timer killed it after its stop. *)
LEMMA FsReadIInv ==
  ASSUME IInv, FsRead
  PROVE  IInv'
  <1>0. /\ mode.forkserver /\ fs = "read" /\ pc = "read_pid" /\ ctl = <<prev_timed_out>> /\ st = <<>>
        /\ fs' = IF child_stopped /\ prev_timed_out THEN "write_off" ELSE "spawn"
        /\ ctl' = <<>>
        /\ UNCHANGED <<mode, fuzzerVars, fs_child_pid, child_stopped, fs_end, st, procVars>>
    <2>1. mode.forkserver /\ fs = "read" /\ ctl # <<>>
      BY DEF FsRead, IInv, Alone
    <2>2. pc = "read_pid" /\ ctl = <<prev_timed_out>> /\ st = <<>>
      BY <2>1, PipeFacts DEF IInv, Typed, PlacesTyped, WithServer, DialogueAtStart, DialogueInRun, Quiet
    <2>3. Head(ctl) = prev_timed_out /\ Tail(ctl) = <<>>
      BY <2>2, PipeFacts
    <2> QED BY <2>1, <2>2, <2>3 DEF FsRead, WritesOff
  <1>1. FlagsTyped'
    BY <1>0 DEF IInv, Typed, FlagsTyped
  <1>2. PlacesTyped'
    <2>1. fs' \in {"write_off", "spawn"}
      BY <1>0
    <2> QED BY <1>0, <2>1 DEF IInv, Typed, PlacesTyped
  <1>3. PipesTyped'
    BY <1>0 DEF IInv, Typed, PipesTyped
  <1>4. ProcsTyped'
    BY <1>0 DEF IInv, Typed, ProcsTyped
  <1>5. NumbersInOrder'
    BY <1>0, PipeFacts, NumbersFrame DEF IInv, WillSpawn
  <1>6. VerdictStands' /\ ForkServerServes'
    BY <1>0 DEF IInv, VerdictStands, VerdictIsCause, ForkServerServes
  <1>7. WithServer'
    <2>1. DialogueAtStart' /\ DialogueInRun' /\ Quiet' /\ ServerEnds' /\ pc' # "fork"
      BY <1>0 DEF IInv, WithServer, DialogueAtStart, DialogueInRun, Quiet, ServerEnds
    <2>2. child_stopped => proc[fs_child_pid] = IF prev_timed_out THEN "zombie" ELSE "stopped"
      BY <1>0, PipeFacts DEF IInv, WithServer, Lives, WhoKilled, BetweenRuns
    <2>3. Lives' /\ WhoKilled'
      BY <1>0, <2>2 DEF IInv, Typed, FlagsTyped, WithServer, Lives, WhoKilled, BetweenRuns
    <2> QED BY <2>1, <2>3 DEF WithServer
  <1> QED BY <1>0, <1>1, <1>2, <1>3, <1>4, <1>5, <1>6, <1>7 DEF IInv, Typed

(* The runner that is written off has not been waited for.                 *)
LEMMA FsWriteOffIInv ==
  ASSUME IInv, FsWriteOff
  PROVE  IInv'
  <1>0. /\ mode.forkserver /\ fs = "write_off" /\ pc = "read_pid" /\ ctl = <<>> /\ st = <<>>
        /\ fs_child_pid \in Pids /\ proc[fs_child_pid] = "zombie" /\ Reap(fs_child_pid)
        /\ child_stopped' = FALSE /\ fs' = "spawn" /\ UNCHANGED fs_end
        /\ UNCHANGED <<mode, fuzzerVars, fs_child_pid, pipeVars>>
    <2>1. mode.forkserver /\ fs = "write_off"
      BY DEF FsWriteOff, IInv, Alone
    <2>2. pc = "read_pid" /\ ctl = <<>> /\ st = <<>> /\ fs_child_pid \in Pids /\ proc[fs_child_pid] = "zombie"
      BY <2>1 DEF IInv, Typed, PlacesTyped, WithServer, DialogueAtStart, DialogueInRun, Quiet, Lives
    <2> QED BY <2>1, <2>2 DEF FsWriteOff
  <1>a. /\ ProcsTyped' /\ Alive' = Alive /\ UNCHANGED ended
        /\ \A p \in Pids : proc'[p] = "none" <=> proc[p] = "none"
    BY <1>0, ReapFacts DEF IInv, Typed
  <1>b. Alive = {}
    BY <1>0 DEF IInv, WithServer, Lives
  <1>1. FlagsTyped'
    BY <1>0 DEF IInv, Typed, FlagsTyped
  <1>2. PlacesTyped'
    BY <1>0 DEF IInv, Typed, PlacesTyped
  <1>3. PipesTyped'
    BY <1>0 DEF IInv, Typed, PipesTyped
  <1>4. NumbersInOrder'
    BY <1>0, <1>a, NumbersFrame DEF IInv, WillSpawn
  <1>5. VerdictStands' /\ ForkServerServes'
    BY <1>0 DEF IInv, VerdictStands, VerdictIsCause, ForkServerServes
  <1>6. WithServer'
    <2>1. DialogueAtStart' /\ DialogueInRun' /\ Quiet' /\ ServerEnds' /\ pc' # "fork"
      BY <1>0 DEF IInv, WithServer, DialogueAtStart, DialogueInRun, Quiet, ServerEnds
    <2>2. Lives' /\ WhoKilled'
      BY <1>0, <1>a, <1>b, PipeFacts DEF IInv, Typed, FlagsTyped, WithServer, Lives, WhoKilled, BetweenRuns
    <2> QED BY <2>1, <2>2 DEF WithServer
  <1> QED BY <1>0, <1>a, <1>1, <1>2, <1>3, <1>4, <1>5, <1>6 DEF IInv, Typed

(* Pipes of at most two messages have the type of their messages.          *)
LEMMA PipeTyped ==
  ASSUME NEW S, NEW a \in S, NEW b \in S
  PROVE  <<>> \in Seq(S) /\ <<a>> \in Seq(S) /\ <<a, b>> \in Seq(S)
  OBVIOUS

(* A runner is forked when none lives, or the one that stopped is woken.   *)
LEMMA FsSpawnIInv ==
  ASSUME IInv, FsSpawn
  PROVE  IInv'
  <1>0. /\ mode.forkserver /\ fs = "spawn" /\ UNCHANGED <<mode, fuzzerVars, pipeVars>>
        /\ \/ pc = "read_pid" /\ ctl = <<>> /\ st = <<>>
           \/ FALSE
        /\ child_stopped => fs_child_pid \in Pids /\ proc[fs_child_pid] = "stopped"
        /\ ~child_stopped => Alive = {}
        /\ ~child_timed_out
    <2>1. mode.forkserver /\ fs = "spawn"
      BY DEF FsSpawn, IInv, Alone
    <2>2. pc = "read_pid" /\ ctl = <<>> /\ st = <<>> /\ ~child_timed_out
      BY <2>1 DEF IInv, Typed, PlacesTyped, WithServer, DialogueAtStart, DialogueInRun, Quiet
    <2>3. /\ child_stopped => fs_child_pid \in Pids /\ proc[fs_child_pid] = "stopped"
          /\ ~child_stopped => Alive = {}
      BY <2>1 DEF IInv, WithServer, Lives
    <2> QED BY <2>1, <2>2, <2>3 DEF FsSpawn
  <1>1. VerdictStands' /\ ForkServerServes' /\ PipesTyped'
    BY <1>0 DEF FsSpawn, IInv, Typed, PipesTyped, VerdictStands, VerdictIsCause, ForkServerServes
  <1>2. CASE ~child_stopped /\ Spawn(Unused) /\ fs_child_pid' = Unused /\ fs' = "write_pid"
             /\ UNCHANGED <<child_stopped, fs_end>>
    <2>1. /\ Unused \in Pids /\ proc[Unused] = "none" /\ ended[Unused] = ""
          /\ ProcsTyped' /\ NumbersInOrder' /\ UNCHANGED ended
          /\ proc'[Unused] = "running" /\ \A p \in Pids \ {Unused} : proc'[p] = proc[p]
          /\ Alive' = Alive \cup {Unused}
      BY <1>0, <1>2, SpawnFacts DEF IInv, WillSpawn
    <2>2. FlagsTyped'
      BY <1>0, <1>2 DEF IInv, Typed, FlagsTyped
    <2>3. PlacesTyped'
      BY <1>0, <1>2, <2>1 DEF IInv, Typed, PlacesTyped
    <2>4. WithServer'
      <3>1. DialogueAtStart' /\ DialogueInRun' /\ Quiet' /\ ServerEnds' /\ pc' # "fork"
        BY <1>0, <1>2 DEF IInv, WithServer, DialogueAtStart, DialogueInRun, Quiet, ServerEnds
      <3>2. Lives' /\ WhoKilled'
        BY <1>0, <1>2, <2>1, PipeFacts DEF Lives, WhoKilled, BetweenRuns
      <3> QED BY <3>1, <3>2 DEF WithServer
    <2> QED BY <1>0, <1>1, <2>1, <2>2, <2>3, <2>4 DEF IInv, Typed
  <1>3. CASE ~child_stopped /\ fs' = "dead" /\ fs_end' = "fork"
             /\ UNCHANGED <<child_stopped, fs_child_pid, procVars>>
    <2>1. ProcsTyped'
      BY <1>3 DEF IInv, Typed, ProcsTyped
    <2>2. FlagsTyped'
      BY <1>0, <1>3 DEF IInv, Typed, FlagsTyped
    <2>3. PlacesTyped'
      BY <1>0, <1>3 DEF IInv, Typed, PlacesTyped
    <2>4. NumbersInOrder'
      BY <1>0, <1>3, NumbersFrame DEF IInv, WillSpawn
    <2>5. WithServer'
      BY <1>0, <1>3, PipeFacts DEF IInv, WithServer, DialogueAtStart, DialogueInRun, Quiet,
             ServerEnds, Lives, WhoKilled, BetweenRuns
    <2> QED BY <1>0, <1>1, <2>1, <2>2, <2>3, <2>4, <2>5 DEF IInv, Typed
  <1>4. CASE /\ child_stopped
             /\ proc' = [proc EXCEPT ![fs_child_pid] = IF @ = "stopped" THEN "running" ELSE @]
             /\ child_stopped' = FALSE /\ fs' = "write_pid"
             /\ UNCHANGED <<fs_child_pid, fs_end, ended, sigterm>>
    <2>1. /\ fs_child_pid \in Pids /\ proc[fs_child_pid] = "stopped" /\ ended[fs_child_pid] = ""
          /\ proc'[fs_child_pid] = "running" /\ \A p \in Pids \ {fs_child_pid} : proc'[p] = proc[p]
      BY <1>0, <1>4 DEF IInv, Typed, ProcsTyped
    <2>2. ProcsTyped'
      BY <1>0, <1>4, <2>1 DEF IInv, Typed, ProcsTyped
    <2>3. FlagsTyped'
      BY <1>0, <1>4 DEF IInv, Typed, FlagsTyped
    <2>4. PlacesTyped'
      BY <1>0, <1>4 DEF IInv, Typed, PlacesTyped
    <2>5. NumbersInOrder'
      BY <1>0, <1>4, <2>1, NumbersFrame DEF IInv, WillSpawn
    <2>6. WithServer'
      <3>1. DialogueAtStart' /\ DialogueInRun' /\ Quiet' /\ ServerEnds' /\ pc' # "fork"
        BY <1>0, <1>4 DEF IInv, WithServer, DialogueAtStart, DialogueInRun, Quiet, ServerEnds
      <3>2. Alive' = Alive
        BY <2>1
      <3>3. Lives' /\ WhoKilled'
        BY <1>0, <1>4, <2>1, <3>2, PipeFacts DEF IInv, WithServer, Lives, WhoKilled, BetweenRuns
      <3> QED BY <3>1, <3>3 DEF WithServer
    <2> QED BY <1>0, <1>1, <2>2, <2>3, <2>4, <2>5, <2>6 DEF IInv, Typed
  <1> QED BY <1>0, <1>2, <1>3, <1>4 DEF FsSpawn

(* The process number goes into an empty pipe.                             *)
LEMMA FsWritePidIInv ==
  ASSUME IInv, FsWritePid
  PROVE  IInv'
  <1>0. /\ mode.forkserver /\ fs = "write_pid" /\ pc = "read_pid" /\ ctl = <<>> /\ st = <<>>
        /\ fs' = "wait" /\ st' = <<Taken>> /\ fs_child_pid \in Pids /\ ended[fs_child_pid] # "SIGKILL"
        /\ UNCHANGED <<mode, fuzzerVars, fs_child_pid, child_stopped, fs_end, ctl, procVars>>
    <2>1. mode.forkserver /\ fs = "write_pid"
      BY DEF FsWritePid, IInv, Alone
    <2>2. pc = "read_pid" /\ ctl = <<>> /\ st = <<>> /\ fs_child_pid \in Pids /\ ~child_timed_out
      BY <2>1 DEF IInv, Typed, PlacesTyped, WithServer, DialogueAtStart, DialogueInRun, Quiet, Lives
    <2>3. ended[fs_child_pid] # "SIGKILL"
      BY <2>1, <2>2 DEF IInv, WithServer, WhoKilled
    <2>4. Append(st, [pid |-> fs_child_pid, how |-> ""]) = <<Taken>>
      BY <2>2, PipeFacts
    <2> QED BY <2>1, <2>2, <2>3, <2>4 DEF FsWritePid
  <1>1. FlagsTyped'
    BY <1>0 DEF IInv, Typed, FlagsTyped
  <1>2. PlacesTyped'
    BY <1>0 DEF IInv, Typed, PlacesTyped
  <1>3. PipesTyped'
    <2>1. Taken \in Message
      BY <1>0 DEF Message
    <2> HIDE DEF Taken
    <2>2. st' \in Seq(Message) /\ Len(st') = 1
      BY <1>0, <2>1, PipeFacts, PipeTyped
    <2> QED BY <1>0, <2>2 DEF IInv, Typed, PipesTyped
  <1>4. ProcsTyped'
    BY <1>0 DEF IInv, Typed, ProcsTyped
  <1>5. NumbersInOrder'
    BY <1>0, NumbersFrame DEF IInv, WillSpawn
  <1>6. VerdictStands' /\ ForkServerServes'
    BY <1>0 DEF IInv, VerdictStands, VerdictIsCause, ForkServerServes
  <1>7. WithServer'
    <2>1. DialogueAtStart' /\ DialogueInRun' /\ Quiet' /\ ServerEnds' /\ pc' # "fork"
      BY <1>0 DEF IInv, WithServer, DialogueAtStart, DialogueInRun, Quiet, ServerEnds
    <2>2. Lives' /\ WhoKilled'
      BY <1>0, PipeFacts DEF IInv, WithServer, Lives, WhoKilled, BetweenRuns
    <2> QED BY <2>1, <2>2 DEF WithServer
  <1> QED BY <1>0, <1>1, <1>2, <1>3, <1>4, <1>5, <1>6, <1>7 DEF IInv, Typed

(* The status that is relayed is of the runner of this run, and the server *)
(* never waits for one it has waited for.                                  *)
LEMMA FsWaitIInv ==
  ASSUME IInv, FsWait
  PROVE  IInv'
  <1>0. /\ mode.forkserver /\ fs = "wait" /\ fs_child_pid \in Pids /\ ctl = <<>> /\ ~child_stopped
        /\ \/ pc = "read_pid" /\ st = <<Taken>> /\ ~child_timed_out
           \/ pc \in {"arm"} \cup PcOfRun /\ st = <<>>
        /\ proc[fs_child_pid] \in {"stopped", "zombie"}
        /\ UNCHANGED <<mode, fuzzerVars, fs_child_pid, ctl>>
    <2>1. mode.forkserver /\ fs = "wait"
      BY DEF FsWait, IInv, Alone
    <2>2. /\ fs_child_pid \in Pids /\ ctl = <<>> /\ ~child_stopped
          /\ \/ pc = "read_pid" /\ st = <<Taken>> /\ ~child_timed_out
             \/ pc \in {"arm"} \cup PcOfRun /\ st = <<>>
          /\ proc[fs_child_pid] \in {"running", "stopped", "zombie"}
      BY <2>1 DEF IInv, Typed, PlacesTyped, WithServer, DialogueAtStart, DialogueInRun, Quiet, Lives
    <2> QED BY <2>1, <2>2 DEF FsWait
  <1>a. /\ fs' = "read" /\ fs_end' = fs_end /\ UNCHANGED ended
        /\ \/ /\ proc[fs_child_pid] = "zombie" /\ Reap(fs_child_pid)
              /\ child_stopped' = Stopped(ended[fs_child_pid])
              /\ st' = Append(st, [pid |-> fs_child_pid, how |-> ended[fs_child_pid]])
           \/ /\ proc[fs_child_pid] = "stopped" /\ UNCHANGED procVars
              /\ child_stopped' = Stopped("stopped")
              /\ st' = Append(st, [pid |-> fs_child_pid, how |-> "stopped"])
    BY <1>0 DEF FsWait, Reap
  <1>b. /\ ProcsTyped' /\ \A p \in Pids : proc'[p] = "none" <=> proc[p] = "none"
        /\ child_stopped' \in BOOLEAN
        /\ IF child_stopped' THEN proc[fs_child_pid] = "stopped" /\ UNCHANGED proc ELSE Alive' = {}
        /\ st' = Append(st, Relay')
    <2>1. CASE proc[fs_child_pid] = "zombie"
      <3>1. child_stopped' = FALSE
        BY <1>0, <1>a, <2>1 DEF Stopped, IInv, Typed, ProcsTyped
      <3>2. /\ ProcsTyped' /\ Alive' = Alive
            /\ \A p \in Pids : proc'[p] = "none" <=> proc[p] = "none"
        BY <1>0, <1>a, <2>1, ReapFacts DEF IInv, Typed
      <3>3. Alive = {}
        BY <1>0, <2>1 DEF IInv, WithServer, Lives
      <3>4. Relay' = [pid |-> fs_child_pid, how |-> ended[fs_child_pid]]
        BY <1>0, <1>a, <3>1
      <3> QED BY <1>a, <2>1, <3>1, <3>2, <3>3, <3>4
    <2>2. CASE proc[fs_child_pid] = "stopped"
      <3>1. child_stopped' = TRUE
        BY <1>0, <1>a, <2>2 DEF Stopped
      <3>2. ProcsTyped'
        BY <1>a, <2>2 DEF IInv, Typed, ProcsTyped
      <3>3. Relay' = [pid |-> fs_child_pid, how |-> "stopped"]
        BY <1>0, <1>a, <3>1
      <3> QED BY <1>a, <2>2, <3>1, <3>2, <3>3
    <2> QED BY <1>0, <2>1, <2>2
  <1>c. /\ pc = "read_pid" => st' = <<Taken, Relay'>>
        /\ pc # "read_pid" => st' = <<Relay'>>
    <2> HIDE DEF Taken, Relay
    <2>1. CASE pc = "read_pid"
      BY <1>0, <1>b, <2>1, PipeFacts
    <2>2. CASE pc # "read_pid"
      BY <1>0, <1>b, <2>2, PipeFacts
    <2> QED BY <2>1, <2>2
  <1>1. FlagsTyped'
    BY <1>0, <1>b DEF IInv, Typed, FlagsTyped
  <1>2. PlacesTyped'
    BY <1>0, <1>a DEF IInv, Typed, PlacesTyped
  <1>3. PipesTyped'
    <2>1. Taken \in Message
      BY <1>0 DEF Message
    <2>2. Relay' \in Message
      BY <1>0, <1>b DEF Message, ProcsTyped
    <2> HIDE DEF Taken, Relay
    <2>3. st' \in Seq(Message) /\ Len(st') <= 2
      <3>1. \A r \in Message : <<r>> \in Seq(Message) /\ <<Taken, r>> \in Seq(Message)
        BY <2>1, PipeTyped
      <3>2. \A r : Len(<<r>>) = 1 /\ Len(<<Taken, r>>) = 2
        BY PipeFacts
      <3>3. PICK r \in Message : st' = <<r>> \/ st' = <<Taken, r>>
        BY <1>c, <2>2
      <3>4. CASE st' = <<r>>
        BY <3>1, <3>2, <3>4
      <3>5. CASE st' = <<Taken, r>>
        BY <3>1, <3>2, <3>5
      <3> QED BY <3>3, <3>4, <3>5
    <2> QED BY <1>0, <2>3 DEF IInv, Typed, PipesTyped
  <1>4. NumbersInOrder'
    BY <1>0, <1>a, <1>b, NumbersFrame DEF IInv, WillSpawn
  <1>5. VerdictStands' /\ ForkServerServes'
    BY <1>0, <1>a DEF IInv, VerdictStands, VerdictIsCause, ForkServerServes
  <1>6. WithServer'
    <2>1. DialogueAtStart' /\ Quiet' /\ ServerEnds' /\ pc' # "fork"
      BY <1>0, <1>a DEF IInv, WithServer, DialogueAtStart, Quiet, ServerEnds
    <2>2. DialogueInRun'
      <3>1. Taken' = Taken
        BY <1>0
      <3> HIDE DEF Taken, Relay
      <3> QED BY <1>0, <1>a, <1>c, <3>1 DEF IInv, WithServer, DialogueInRun
    <2>3. Alive' \subseteq {fs_child_pid}
      <3>1. Alive \subseteq {fs_child_pid}
        BY <1>0 DEF IInv, WithServer, Lives
      <3>2. Alive' = Alive \/ Alive' = {}
        BY <1>b
      <3> QED BY <3>1, <3>2
    <2>4. Lives'
      BY <1>0, <1>a, <1>b, <2>3 DEF IInv, WithServer, Lives
    <2>5. WhoKilled'
      <3>1. ended[fs_child_pid] = "SIGKILL" => child_timed_out
        BY <1>0 DEF IInv, WithServer, WhoKilled
      <3>2. pc \in PcOfRun /\ child_timed_out => Alive = {}
        BY <1>0 DEF IInv, WithServer, WhoKilled
      <3>3. child_stopped' => ~child_timed_out
        <4>1. SUFFICES ASSUME child_stopped' PROVE ~child_timed_out
          OBVIOUS
        <4>2. fs_child_pid \in Alive
          BY <1>0, <1>b, <4>1
        <4>3. pc = "arm" => ~child_timed_out
          BY <1>0 DEF IInv, WithServer, DialogueInRun
        <4> QED BY <1>0, <3>2, <4>2, <4>3
      <3> QED BY <1>0, <1>a, <1>b, <1>c, <3>1, <3>2, <3>3, PipeFacts DEF WhoKilled, BetweenRuns,
             IInv, Typed, FlagsTyped, WithServer, DialogueInRun
    <2> QED BY <2>1, <2>2, <2>4, <2>5 DEF WithServer
  <1> QED BY <1>0, <1>b, <1>1, <1>2, <1>3, <1>4, <1>5, <1>6 DEF IInv, Typed

(* What leaves these variables alone keeps their types.                    *)
LEMMA PlacesFrame ==
  ASSUME PlacesTyped, UNCHANGED <<mode, pc, runs, stop_soon, fs, child_pid, fs_child_pid, fault, status>>
  PROVE  PlacesTyped'
  <1>1. mode' \in Modes /\ runs' \in 0 .. MaxRuns /\ stop_soon' \in {0, 1, 2}
    BY DEF PlacesTyped
  <1>2. pc' \in PcOfStart \cup {"request", "read_pid", "fork", "arm"} \cup PcOfRun \cup PcOfEnd
                \cup PcOfRest
    BY DEF PlacesTyped
  <1>3. fs' \in {"none", "hello", "read", "write_off", "spawn", "write_pid", "wait", "dead"}
    BY DEF PlacesTyped
  <1>4. child_pid' \in Pids \cup {-1, 0} /\ fs_child_pid' \in Pids \cup {0}
    BY DEF PlacesTyped
  <1>5. fault' \in {"", "NONE", "TMOUT", "CRASH", "ERROR"}
    BY DEF PlacesTyped
  <1>6. status'.pid \in Pids \cup {0}
    BY DEF PlacesTyped
  <1> QED BY <1>1, <1>2, <1>3, <1>4, <1>5, <1>6 DEF PlacesTyped

(* The target reaches its fork server, or dies before.                     *)
LEMMA FsHelloIInv ==
  ASSUME IInv, FsHello
  PROVE  IInv'
  <1>0. /\ mode.forkserver /\ fs = "hello" /\ pc = "hello" /\ st = <<>> /\ ctl = <<>>
        /\ \/ fs' = "read" /\ st' = <<NoStatus>> /\ UNCHANGED fs_end
           \/ fs' = "dead" /\ fs_end' = "start" /\ UNCHANGED st
        /\ UNCHANGED <<mode, fuzzerVars, fs_child_pid, child_stopped, ctl, procVars>>
    <2>1. mode.forkserver /\ fs = "hello"
      BY DEF FsHello, IInv, Alone
    <2>2. pc = "hello" /\ st = <<>> /\ ctl = <<>>
      BY <2>1 DEF IInv, WithServer, Lives, DialogueAtStart
    <2>3. Append(st, NoStatus) = <<NoStatus>>
      BY <2>2, PipeFacts
    <2> QED BY <2>1, <2>2, <2>3 DEF FsHello
  <1>1. FlagsTyped'
    BY <1>0 DEF IInv, Typed, FlagsTyped
  <1>2. PlacesTyped'
    BY <1>0 DEF IInv, Typed, PlacesTyped
  <1>3. PipesTyped'
    <2>1. NoStatus \in Message
      BY DEF Message
    <2> HIDE DEF NoStatus
    <2>2. <<NoStatus>> \in Seq(Message) /\ Len(<<NoStatus>>) = 1
      BY <2>1, PipeFacts, PipeTyped
    <2>3. st' \in Seq(Message) /\ Len(st') <= 2
      <3>1. CASE st' = <<NoStatus>>
        BY <2>2, <3>1
      <3>2. CASE st' = st
        BY <3>2 DEF IInv, Typed, PipesTyped
      <3> QED BY <1>0, <3>1, <3>2
    <2> QED BY <1>0, <2>3 DEF IInv, Typed, PipesTyped
  <1>4. ProcsTyped'
    BY <1>0 DEF IInv, Typed, ProcsTyped
  <1>5. NumbersInOrder'
    BY <1>0, NumbersFrame DEF IInv, WillSpawn
  <1>6. VerdictStands' /\ ForkServerServes'
    BY <1>0 DEF IInv, VerdictStands, VerdictIsCause, ForkServerServes
  <1>7. WithServer'
    <2>1. DialogueAtStart' /\ DialogueInRun' /\ Quiet' /\ ServerEnds' /\ pc' # "fork"
      BY <1>0 DEF IInv, WithServer, DialogueAtStart, DialogueInRun, Quiet, ServerEnds
    <2>2. Lives' /\ WhoKilled'
      BY <1>0 DEF IInv, WithServer, Lives, WhoKilled, BetweenRuns
    <2> QED BY <2>1, <2>2 DEF WithServer
  <1> QED BY <1>0, <1>1, <1>2, <1>3, <1>4, <1>5, <1>6, <1>7 DEF IInv, Typed

(* A runner that ends by itself while it runs is the only one, and afl-fuzz *)
(* waits for its status.                                                   *)
LEMMA EndOfOneIInv ==
  ASSUME IInv, NEW q \in Pids, proc[q] = "running", NEW how \in {"exit", "crash", "exec_failed", "SIGTERM"},
         End({q}, how), UNCHANGED <<mode, fuzzerVars, serverVars, pipeVars>>
  PROVE  IInv'
  <1>0. /\ ProcsTyped' /\ Alive' = Alive \ {q} /\ q \in Alive /\ ended[q] = ""
        /\ proc'[q] = "zombie" /\ ended'[q] = how
        /\ \A p \in Pids \ {q} : proc'[p] = proc[p] /\ ended'[p] = ended[p]
        /\ \A p \in Pids : proc'[p] = "none" <=> proc[p] = "none"
    <2>1. how \in Ends \ {""}
      OBVIOUS
    <2>2. q \in Alive /\ ended[q] = ""
      BY DEF IInv, Typed, ProcsTyped
    <2>3. /\ ProcsTyped' /\ Alive' = Alive \ {q}
          /\ \A p \in Pids : p \in {q} \cap Alive => proc'[p] = "zombie" /\ ended'[p] = how
          /\ \A p \in Pids : p \notin {q} \cap Alive => proc'[p] = proc[p] /\ ended'[p] = ended[p]
          /\ \A p \in Pids : proc'[p] = "none" <=> proc[p] = "none"
      BY <2>1, EndFacts DEF IInv, Typed
    <2> QED BY <2>2, <2>3
  <1>1. FlagsTyped' /\ PipesTyped'
    BY DEF IInv, Typed, FlagsTyped, PipesTyped
  <1>2. PlacesTyped'
    BY PlacesFrame DEF IInv, Typed
  <1>3. NumbersInOrder'
    BY <1>0, NumbersFrame DEF IInv, WillSpawn
  <1>4. VerdictStands' /\ ForkServerServes'
    <2>1. status.pid \in Pids /\ ended[status.pid] = "crash" => ended'[status.pid] = "crash"
      BY <1>0
    <2> QED BY <2>1 DEF IInv, VerdictStands, VerdictIsCause, ForkServerServes
  <1>5. mode'.forkserver => WithServer'
    <2> SUFFICES ASSUME mode.forkserver PROVE WithServer'
      OBVIOUS
    <2>1. q = fs_child_pid /\ fs \in {"write_pid", "wait", "dead"}
      BY <1>0 DEF IInv, Typed, PlacesTyped, WithServer, Lives
    <2>2. DialogueAtStart' /\ Quiet' /\ ServerEnds' /\ pc' # "fork"
      BY DEF IInv, WithServer, DialogueAtStart, Quiet, ServerEnds
    <2>3. DialogueInRun'
      BY <2>1 DEF IInv, WithServer, DialogueInRun
    <2>4. Lives' /\ WhoKilled'
      BY <1>0, <2>1 DEF IInv, WithServer, Lives, WhoKilled, BetweenRuns
    <2> QED BY <2>2, <2>3, <2>4 DEF WithServer
  <1>6. ~mode'.forkserver => Alone'
    BY <1>0 DEF IInv, Alone
  <1> QED BY <1>0, <1>1, <1>2, <1>3, <1>4, <1>5, <1>6 DEF IInv, Typed

(* Whatever the runner does, it is the one both programs mean.             *)
LEMMA RunnerIInv ==
  ASSUME IInv, Runner
  PROVE  IInv'
  <1>1. CASE RunnerEnds
    <2>1. PICK p \in Pids, how \in {"exit", "crash", "exec_failed"} : proc[p] = "running" /\ End({p}, how)
      BY <1>1 DEF RunnerEnds
    <2> QED BY <1>1, <2>1, EndOfOneIInv DEF RunnerEnds
  <1>2. CASE RunnerTerminated
    <2>1. PICK p \in sigterm : proc[p] = "running" /\ End({p}, "SIGTERM")
      BY <1>2 DEF RunnerTerminated
    <2>2. p \in Pids
      BY DEF IInv, Typed, ProcsTyped
    <2> QED BY <1>2, <2>1, <2>2, EndOfOneIInv DEF RunnerTerminated
  <1>3. CASE RunnerStops
    <2>1. PICK q \in Pids : proc[q] = "running" /\ proc' = [proc EXCEPT ![q] = "stopped"]
      BY <1>3 DEF RunnerStops
    <2>2. UNCHANGED <<mode, fuzzerVars, serverVars, pipeVars, ended, sigterm>>
      BY <1>3 DEF RunnerStops
    <2>3. /\ ProcsTyped' /\ Alive' = Alive /\ q \in Alive /\ proc'[q] = "stopped"
          /\ \A p \in Pids : p # q => proc'[p] = proc[p]
          /\ \A p \in Pids : proc'[p] = "none" <=> proc[p] = "none"
      <3>1. /\ proc'[q] = "stopped" /\ \A p \in Pids : p # q => proc'[p] = proc[p]
        BY <2>1 DEF IInv, Typed, ProcsTyped
      <3>2. ProcsTyped'
        BY <2>1, <2>2 DEF IInv, Typed, ProcsTyped
      <3> QED BY <2>1, <3>1, <3>2
    <2>4. FlagsTyped' /\ PipesTyped'
      BY <2>2 DEF IInv, Typed, FlagsTyped, PipesTyped
    <2>5. PlacesTyped'
      BY <2>2, PlacesFrame DEF IInv, Typed
    <2>6. NumbersInOrder'
      BY <2>2, <2>3, NumbersFrame DEF IInv, WillSpawn
    <2>7. VerdictStands' /\ ForkServerServes'
      BY <2>2 DEF IInv, VerdictStands, VerdictIsCause, ForkServerServes
    <2>8. mode'.forkserver => WithServer'
      <3> SUFFICES ASSUME mode.forkserver PROVE WithServer'
        BY <2>2
      <3>1. q = fs_child_pid /\ fs \in {"write_pid", "wait", "dead"}
        BY <2>1, <2>3 DEF IInv, Typed, PlacesTyped, WithServer, Lives
      <3>2. DialogueAtStart' /\ Quiet' /\ ServerEnds' /\ pc' # "fork"
        BY <2>2 DEF IInv, WithServer, DialogueAtStart, Quiet, ServerEnds
      <3>4. DialogueInRun'
        BY <2>2 DEF IInv, WithServer, DialogueInRun
      <3>3. Lives' /\ WhoKilled'
        BY <2>2, <2>3, <3>1 DEF IInv, WithServer, Lives, WhoKilled, BetweenRuns
      <3> QED BY <3>2, <3>3, <3>4 DEF WithServer
    <2>9. ~mode'.forkserver => Alone'
      BY <2>2, <2>3 DEF IInv, Alone
    <2> QED BY <2>3, <2>4, <2>5, <2>6, <2>7, <2>8, <2>9 DEF IInv, Typed
  <1> QED BY <1>1, <1>2, <1>3 DEF Runner

(* Orphans are waited for only when the server that forked them is dead.   *)
LEMMA OrphanReapedIInv ==
  ASSUME IInv, OrphanReaped
  PROVE  IInv'
  <1>1. PICK q \in Pids : proc[q] = "zombie" /\ Reap(q)
    BY DEF OrphanReaped
  <1>2. fs = "dead" /\ mode.forkserver /\ UNCHANGED <<mode, fuzzerVars, serverVars, pipeVars>>
    BY DEF OrphanReaped, IInv, Alone
  <1>3. /\ ProcsTyped' /\ Alive' = Alive /\ UNCHANGED ended
        /\ \A p \in Pids : proc'[p] = "none" <=> proc[p] = "none"
    BY <1>1, ReapFacts DEF IInv, Typed
  <1>4. FlagsTyped' /\ PipesTyped'
    BY <1>2 DEF IInv, Typed, FlagsTyped, PipesTyped
  <1>5. PlacesTyped'
    BY <1>2, PlacesFrame DEF IInv, Typed
  <1>6. NumbersInOrder'
    BY <1>2, <1>3, NumbersFrame DEF IInv, WillSpawn
  <1>7. VerdictStands' /\ ForkServerServes'
    BY <1>2, <1>3 DEF IInv, VerdictStands, VerdictIsCause, ForkServerServes
  <1>8. WithServer'
    <2>1. DialogueAtStart' /\ DialogueInRun' /\ Quiet' /\ ServerEnds' /\ pc' # "fork"
      BY <1>2, <1>3 DEF IInv, WithServer, DialogueAtStart, DialogueInRun, Quiet, ServerEnds
    <2>2. Lives' /\ WhoKilled'
      BY <1>2, <1>3 DEF IInv, WithServer, Lives, WhoKilled, BetweenRuns
    <2> QED BY <2>1, <2>2 DEF WithServer
  <1> QED BY <1>2, <1>3, <1>4, <1>5, <1>6, <1>7, <1>8 DEF IInv, Typed
-----------------------------------------------------------------------------
(* The signals                                                             *)

(* The timer kills the runner of this run, or the server that has not come up, *)
(* and at no time anybody else.                                            *)
LEMMA HandleTimeoutIInv ==
  ASSUME IInv, HandleTimeout
  PROVE  IInv'
  <1>0. /\ timer /\ timer' = FALSE
        /\ UNCHANGED <<mode, pc, dry_run, runs, child_pid, prev_timed_out, stop_soon, status, fault,
                       pipeVars, fs_child_pid, child_stopped>>
        /\ End(TimeoutTarget, "SIGKILL")
        /\ child_timed_out' = (child_timed_out \/ child_pid > 0 \/ (child_pid = -1 /\ fs # "none"))
        /\ fs' = IF child_pid = -1 /\ ForkServerUp THEN "dead" ELSE fs
        /\ fs_end' = IF child_pid = -1 /\ ForkServerUp THEN "timeout" ELSE fs_end
    BY DEF HandleTimeout, KillForkServer
  <1>a. /\ ProcsTyped' /\ Alive' = Alive \ TimeoutTarget
        /\ \A p \in Pids : p \in TimeoutTarget \cap Alive => proc'[p] = "zombie" /\ ended'[p] = "SIGKILL"
        /\ \A p \in Pids : p \notin TimeoutTarget \cap Alive => proc'[p] = proc[p] /\ ended'[p] = ended[p]
        /\ \A p \in Pids : proc'[p] = "none" <=> proc[p] = "none"
    BY <1>0, EndFacts DEF IInv, Typed
  <1>b. child_timed_out' \in BOOLEAN /\ (child_timed_out => child_timed_out')
        /\ (child_pid \in Pids => child_timed_out')
        /\ (child_pid = 0 => (child_timed_out' <=> child_timed_out))
    <2>1. child_timed_out' \in BOOLEAN /\ (child_timed_out => child_timed_out')
      BY <1>0 DEF IInv, Typed, FlagsTyped
    <2>2. child_pid \in Pids => child_timed_out'
      <3>1. child_pid \in Pids => child_pid > 0
        OBVIOUS
      <3> QED BY <1>0, <3>1
    <2>3. child_pid = 0 => (child_timed_out' <=> child_timed_out)
      <3>1. child_pid = 0 => ~(child_pid > 0) /\ ~(child_pid = -1)
        OBVIOUS
      <3> QED BY <1>0, <3>1
    <2> QED BY <2>1, <2>2, <2>3
  <1>c. \/ fs' = fs /\ fs_end' = fs_end
        \/ fs' = "dead" /\ fs_end' = "timeout" /\ fs \notin {"none", "dead"} /\ child_pid = -1
    <2>1. CASE child_pid = -1 /\ ForkServerUp
      BY <1>0, <2>1
    <2>2. CASE ~(child_pid = -1 /\ ForkServerUp)
      BY <1>0, <2>2
    <2> QED BY <2>1, <2>2
  <1>1. FlagsTyped'
    BY <1>0, <1>b DEF IInv, Typed, FlagsTyped
  <1>2. PlacesTyped'
    <2>1. UNCHANGED <<mode, pc, runs, stop_soon, child_pid, fs_child_pid, fault, status>>
      BY <1>0
    <2>2. fs' \in {fs, "dead"}
      BY <1>c
    <2>3. fs' \in {"none", "hello", "read", "write_off", "spawn", "write_pid", "wait", "dead"}
      BY <2>2 DEF IInv, Typed, PlacesTyped
    <2> QED BY <2>1, <2>3, ZenonT(30) DEF IInv, Typed, PlacesTyped
  <1>3. PipesTyped'
    BY <1>0 DEF IInv, Typed, PipesTyped
  <1>4. VerdictStands'
    <2>1. status.pid \in Pids /\ ended[status.pid] = "crash" => ended'[status.pid] = "crash"
      BY <1>a DEF IInv, Typed, ProcsTyped
    <2> QED BY <1>0, <2>1 DEF IInv, VerdictStands, VerdictIsCause
  <1>5. CASE mode.forkserver
    <2>1. CASE fs \in {"none", "dead"}
      <3>1. fs' = fs /\ fs_end' = fs_end
        BY <1>0, <2>1
      <3>2. DialogueAtStart' /\ DialogueInRun' /\ Quiet' /\ ServerEnds' /\ pc' # "fork"
        <4>0. WithServer
          BY <1>5 DEF IInv
        <4>1. DialogueAtStart' /\ Quiet' /\ pc' # "fork"
          BY <1>0, <2>1, <3>1, <4>0 DEF WithServer, DialogueAtStart, Quiet
        <4>2. ServerEnds'
          BY <1>0, <2>1, <3>1, <4>0 DEF WithServer, ServerEnds
        <4>3. DialogueInRun'
          <5>1. Taken' = Taken /\ DialogueInRun
            BY <1>0, <4>0 DEF WithServer
          <5>2. fs = "none" => pc = "init_forkserver"
            BY <2>1, <4>0 DEF WithServer, Quiet, DialogueInRun, DialogueAtStart, IInv, Typed, PlacesTyped
          <5> HIDE DEF Taken, Relay
          <5>3. CASE fs = "none"
            BY <1>0, <5>2, <5>3 DEF DialogueInRun
          <5>4. CASE fs = "dead"
            BY <1>0, <3>1, <5>1, <5>4 DEF DialogueInRun
          <5> QED BY <2>1, <5>3, <5>4
        <4> QED BY <4>1, <4>2, <4>3
      <3>3. Lives' /\ WhoKilled'
        BY <1>0, <1>5, <1>a, <2>1, <3>1 DEF IInv, WithServer, Lives, WhoKilled, BetweenRuns
      <3>4. ForkServerServes'
        BY <1>0, <3>1 DEF IInv, ForkServerServes
      <3>5. NumbersInOrder'
        BY <1>0, <1>a, <3>1, NumbersFrame DEF IInv, WillSpawn
      <3> QED BY <1>0, <1>5, <1>a, <1>1, <1>2, <1>3, <1>4, <3>2, <3>3, <3>4, <3>5 DEF IInv, Typed,
             WithServer
    <2>2. CASE fs \notin {"none", "dead"} /\ pc \in {"hello", "up"}
      <3>1. child_pid = -1 /\ Alive = {} /\ fs' = "dead" /\ fs_end' = "timeout" /\ ~child_stopped
        BY <1>0, <1>5, <2>2 DEF IInv, WithServer, DialogueAtStart, Lives
      <3>2. \A p \in Pids : proc'[p] = proc[p]
        BY <1>a, <3>1
      <3>3. DialogueAtStart' /\ DialogueInRun' /\ Quiet' /\ ServerEnds' /\ pc' # "fork"
        BY <1>0, <1>5, <2>2, <3>1 DEF IInv, WithServer, DialogueAtStart, DialogueInRun, Quiet, ServerEnds
      <3>4. Lives' /\ WhoKilled'
        BY <1>0, <1>5, <1>a, <2>2, <3>1, <3>2 DEF IInv, WithServer, Lives, WhoKilled, BetweenRuns
      <3>5. ForkServerServes'
        BY <1>0, <2>2, <3>1 DEF IInv, ForkServerServes
      <3>6. NumbersInOrder'
        BY <1>0, <1>a, <2>2, <3>1, NumbersFrame DEF IInv, WillSpawn
      <3> QED BY <1>0, <1>5, <1>a, <1>1, <1>2, <1>3, <1>4, <3>3, <3>4, <3>5, <3>6 DEF IInv, Typed,
             WithServer
    <2>3. CASE fs \notin {"none", "dead"} /\ pc \notin {"hello", "up"}
      <3>1. pc \in PcOfRun \cup {"settle", "disarm"}
        BY <1>0, <1>5, <2>3 DEF IInv, WithServer, Quiet
      <3>2. /\ fs_child_pid \in Pids
            /\ child_pid = fs_child_pid \/ (pc = "disarm" /\ child_pid = 0 /\ ~child_stopped /\ fs = "read")
        BY <1>5, <2>3, <3>1 DEF IInv, WithServer, DialogueInRun, Lives
      <3>3. fs' = fs /\ fs_end' = fs_end
        BY <1>c, <3>2
      <3>4. Alive' = {}
        <4>1. CASE child_pid = fs_child_pid
          BY <1>5, <1>a, <3>2, <4>1 DEF IInv, WithServer, Lives, TimeoutTarget
        <4>2. CASE fs = "read" /\ ~child_stopped
          BY <1>5, <1>a, <4>2 DEF IInv, WithServer, Lives
        <4> QED BY <3>2, <4>1, <4>2
      <3>5. fs = "read" => Relay' = Relay
        <4>1. CASE fs = "read" /\ ~child_stopped
          BY <1>0, <1>5, <1>a, <3>2, <4>1 DEF IInv, WithServer, Lives
        <4>2. CASE child_stopped
          BY <1>0, <4>2
        <4> QED BY <4>1, <4>2
      <3>6. DialogueAtStart' /\ Quiet' /\ ServerEnds' /\ pc' # "fork"
        BY <1>0, <1>5, <3>1, <3>3 DEF IInv, WithServer, DialogueAtStart, Quiet, ServerEnds
      <3>7. DialogueInRun'
        <4> HIDE DEF Relay
        <4> QED BY <1>0, <1>5, <3>1, <3>3, <3>5 DEF IInv, WithServer, DialogueInRun
      <3>8. Lives'
        <4>1. proc'[fs_child_pid] = proc[fs_child_pid]
              \/ (proc[fs_child_pid] \in {"running",
                     "stopped"} /\ proc'[fs_child_pid] = "zombie" /\ child_pid = fs_child_pid)
          BY <1>a, <3>2 DEF TimeoutTarget
        <4>2. Lives /\ fs # "hello" /\ fs # "none" /\ fs \notin {"spawn", "write_off"}
          BY <1>5, <2>3, <3>1 DEF IInv, WithServer, Lives, DialogueInRun
        <4> QED BY <1>0, <3>2, <3>3, <3>4, <4>1, <4>2 DEF Lives
      <3>9. WhoKilled'
        BY <1>0, <1>5, <1>a, <1>b, <3>1, <3>2, <3>3, <3>4 DEF IInv, WithServer, Lives, WhoKilled,
               BetweenRuns
      <3>10. ForkServerServes'
        BY <1>0, <3>3 DEF IInv, ForkServerServes
      <3>11. NumbersInOrder'
        BY <1>0, <1>a, <3>3, NumbersFrame DEF IInv, WillSpawn
      <3> QED BY <1>0, <1>5, <1>a, <1>1, <1>2, <1>3, <1>4, <3>6, <3>7, <3>8, <3>9, <3>10,
             <3>11 DEF IInv, Typed, WithServer
    <2> QED BY <2>1, <2>2, <2>3
  <1>6. CASE ~mode.forkserver
    <2>1. fs = "none" /\ fs' = "none" /\ fs_end' = fs_end
      BY <1>0, <1>6 DEF IInv, Alone
    <2>2. Alone'
      BY <1>0, <1>6, <1>a, <1>b, <2>1 DEF IInv, Alone, TimeoutTarget
    <2>3. ForkServerServes'
      BY <1>0, <2>1 DEF IInv, ForkServerServes
    <2>4. NumbersInOrder'
      BY <1>0, <1>a, <2>1, NumbersFrame DEF IInv, WillSpawn
    <2> QED BY <1>0, <1>6, <1>a, <1>1, <1>2, <1>3, <1>4, <2>2, <2>3, <2>4 DEF IInv, Typed
  <1> QED BY <1>5, <1>6

(* A stop kills the server and the runner wherever afl-fuzz is.            *)
LEMMA HandleStopSigIInv ==
  ASSUME IInv, HandleStopSig
  PROVE  IInv'
  <1>0. /\ stop_soon' = 1 /\ End({child_pid}, "SIGKILL")
        /\ UNCHANGED <<mode, pc, dry_run, runs, child_pid, child_timed_out, prev_timed_out, timer,
                       status, fault, pipeVars, fs_child_pid, child_stopped>>
        /\ fs' = IF ForkServerUp THEN "dead" ELSE fs
        /\ fs_end' = IF ForkServerUp THEN "stop" ELSE fs_end
    BY DEF HandleStopSig, StopKillsForkServer, KillForkServer
  <1>a. /\ ProcsTyped' /\ Alive' = Alive \ {child_pid}
        /\ \A p \in Pids : p \in {child_pid} \cap Alive => proc'[p] = "zombie" /\ ended'[p] = "SIGKILL"
        /\ \A p \in Pids : p \notin {child_pid} \cap Alive => proc'[p] = proc[p] /\ ended'[p] = ended[p]
        /\ \A p \in Pids : proc'[p] = "none" <=> proc[p] = "none"
    BY <1>0, EndFacts DEF IInv, Typed
  <1>1. FlagsTyped'
    BY <1>0 DEF IInv, Typed, FlagsTyped
  <1>2. PlacesTyped'
    <2>1. UNCHANGED <<mode, pc, runs, child_pid, fs_child_pid, fault, status>> /\ stop_soon' = 1
          /\ fs' \in {fs, "dead"}
      BY <1>0
    <2>3. fs' \in {"none", "hello", "read", "write_off", "spawn", "write_pid", "wait", "dead"}
      BY <2>1 DEF IInv, Typed, PlacesTyped
    <2> QED BY <2>1, <2>3 DEF IInv, Typed, PlacesTyped
  <1>3. PipesTyped'
    BY <1>0 DEF IInv, Typed, PipesTyped
  <1>4. VerdictStands'
    BY <1>0 DEF VerdictStands, VerdictIsCause
  <1>5. NumbersInOrder'
    BY <1>0, <1>a, NumbersFrame DEF IInv, WillSpawn
  <1>6. ForkServerServes'
    BY <1>0 DEF IInv, ForkServerServes, HandleStopSig
  <1>7. mode'.forkserver => WithServer'
    <2> SUFFICES ASSUME mode.forkserver PROVE WithServer'
      BY <1>0
    <2>1. \/ fs = "none" /\ fs' = "none" /\ pc = "init_forkserver" /\ Alive = {}
         \/ fs' = "dead"
      BY <1>0 DEF IInv, Typed, PlacesTyped, WithServer, DialogueAtStart, DialogueInRun, Quiet, Lives
    <2>2. DialogueAtStart' /\ pc' # "fork"
      <3>1. WithServer
        BY DEF IInv
      <3>2. pc = "hello" =>
            \/ fs' = "dead" /\ fs_end' # "start"
            \/ fs' = fs /\ fs_end' = fs_end
        <4>1. CASE fs = "dead"
          BY <1>0, <4>1
        <4>2. CASE fs # "dead" /\ fs # "none"
          <5>1. fs' = "dead" /\ fs_end' = "stop"
            BY <1>0, <4>2
          <5> QED BY <5>1
        <4>3. pc = "hello" => fs # "none"
          BY <3>1 DEF WithServer, DialogueAtStart
        <4> QED BY <4>1, <4>2, <4>3
      <3> QED BY <1>0, <2>1, <3>1, <3>2 DEF WithServer, DialogueAtStart
    <2>5. Quiet' /\ ServerEnds'
      <3>1. WithServer
        BY DEF IInv
      <3>2. Quiet'
        BY <1>0, <2>1, <3>1 DEF WithServer, Quiet
      <3>3. ServerEnds'
        <4>0. stop_soon' # 0 /\ pc' = pc
          BY <1>0
        <4>1. CASE ForkServerUp
          <5>1. fs' = "dead" /\ fs_end' = "stop"
            BY <1>0, <4>1
          <5> QED BY <4>0, <5>1 DEF ServerEnds
        <4>2. CASE ~ForkServerUp
          <5>1. fs' = fs /\ fs_end' = fs_end
            BY <1>0, <4>2
          <5> QED BY <3>1, <4>0, <5>1 DEF WithServer, ServerEnds
        <4> QED BY <4>1, <4>2
      <3> QED BY <3>2, <3>3
    <2>3. DialogueInRun'
      <3>1. DialogueInRun /\ ServerEnds /\ pc # "fork"
        BY DEF IInv, WithServer
      <3>2. CASE fs = "none"
        BY <1>0, <2>1, <3>2, <3>1 DEF DialogueInRun
      <3>3. CASE fs' = "dead"
        <4>1. Taken' = Taken /\ (pc = "read_pid" => st = <<>> \/ (ctl = <<>> /\ Head(st) = Taken))
          <5> HIDE DEF Taken, Relay
          <5>1. Taken' = Taken
            BY <1>0 DEF Taken
          <5> QED BY <5>1, <3>1, PipeFacts DEF DialogueInRun
        <4>2. \A x : x \in {1} => x # 0
          OBVIOUS
        <4> HIDE DEF Taken, Relay
        <4> QED BY <1>0, <3>1, <3>3, <4>1 DEF DialogueInRun
      <3> QED BY <2>1, <3>2, <3>3
    <2>4. Lives' /\ WhoKilled'
      BY <1>0, <1>a, <2>1, PipeFacts DEF IInv, WithServer, Lives, WhoKilled, BetweenRuns, DialogueInRun
    <2> QED BY <2>2, <2>3, <2>4, <2>5 DEF WithServer
  <1>8. ~mode'.forkserver => Alone'
    <2> SUFFICES ASSUME ~mode.forkserver PROVE Alone'
      BY <1>0
    <2>1. Alone /\ fs' = "none" /\ fs_end' = fs_end
      BY <1>0 DEF IInv, Alone
    <2>2. stop_soon' # 0
      BY <1>0
    <2>3. pc \in {"arm"} \cup PcOfRun => proc'[child_pid] \in {"running", "stopped", "zombie"}
      BY <1>a, <2>1 DEF Alone
    <2>5. pc \in PcOfEnd => ended'[status.pid] = ended[status.pid]
      BY <1>a, <2>1 DEF Alone
    <2> QED BY <1>0, <1>a, <2>1, <2>2, <2>3, <2>5 DEF Alone
  <1> QED BY <1>a, <1>1, <1>2, <1>3, <1>4, <1>5, <1>6, <1>7, <1>8 DEF IInv, Typed
-----------------------------------------------------------------------------
(* Steps that move afl-fuzz or the server alone                            *)

(* The fork server starts with both pipes empty.                           *)
LEMMA InitForkserverIInv ==
  ASSUME IInv, InitForkserver
  PROVE  IInv'
  <1>1. FlagsTyped'
    BY DEF InitForkserver, IInv, Typed, FlagsTyped
  <1>2. PlacesTyped'
    BY DEF InitForkserver, IInv, Typed, PlacesTyped
  <1>3. PipesTyped'
    BY DEF InitForkserver, IInv, Typed, PipesTyped
  <1>4. ProcsTyped'
    BY DEF InitForkserver, IInv, Typed, ProcsTyped
  <1>5. NumbersInOrder'
    BY DEF InitForkserver, IInv, NumbersInOrder, WillSpawn, WithServer, Alone, DialogueInRun
  <1>6. VerdictStands' /\ ForkServerServes'
    BY DEF InitForkserver, IInv, Typed, PlacesTyped, WithServer, Alone, VerdictStands,
           VerdictIsCause, ForkServerServes, ServerEnds
  <1>7. mode'.forkserver => WithServer'
    BY DEF InitForkserver, IInv, Typed, FlagsTyped, PlacesTyped, PipesTyped, ProcsTyped,
           WithServer, DialogueAtStart, DialogueInRun, Quiet, Lives, WhoKilled, BetweenRuns, ServerEnds
  <1>8. ~mode'.forkserver => Alone'
    BY DEF InitForkserver, IInv, Typed, FlagsTyped, PlacesTyped, PipesTyped, ProcsTyped, Alone
  <1> QED BY <1>1, <1>2, <1>3, <1>4, <1>5, <1>6, <1>7, <1>8 DEF IInv, Typed

(* The timer of the start is disarmed.                                     *)
LEMMA HelloReadIInv ==
  ASSUME IInv, HelloRead
  PROVE  IInv'
  <1>1. FlagsTyped'
    BY DEF HelloRead, IInv, Typed, FlagsTyped
  <1>2. PlacesTyped'
    BY ZenonT(30) DEF HelloRead, IInv, Typed, PlacesTyped
  <1>3. PipesTyped'
    BY DEF HelloRead, IInv, Typed, PipesTyped
  <1>4. ProcsTyped'
    BY DEF HelloRead, IInv, Typed, ProcsTyped
  <1>5. NumbersInOrder'
    BY DEF HelloRead, IInv, NumbersInOrder, WillSpawn, WithServer, Alone, DialogueInRun
  <1>6. VerdictStands' /\ ForkServerServes'
    BY DEF HelloRead, IInv, Typed, PlacesTyped, WithServer, Alone, VerdictStands, VerdictIsCause,
           ForkServerServes, ServerEnds
  <1>7. mode'.forkserver => WithServer'
    BY DEF HelloRead, IInv, Typed, FlagsTyped, PlacesTyped, PipesTyped, ProcsTyped, WithServer,
           DialogueAtStart, DialogueInRun, Quiet, Lives, WhoKilled, BetweenRuns, ServerEnds
  <1>8. ~mode'.forkserver => Alone'
    BY DEF HelloRead, IInv, Typed, FlagsTyped, PlacesTyped, PipesTyped, ProcsTyped, Alone
  <1> QED BY <1>1, <1>2, <1>3, <1>4, <1>5, <1>6, <1>7, <1>8 DEF IInv, Typed

(* The timer is armed when the process number is known.                    *)
LEMMA ArmTimerIInv ==
  ASSUME IInv, ArmTimer
  PROVE  IInv'
  <1>1. FlagsTyped'
    BY DEF ArmTimer, IInv, Typed, FlagsTyped
  <1>2. PlacesTyped'
    BY DEF ArmTimer, IInv, Typed, PlacesTyped
  <1>3. PipesTyped'
    BY DEF ArmTimer, IInv, Typed, PipesTyped
  <1>4. ProcsTyped'
    BY DEF ArmTimer, IInv, Typed, ProcsTyped
  <1>5. NumbersInOrder'
    BY DEF ArmTimer, IInv, NumbersInOrder, WillSpawn, WithServer, Alone, DialogueInRun
  <1>6. VerdictStands' /\ ForkServerServes'
    BY DEF ArmTimer, IInv, Typed, PlacesTyped, WithServer, Alone, VerdictStands, VerdictIsCause,
           ForkServerServes, ServerEnds
  <1>7. mode'.forkserver => WithServer'
    BY DEF ArmTimer, IInv, Typed, FlagsTyped, PlacesTyped, PipesTyped, ProcsTyped, WithServer,
           DialogueAtStart, DialogueInRun, Quiet, Lives, WhoKilled, BetweenRuns, ServerEnds
  <1>8. ~mode'.forkserver => Alone'
    BY DEF ArmTimer, IInv, Typed, FlagsTyped, PlacesTyped, PipesTyped, ProcsTyped, Alone
  <1> QED BY <1>1, <1>2, <1>3, <1>4, <1>5, <1>6, <1>7, <1>8 DEF IInv, Typed

(* The runner is gone: its status is awaited.                              *)
LEMMA AwaitEndIInv ==
  ASSUME IInv, AwaitEnd
  PROVE  IInv'
  <1>1. FlagsTyped'
    BY DEF AwaitEnd, IInv, Typed, FlagsTyped
  <1>2. PlacesTyped'
    BY DEF AwaitEnd, IInv, Typed, PlacesTyped
  <1>3. PipesTyped'
    BY DEF AwaitEnd, IInv, Typed, PipesTyped
  <1>4. ProcsTyped'
    BY DEF AwaitEnd, IInv, Typed, ProcsTyped
  <1>5. NumbersInOrder'
    BY DEF AwaitEnd, IInv, NumbersInOrder, WillSpawn, WithServer, Alone, DialogueInRun
  <1>6. VerdictStands' /\ ForkServerServes'
    BY DEF AwaitEnd, IInv, Typed, PlacesTyped, WithServer, Alone, VerdictStands, VerdictIsCause,
           ForkServerServes, ServerEnds
  <1>7. mode'.forkserver => WithServer'
    BY DEF AwaitEnd, IInv, Typed, FlagsTyped, PlacesTyped, PipesTyped, ProcsTyped, WithServer,
           DialogueAtStart, DialogueInRun, Quiet, Lives, WhoKilled, BetweenRuns, ServerEnds
  <1>8. ~mode'.forkserver => Alone'
    BY DEF AwaitEnd, IInv, Typed, FlagsTyped, PlacesTyped, PipesTyped, ProcsTyped, Alone
  <1> QED BY <1>1, <1>2, <1>3, <1>4, <1>5, <1>6, <1>7, <1>8 DEF IInv, Typed

(* The timer is disarmed when the status has been read.                    *)
LEMMA DisarmTimerIInv ==
  ASSUME IInv, DisarmTimer
  PROVE  IInv'
  <1>1. FlagsTyped'
    BY DEF DisarmTimer, IInv, Typed, FlagsTyped
  <1>2. PlacesTyped'
    BY DEF DisarmTimer, IInv, Typed, PlacesTyped
  <1>3. PipesTyped'
    BY DEF DisarmTimer, IInv, Typed, PipesTyped
  <1>4. ProcsTyped'
    BY DEF DisarmTimer, IInv, Typed, ProcsTyped
  <1>5. NumbersInOrder'
    BY DEF DisarmTimer, IInv, NumbersInOrder, WillSpawn, WithServer, Alone, DialogueInRun
  <1>6. VerdictStands' /\ ForkServerServes'
    BY DEF DisarmTimer, IInv, Typed, PlacesTyped, WithServer, Alone, VerdictStands, VerdictIsCause,
           ForkServerServes, ServerEnds
  <1>7. mode'.forkserver => WithServer'
    BY DEF DisarmTimer, IInv, Typed, FlagsTyped, PlacesTyped, PipesTyped, ProcsTyped, WithServer,
           DialogueAtStart, DialogueInRun, Quiet, Lives, WhoKilled, BetweenRuns, ServerEnds
  <1>8. ~mode'.forkserver => Alone'
    BY DEF DisarmTimer, IInv, Typed, FlagsTyped, PlacesTyped, PipesTyped, ProcsTyped, Alone
  <1> QED BY <1>1, <1>2, <1>3, <1>4, <1>5, <1>6, <1>7, <1>8 DEF IInv, Typed

(* The callers of run_target look for a stop.                              *)
LEMMA CheckStopIInv ==
  ASSUME IInv, CheckStop
  PROVE  IInv'
  <1>1. FlagsTyped'
    BY DEF CheckStop, IInv, Typed, FlagsTyped
  <1>2. PlacesTyped'
    BY DEF CheckStop, IInv, Typed, PlacesTyped
  <1>3. PipesTyped'
    BY DEF CheckStop, IInv, Typed, PipesTyped
  <1>4. ProcsTyped'
    BY DEF CheckStop, IInv, Typed, ProcsTyped
  <1>5. NumbersInOrder'
    BY DEF CheckStop, IInv, NumbersInOrder, WillSpawn, WithServer, Alone, DialogueInRun
  <1>6. VerdictStands' /\ ForkServerServes'
    BY DEF CheckStop, IInv, Typed, PlacesTyped, WithServer, Alone, VerdictStands, VerdictIsCause,
           ForkServerServes, ServerEnds
  <1>7. mode'.forkserver => WithServer'
    BY DEF CheckStop, IInv, Typed, FlagsTyped, PlacesTyped, PipesTyped, ProcsTyped, WithServer,
           DialogueAtStart, DialogueInRun, Quiet, Lives, WhoKilled, BetweenRuns, ServerEnds
  <1>8. ~mode'.forkserver => Alone'
    BY DEF CheckStop, IInv, Typed, FlagsTyped, PlacesTyped, PipesTyped, ProcsTyped, Alone
  <1> QED BY <1>1, <1>2, <1>3, <1>4, <1>5, <1>6, <1>7, <1>8 DEF IInv, Typed

(* A stop in the dry run ends main.                                        *)
LEMMA LeaveDryRunIInv ==
  ASSUME IInv, LeaveDryRun
  PROVE  IInv'
  <1>1. FlagsTyped'
    BY DEF LeaveDryRun, IInv, Typed, FlagsTyped
  <1>2. PlacesTyped'
    BY DEF LeaveDryRun, IInv, Typed, PlacesTyped
  <1>3. PipesTyped'
    BY DEF LeaveDryRun, IInv, Typed, PipesTyped
  <1>4. ProcsTyped'
    BY DEF LeaveDryRun, IInv, Typed, ProcsTyped
  <1>5. NumbersInOrder'
    BY DEF LeaveDryRun, IInv, NumbersInOrder, WillSpawn, WithServer, Alone, DialogueInRun
  <1>6. VerdictStands' /\ ForkServerServes'
    BY DEF LeaveDryRun, IInv, Typed, PlacesTyped, WithServer, Alone, VerdictStands, VerdictIsCause,
           ForkServerServes, ServerEnds
  <1>7. mode'.forkserver => WithServer'
    BY DEF LeaveDryRun, IInv, Typed, FlagsTyped, PlacesTyped, PipesTyped, ProcsTyped, WithServer,
           DialogueAtStart, DialogueInRun, Quiet, Lives, WhoKilled, BetweenRuns, ServerEnds
  <1>8. ~mode'.forkserver => Alone'
    BY DEF LeaveDryRun, IInv, Typed, FlagsTyped, PlacesTyped, PipesTyped, ProcsTyped, Alone
  <1> QED BY <1>1, <1>2, <1>3, <1>4, <1>5, <1>6, <1>7, <1>8 DEF IInv, Typed

(* main waits for a server that is dead.                                   *)
LEMMA WaitForkServerIInv ==
  ASSUME IInv, WaitForkServer
  PROVE  IInv'
  <1>1. FlagsTyped'
    BY DEF WaitForkServer, IInv, Typed, FlagsTyped
  <1>2. PlacesTyped'
    BY DEF WaitForkServer, IInv, Typed, PlacesTyped
  <1>3. PipesTyped'
    BY DEF WaitForkServer, IInv, Typed, PipesTyped
  <1>4. ProcsTyped'
    BY DEF WaitForkServer, IInv, Typed, ProcsTyped
  <1>5. NumbersInOrder'
    BY DEF WaitForkServer, IInv, NumbersInOrder, WillSpawn, WithServer, Alone, DialogueInRun
  <1>6. VerdictStands' /\ ForkServerServes'
    BY DEF WaitForkServer, IInv, Typed, PlacesTyped, WithServer, Alone, VerdictStands,
           VerdictIsCause, ForkServerServes, ServerEnds
  <1>7. mode'.forkserver => WithServer'
    BY DEF WaitForkServer, IInv, Typed, FlagsTyped, PlacesTyped, PipesTyped, ProcsTyped,
           WithServer, DialogueAtStart, DialogueInRun, Quiet, Lives, WhoKilled, BetweenRuns, ServerEnds
  <1>8. ~mode'.forkserver => Alone'
    BY DEF WaitForkServer, IInv, Typed, FlagsTyped, PlacesTyped, PipesTyped, ProcsTyped, Alone
  <1> QED BY <1>1, <1>2, <1>3, <1>4, <1>5, <1>6, <1>7, <1>8 DEF IInv, Typed

(* The dry run is over.                                                    *)
LEMMA EnterLoopIInv ==
  ASSUME IInv, EnterLoop
  PROVE  IInv'
  <1>1. FlagsTyped'
    BY DEF EnterLoop, IInv, Typed, FlagsTyped
  <1>2. PlacesTyped'
    BY DEF EnterLoop, IInv, Typed, PlacesTyped
  <1>3. PipesTyped'
    BY DEF EnterLoop, IInv, Typed, PipesTyped
  <1>4. ProcsTyped'
    BY DEF EnterLoop, IInv, Typed, ProcsTyped
  <1>5. NumbersInOrder'
    BY DEF EnterLoop, IInv, NumbersInOrder, WillSpawn, WithServer, Alone, DialogueInRun
  <1>6. VerdictStands' /\ ForkServerServes'
    BY DEF EnterLoop, IInv, Typed, PlacesTyped, WithServer, Alone, VerdictStands, VerdictIsCause,
           ForkServerServes, ServerEnds
  <1>7. mode'.forkserver => WithServer'
    BY DEF EnterLoop, IInv, Typed, FlagsTyped, PlacesTyped, PipesTyped, ProcsTyped, WithServer,
           DialogueAtStart, DialogueInRun, Quiet, Lives, WhoKilled, BetweenRuns, ServerEnds
  <1>8. ~mode'.forkserver => Alone'
    BY DEF EnterLoop, IInv, Typed, FlagsTyped, PlacesTyped, PipesTyped, ProcsTyped, Alone
  <1> QED BY <1>1, <1>2, <1>3, <1>4, <1>5, <1>6, <1>7, <1>8 DEF IInv, Typed

(* A limit of the session is reached between two runs.                     *)
LEMMA StopProgrammaticallyIInv ==
  ASSUME IInv, StopProgrammatically
  PROVE  IInv'
  <1>1. FlagsTyped'
    BY DEF StopProgrammatically, IInv, Typed, FlagsTyped
  <1>2. PlacesTyped'
    BY DEF StopProgrammatically, IInv, Typed, PlacesTyped
  <1>3. PipesTyped'
    BY DEF StopProgrammatically, IInv, Typed, PipesTyped
  <1>4. ProcsTyped'
    BY DEF StopProgrammatically, IInv, Typed, ProcsTyped
  <1>5. NumbersInOrder'
    BY DEF StopProgrammatically, IInv, NumbersInOrder, WillSpawn, WithServer, Alone, DialogueInRun
  <1>6. VerdictStands' /\ ForkServerServes'
    BY DEF StopProgrammatically, IInv, Typed, PlacesTyped, WithServer, Alone, VerdictStands,
           VerdictIsCause, ForkServerServes, ServerEnds
  <1>7. mode'.forkserver => WithServer'
    BY DEF StopProgrammatically, IInv, Typed, FlagsTyped, PlacesTyped, PipesTyped, ProcsTyped,
           WithServer, DialogueAtStart, DialogueInRun, Quiet, Lives, WhoKilled, BetweenRuns, ServerEnds
  <1>8. ~mode'.forkserver => Alone'
    BY DEF StopProgrammatically, IInv, Typed, FlagsTyped, PlacesTyped, PipesTyped, ProcsTyped, Alone
  <1> QED BY <1>1, <1>2, <1>3, <1>4, <1>5, <1>6, <1>7, <1>8 DEF IInv, Typed

(* afl-fuzz waits for its own child, once.                                 *)
LEMMA WaitForRunnerIInv ==
  ASSUME IInv, WaitForRunner
  PROVE  IInv'
  <1>0. /\ pc = "status" /\ ~mode.forkserver /\ pc' = "settle"
        /\ UNCHANGED <<mode, dry_run, runs, child_pid, child_timed_out, prev_timed_out, stop_soon,
                       timer, fault, serverVars, pipeVars>>
        /\ status' = [pid |-> child_pid, how |-> ended[child_pid]]
        /\ Reap(child_pid) /\ child_pid \in Pids /\ proc[child_pid] = "zombie" /\ Alone
    BY DEF WaitForRunner, IInv, Alone
  <1>a. /\ ProcsTyped' /\ Alive' = Alive /\ UNCHANGED ended
        /\ \A p \in Pids : proc'[p] = "none" <=> proc[p] = "none"
    BY <1>0, ReapFacts DEF IInv, Typed
  <1>1. FlagsTyped'
    BY <1>0 DEF IInv, Typed, FlagsTyped
  <1>2. PlacesTyped'
    <2>1. status'.pid \in Pids \cup {0}
      BY <1>0
    <2>2. UNCHANGED <<mode, runs, stop_soon, fs, child_pid, fs_child_pid, fault>> /\ pc' = "settle"
      BY <1>0
    <2> QED BY <2>1, <2>2 DEF IInv, Typed, PlacesTyped
  <1>3. PipesTyped'
    BY <1>0 DEF IInv, Typed, PipesTyped
  <1>4. NumbersInOrder'
    BY <1>0, <1>a, NumbersFrame DEF IInv, WillSpawn
  <1>5. VerdictStands' /\ ForkServerServes'
    BY <1>0 DEF IInv, VerdictStands, VerdictIsCause, ForkServerServes
  <1>6. Alone'
    <2>1. Alive = {}
      BY <1>0 DEF Alone
    <2>2. status'.pid = child_pid /\ status'.how = ended'[child_pid]
      BY <1>0, <1>a
    <2> QED BY <1>0, <1>a, <2>1, <2>2 DEF Alone
  <1> QED BY <1>0, <1>a, <1>1, <1>2, <1>3, <1>4, <1>5, <1>6 DEF IInv, Typed

(* The server dies when afl-fuzz is gone.                                  *)
LEMMA FsAloneIInv ==
  ASSUME IInv, FsAlone
  PROVE  IInv'
  <1>1. FlagsTyped'
    BY DEF FsAlone, KillForkServer, IInv, Typed, FlagsTyped
  <1>2. PlacesTyped'
    BY DEF FsAlone, KillForkServer, IInv, Typed, PlacesTyped
  <1>3. PipesTyped'
    BY DEF FsAlone, KillForkServer, IInv, Typed, PipesTyped
  <1>4. ProcsTyped'
    BY DEF FsAlone, KillForkServer, IInv, Typed, ProcsTyped
  <1>5. NumbersInOrder'
    BY DEF FsAlone, KillForkServer, IInv, NumbersInOrder, WillSpawn, WithServer, Alone, DialogueInRun
  <1>6. VerdictStands' /\ ForkServerServes'
    BY DEF FsAlone, KillForkServer, IInv, Typed, PlacesTyped, WithServer, Alone, VerdictStands,
           VerdictIsCause, ForkServerServes, ServerEnds
  <1>7. mode'.forkserver => WithServer'
    BY DEF FsAlone, KillForkServer, IInv, Typed, FlagsTyped, PlacesTyped, PipesTyped, ProcsTyped,
           WithServer, DialogueAtStart, DialogueInRun, Quiet, Lives, WhoKilled, BetweenRuns, ServerEnds
  <1>8. ~mode'.forkserver => Alone'
    BY DEF FsAlone, KillForkServer, IInv, Typed, FlagsTyped, PlacesTyped, PipesTyped, ProcsTyped, Alone
  <1> QED BY <1>1, <1>2, <1>3, <1>4, <1>5, <1>6, <1>7, <1>8 DEF IInv, Typed
-----------------------------------------------------------------------------
(* The specification                                                       *)

(* Nothing happens.                                                        *)
LEMMA StutterIInv ==
  ASSUME IInv, UNCHANGED vars
  PROVE  IInv'
  <1>1. UNCHANGED <<mode, pc, dry_run, runs, child_pid, child_timed_out, prev_timed_out, stop_soon,
                    timer, status, fault, fs, fs_child_pid, child_stopped, fs_end, ctl, st,
                    proc, ended, sigterm>>
    BY DEF vars
  <1>2. Typed'
    <2>1. FlagsTyped' /\ PipesTyped'
      BY <1>1 DEF IInv, Typed, FlagsTyped, PipesTyped
    <2>2. PlacesTyped'
      BY <1>1, PlacesFrame DEF IInv, Typed, PlacesTyped
    <2>3. ProcsTyped'
      BY <1>1 DEF IInv, Typed, ProcsTyped
    <2> QED BY <2>1, <2>2, <2>3 DEF Typed
  <1>3. NumbersInOrder' /\ VerdictStands' /\ ForkServerServes'
    <2>1. NumbersInOrder'
      BY <1>1 DEF IInv, NumbersInOrder, WillSpawn
    <2>2. VerdictStands'
      BY <1>1 DEF IInv, VerdictStands, VerdictIsCause
    <2>3. ForkServerServes'
      BY <1>1 DEF IInv, ForkServerServes
    <2> QED BY <2>1, <2>2, <2>3
  <1>4. mode'.forkserver => WithServer'
    <2> SUFFICES ASSUME WithServer PROVE WithServer'
      BY <1>1 DEF IInv
    <2>0. DialogueAtStart /\ DialogueInRun /\ Quiet
      BY DEF WithServer
    <2>1. DialogueAtStart' /\ DialogueInRun' /\ Quiet'
      <3> HIDE DEF Taken, Relay, Halted
      <3>1. Relay' = Relay
        BY <1>1 DEF Relay
      <3>2. DialogueAtStart'
        BY <1>1, <2>0, <3>1 DEF DialogueAtStart
      <3>3. DialogueInRun'
        <4>1. /\ pc' = pc /\ fs' = fs /\ ctl' = ctl /\ st' = st /\ fs_end' = fs_end
              /\ stop_soon' = stop_soon /\ prev_timed_out' = prev_timed_out
              /\ child_pid' = child_pid /\ fs_child_pid' = fs_child_pid
              /\ Taken' = Taken
          BY <1>1 DEF Taken
        <4> QED BY <1>1, <2>0, <3>1, <4>1, Zenon DEF DialogueInRun
      <3>4. Quiet'
        BY <1>1, <2>0, <3>1 DEF Quiet
      <3> QED BY <3>2, <3>3, <3>4
    <2>2. Lives' /\ WhoKilled'
      BY <1>1 DEF WithServer, Lives, WhoKilled, BetweenRuns
    <2>3. ServerEnds'
      BY <1>1 DEF WithServer, ServerEnds
    <2> QED BY <1>1, <2>1, <2>2, <2>3 DEF WithServer
  <1>5. ~mode'.forkserver => Alone'
    BY <1>1 DEF IInv, Alone
  <1> QED BY <1>2, <1>3, <1>4, <1>5 DEF IInv

(* The start satisfies the invariant.                                      *)
LEMMA InitIInv == Init => IInv
  <1> SUFFICES ASSUME Init PROVE IInv
    OBVIOUS
  <1>1. /\ mode \in Modes /\ MaxRuns \in Nat
        /\ pc = IF mode.forkserver THEN "init_forkserver" ELSE "idle"
        /\ \A p \in Pids : proc[p] = "none" /\ ended[p] = ""
        /\ Alive = {}
    BY DEF Init
  <1>2. mode.forkserver \in BOOLEAN
    BY <1>1
  <1>3. Typed
    <2>1. FlagsTyped
      BY DEF Init, FlagsTyped
    <2>2. PlacesTyped
      <3>1. runs \in 0 .. MaxRuns /\ stop_soon = 0 /\ child_pid = -1 /\ fs_child_pid = 0
        <4>1. runs = 0 /\ stop_soon = 0 /\ child_pid = -1 /\ fs_child_pid = 0
          BY DEF Init
        <4>2. 0 \in 0 .. MaxRuns
          <5>1. MaxRuns \in Nat
            OBVIOUS
          <5> QED BY <5>1, SMT
        <4> QED BY <4>1, <4>2
      <3>2. fs = "none" /\ fault = "" /\ status.pid = 0
        BY DEF Init
      <3>3. pc \in {"init_forkserver", "idle"}
        BY <1>1
      <3> QED BY <1>1, <3>1, <3>2, <3>3 DEF PlacesTyped
    <2>3. PipesTyped
      <3>1. ctl = <<>> /\ st = <<>>
        BY DEF Init
      <3>2. ctl \in Seq(BOOLEAN) /\ st \in Seq(Message) /\ Len(ctl) = 0 /\ Len(st) = 0
        BY <3>1, PipeFacts
      <3> QED BY <3>2 DEF PipesTyped
    <2>4. ProcsTyped
      BY <1>1 DEF Init, ProcsTyped
    <2> QED BY <2>1, <2>2, <2>3, <2>4 DEF Typed
  <1>4. NumbersInOrder
    <2>0. runs = 0
      BY DEF Init
    <2>1. 0 \in 0 .. runs /\ ~WillSpawn
      <3>1. 0 \in 0 .. runs
        BY <2>0
      <3> QED BY <1>1, <1>2, <3>1 DEF WillSpawn
    <2>2. \A p \in Pids : proc[p] # "none" <=> p <= 0
      <3>1. \A p \in Pids : ~(p <= 0)
        OBVIOUS
      <3> QED BY <1>1, <3>1
    <2> QED BY <2>1, <2>2 DEF NumbersInOrder
  <1>5. VerdictStands /\ ForkServerServes
    BY <1>1, <1>2 DEF Init, VerdictStands, VerdictIsCause, ForkServerServes
  <1>6. ASSUME mode.forkserver PROVE WithServer
    <2>1. pc = "init_forkserver" /\ fs = "none" /\ fs_end = "" /\ ctl = <<>> /\ st = <<>>
          /\ child_pid = -1 /\ ~child_stopped /\ ~timer /\ ~child_timed_out
      BY <1>1, <1>6 DEF Init
    <2>2. DialogueAtStart /\ DialogueInRun /\ Quiet
      BY <2>1 DEF DialogueAtStart, DialogueInRun, Quiet
    <2>3. Lives /\ WhoKilled /\ ServerEnds
      BY <1>1, <2>1 DEF Lives, WhoKilled, ServerEnds
    <2> QED BY <2>1, <2>2, <2>3 DEF WithServer
  <1>7. ASSUME ~mode.forkserver PROVE Alone
    BY <1>1, <1>7 DEF Init, Alone
  <1> QED BY <1>3, <1>4, <1>5, <1>6, <1>7 DEF IInv

(* Every step of every process keeps it.                                   *)
LEMMA NextIInv ==
  ASSUME IInv, [Next]_vars
  PROVE  IInv'
  <1>1. CASE Fuzzer
    BY <1>1, InitForkserverIInv, ReadHelloIInv, HelloReadIInv, RunTargetIInv, RequestIInv, ReadPidIInv,
       ForkIInv, ArmTimerIInv, SessionIInv, AwaitEndIInv, ReadStatusIInv, WaitForRunnerIInv,
       SettleIInv, DisarmTimerIInv, ReportIInv, CheckStopIInv, LeaveLoopIInv, LeaveDryRunIInv,
       WaitForkServerIInv DEF Fuzzer
  <1>2. CASE ForkServer
    BY <1>2, FsReadIInv, FsWriteOffIInv, FsSpawnIInv, FsWritePidIInv, FsWaitIInv, FsAloneIInv
       DEF ForkServer
  <1>3. CASE FsHello \/ Runner \/ OrphanReaped
    BY <1>3, FsHelloIInv, RunnerIInv, OrphanReapedIInv
  <1>4. CASE EnterLoop \/ HandleTimeout \/ HandleStopSig \/ StopProgrammatically
    BY <1>4, EnterLoopIInv, HandleTimeoutIInv, HandleStopSigIInv, StopProgrammaticallyIInv
  <1>5. CASE Exited \/ UNCHANGED vars
    BY <1>5, StutterIInv DEF Exited
  <1> QED BY <1>1, <1>2, <1>3, <1>4, <1>5 DEF Next

(* Whatever signals, timers, exits and stops race, both programs stay inside *)
(* the table of their dialogue.                                            *)
THEOREM Invariance == Spec => []IInv
  BY InitIInv, NextIInv, PTL DEF Spec

(* Every variable keeps its type; the pipes hold at most one request and two *)
(* messages.                                                               *)
THEOREM TypeCorrect == Spec => []TypeOK
  <1>1. IInv => TypeOK
    BY TypedIsTypeOK DEF IInv
  <1> QED BY <1>1, Invariance, PTL

(* run_target reports a crash only of a runner that crashed by itself, and a *)
(* timeout of the one its timer killed before it was reported.             *)
THEOREM VerdictsAreCauses == Spec => []VerdictIsCause
  <1>1. IInv => VerdictIsCause
    BY DEF IInv, VerdictStands
  <1> QED BY <1>1, Invariance, PTL

(* The table bounds who lives.                                             *)
LEMMA OneRunnerLives == IInv => OneRunner
  <1> SUFFICES ASSUME IInv PROVE OneRunner
    OBVIOUS
  <1>1. PICK q : Alive \subseteq {q} /\ (pc \in PcOfRun => q = child_pid)
    <2>1. CASE mode.forkserver
      BY <2>1 DEF IInv, WithServer, Lives, DialogueInRun
    <2>2. CASE ~mode.forkserver /\ pc \in {"arm"} \cup PcOfRun
      BY <2>2 DEF IInv, Alone
    <2>3. CASE ~mode.forkserver /\ pc \notin {"arm"} \cup PcOfRun
      BY <2>3 DEF IInv, Alone
    <2> QED BY <2>1, <2>2, <2>3
  <1>2. Cardinality(Alive) <= 1
    <2>1. Alive = {} \/ Alive = {q}
      BY <1>1
    <2>2. Cardinality({}) = 0 /\ Cardinality({q}) = 1
      BY FS_EmptySet, FS_Singleton
    <2> HIDE DEF Alive
    <2> QED BY <2>1, <2>2
  <1> QED BY <1>1, <1>2 DEF OneRunner

(* Two runners never live at once, the one that lives while afl-fuzz talks to *)
(* the server is the one it would kill, the fork server never waits for a  *)
(* process twice, and afl-fuzz aborts only for a failed fork or an expired start. *)
THEOREM AgreeOnRunner == Spec => []ProcessesAgree
  <1>1. IInv => ProcessesAgree
    BY TypedIsTypeOK, OneRunnerLives DEF IInv, ProcessesAgree
  <1> QED BY <1>1, Invariance, PTL

-----------------------------------------------------------------------------
(* The order of tokens, from where on nothing of the fork server is used   *)

HIDE ForkServerAssumption
HIDE DEF Pids, Alive, Ends, NoStatus, Halted, Signalled, Taken, Relay, ForkServerUp,
         PcOfStart, PcOfRun, PcOfEnd, PcOfRest, fuzzerVars, serverVars, pipeVars, procVars

(* A set of numbers that is not empty has a least element.                 *)
LEMMA LeastElement ==
    ASSUME NEW T \in SUBSET Nat, T # {}
    PROVE  \E m \in T : \A k \in T : m <= k
<1> DEFINE R == {ss \in Nat \X Nat : ss[1] < ss[2]}
<1>1. IsWellFoundedOn(R, Nat)
  BY NatLessThanWellFounded DEF OpToRel
<1> HIDE DEF R
<1>2. PICK m \in T : \A k \in T : ~(<<k, m>> \in R)
  BY <1>1, WFMin
<1>3. \A k \in T : ~(k < m)
  BY <1>2 DEF R
<1> QED
  BY <1>3

(* A function over 1..n is a sequence.                                     *)
LEMMA FunctionIsSeq ==
    ASSUME NEW S, NEW n \in Nat, NEW f \in [1..n -> S]
    PROVE  f \in Seq(S) /\ Len(f) = n
OBVIOUS

(* t has the n elements of s in the places that p gives them.              *)
Permutes(p, t, s, D, n) ==
    /\ p \in [1..n -> D] /\ \A k \in 1..n : t[k] = s[p[k]]
    /\ \A j, k \in 1..n : p[j] = p[k] => j = k
    /\ \A y \in D : \E k \in 1..n : p[k] = y

(* An arrangement is a sequence of all that is arranged, nothing twice.    *)
LEMMA ArrangementFacts ==
    ASSUME NEW D, IsFiniteSet(D), NEW n \in Nat, n = Cardinality(D),
           NEW S, NEW s \in [D -> S], NEW t \in Arrangements(s)
    PROVE  /\ t \in Seq(S) /\ Len(t) = n
           /\ \E p : Permutes(p, t, s, D, n)
<1>1. DOMAIN s = D
  OBVIOUS
<1>2. PICK p \in SetToSeqs(D) : t = [k \in 1..n |-> s[p[k]]]
  BY <1>1 DEF Arrangements
<1>3. p \in [1..n -> D] /\ \A j, k \in 1..n : p[j] = p[k] => j = k
  BY <1>2 DEF SetToSeqs
<1>4. \A k \in 1..n : s[p[k]] \in S
  BY <1>3
<1>5. t \in [1..n -> S]
  BY <1>2, <1>4
<1>6. t \in Seq(S) /\ Len(t) = n
  BY <1>5, FunctionIsSeq
<1>7. p \in Injection(1..n, D)
  BY <1>3 DEF Injection, IsInjective
<1>8. IsFiniteSet(1..n) /\ Cardinality(1..n) = n
  BY FS_Interval
<1>9. p \in Surjection(1..n, D)
  BY <1>7, <1>8, FS_Injection
<1>10. \A y \in D : \E k \in 1..n : p[k] = y
  BY <1>9 DEF Surjection
<1>11. \A k \in 1..n : t[k] = s[p[k]]
  BY <1>2
<1>12. Permutes(p, t, s, D, n)
  BY <1>3, <1>10, <1>11 DEF Permutes
<1> QED
  BY <1>6, <1>12

(* Of a sequence it is a permutation.                                      *)
LEMMA PermutationFacts ==
    ASSUME NEW S, NEW s \in Seq(S), NEW t \in Arrangements(s)
    PROVE  /\ t \in Seq(S) /\ Len(t) = Len(s)
           /\ \E p : Permutes(p, t, s, 1..Len(s), Len(s))
<1>1. Len(s) \in Nat /\ s \in [1..Len(s) -> S]
  BY LenProperties
<1>2. IsFiniteSet(1..Len(s)) /\ Cardinality(1..Len(s)) = Len(s)
  BY <1>1, FS_Interval
<1> DEFINE n == Len(s)
           D == 1..n
<1>3. IsFiniteSet(D) /\ n \in Nat /\ n = Cardinality(D) /\ s \in [D -> S]
  BY <1>1, <1>2
<1> HIDE DEF n, D
<1>4. t \in Seq(S) /\ Len(t) = n /\ \E p : Permutes(p, t, s, D, n)
  BY <1>3, ArrangementFacts
<1> QED
  BY <1>4 DEF n, D

-----------------------------------------------------------------------------
(* The list of tokens that are found                                       *)

Entries == [data : Seq(Byte), hit_cnt : Nat]

(* Behind the tokens in use, no token has more hits than one before it.    *)
UsedFirst(list) ==
    \A j, k \in DOMAIN list :
        j < k /\ k > USE_AUTO_EXTRAS => list[j].hit_cnt >= list[k].hit_cnt

(* The two sorts of maybe_add_auto lose no token and double none; the      *)
(* tokens in use are the most used ones, and are in the order of length.   *)
LEMMA SortFacts ==
    ASSUME NEW list \in Seq(Entries), NEW t \in SortTokens(list)
    PROVE  /\ t \in Seq(Entries) /\ Len(t) = Len(list)
           /\ \E p : Permutes(p, t, list, 1..Len(list), Len(list))
           /\ Ordered(Saved(t)) /\ UsedFirst(t)
<1> DEFINE n == Len(list)
           top == Shorter(USE_AUTO_EXTRAS, n)
<1>1. n \in Nat /\ top \in 0..n /\ top <= USE_AUTO_EXTRAS /\ (top = n \/ top = USE_AUTO_EXTRAS)
  BY LenProperties, SizesAssumption DEF Shorter
<1>2. PICK byUse \in Arrangements(list) :
        /\ MostUsedFirst(byUse)
        /\ \E h \in Arrangements(SubSeq(byUse, 1, top)) :
              Ordered(Saved(h)) /\ t = h \o SubSeq(byUse, top + 1, n)
  BY DEF SortTokens
<1>3. byUse \in Seq(Entries) /\ Len(byUse) = n
  BY <1>2, PermutationFacts
<1>4. PICK q : Permutes(q, byUse, list, 1..n, n)
  BY <1>2, PermutationFacts
<1> DEFINE first == SubSeq(byUse, 1, top)
           rest  == SubSeq(byUse, top + 1, n)
<1>5. DOMAIN byUse = 1..n /\ \A k \in 1..n : byUse[k] \in Entries
  BY <1>3, LenProperties, ElementOfSeq
<1>6. first \in Seq(Entries) /\ Len(first) = top /\ \A k \in 1..top : first[k] = byUse[k]
  <2>1. \A k \in 1..top : byUse[k] \in Entries
    BY <1>1, <1>5
  <2>2. /\ first \in Seq(Entries)
        /\ Len(first) = IF 1 <= top THEN top - 1 + 1 ELSE 0
        /\ \A k \in 1..top - 1 + 1 : first[k] = byUse[1 + k - 1]
    <3> HIDE DEF n, top
    <3> QED
      BY <1>1, <2>1, SubSeqProperties
  <2> HIDE DEF n, top, first
  <2> QED
    BY <1>1, <2>2
<1>7. /\ rest \in Seq(Entries) /\ Len(rest) = n - top
      /\ \A k \in 1..n - top : rest[k] = byUse[top + k]
  <2>1. \A k \in top + 1..n : byUse[k] \in Entries
    BY <1>1, <1>5
  <2>2. /\ rest \in Seq(Entries)
        /\ Len(rest) = IF top + 1 <= n THEN n - (top + 1) + 1 ELSE 0
        /\ \A k \in 1..n - (top + 1) + 1 : rest[k] = byUse[top + 1 + k - 1]
    <3> HIDE DEF n, top
    <3> QED
      BY <1>1, <2>1, SubSeqProperties
  <2> HIDE DEF n, top, rest
  <2> QED
    BY <1>1, <2>2
<1>8. PICK h \in Arrangements(first) : Ordered(Saved(h)) /\ t = h \o rest
  BY <1>2
<1>9. h \in Seq(Entries) /\ Len(h) = top
  <2> HIDE DEF first, top
  <2> QED
    BY <1>6, <1>8, PermutationFacts
<1>10. PICK r : Permutes(r, h, first, 1..top, top)
  <2> HIDE DEF first, top
  <2>1. \E p : Permutes(p, h, first, 1..Len(first), Len(first))
    BY <1>6, <1>8, PermutationFacts
  <2> QED
    BY <1>6, <2>1
<1> HIDE DEF first, rest, n, top
<1>11. /\ t \in Seq(Entries) /\ Len(t) = n
       /\ \A k \in 1..n : t[k] = IF k <= top THEN byUse[r[k]] ELSE byUse[k]
  <2>1. /\ t \in Seq(Entries) /\ Len(t) = top + (n - top)
        /\ \A k \in 1..top + (n - top) : t[k] = IF k <= top THEN h[k] ELSE rest[k - top]
    <3>1. rest \in Seq(Entries) /\ Len(rest) = n - top
      BY <1>7
    <3>2. /\ h \o rest \in Seq(Entries) /\ Len(h \o rest) = Len(h) + Len(rest)
          /\ \A k \in 1..Len(h) + Len(rest) :
               (h \o rest)[k] = IF k <= Len(h) THEN h[k] ELSE rest[k - Len(h)]
      BY <1>9, <3>1, ConcatProperties
    <3> QED
      BY <1>8, <1>9, <3>1, <3>2
  <2>2. \A k \in 1..top : h[k] = byUse[r[k]]
    BY <1>6, <1>10 DEF Permutes
  <2>3. top + (n - top) = n /\ \A k \in 1..n : k > top => rest[k - top] = byUse[k]
    <3> SUFFICES ASSUME NEW k \in 1..n, k > top PROVE rest[k - top] = byUse[k]
      BY <1>1
    <3>1. k - top \in 1..n - top /\ top + (k - top) = k
      BY <1>1
    <3> QED
      BY <1>7, <3>1
  <2>4. ASSUME NEW k \in 1..n PROVE t[k] = IF k <= top THEN byUse[r[k]] ELSE byUse[k]
    <3>1. t[k] = IF k <= top THEN h[k] ELSE rest[k - top]
      BY <2>1, <2>3
    <3>2. CASE k <= top
      <4>1. k \in 1..top
        BY <1>1, <3>2
      <4> QED
        BY <2>2, <3>1, <3>2, <4>1
    <3>3. CASE ~(k <= top)
      BY <1>1, <2>3, <3>1, <3>3
    <3> QED
      BY <3>2, <3>3
  <2> QED
    BY <2>1, <2>3, <2>4
<1>12. DOMAIN t = 1..n
  BY <1>11, LenProperties
<1>13. /\ \A k \in 1..top : r[k] \in 1..top
       /\ \A j, k \in 1..top : r[j] = r[k] => j = k
       /\ \A y \in 1..top : \E k \in 1..top : r[k] = y
  BY <1>10 DEF Permutes
<1>14. \E p : Permutes(p, t, list, 1..n, n)
  <2> DEFINE p == [k \in 1..n |-> q[IF k <= top THEN r[k] ELSE k]]
  <2>1. /\ q \in [1..n -> 1..n] /\ \A k \in 1..n : byUse[k] = list[q[k]]
        /\ \A j, k \in 1..n : q[j] = q[k] => j = k
        /\ \A y \in 1..n : \E k \in 1..n : q[k] = y
    BY <1>4 DEF Permutes
  <2> DEFINE Place(k) == IF k <= top THEN r[k] ELSE k
  <2>2. \A k \in 1..n : Place(k) \in 1..n /\ (Place(k) <= top <=> k <= top)
    <3> SUFFICES ASSUME NEW k \in 1..n
                 PROVE  Place(k) \in 1..n /\ (Place(k) <= top <=> k <= top)
      OBVIOUS
    <3>1. CASE k <= top
      <4>1. r[k] \in 1..top /\ Place(k) = r[k]
        BY <1>1, <1>13, <3>1
      <4> QED
        BY <1>1, <3>1, <4>1
    <3>2. CASE ~(k <= top)
      BY <3>2
    <3> QED
      BY <3>1, <3>2
  <2>3. \A j, k \in 1..n : Place(j) = Place(k) => j = k
    <3> SUFFICES ASSUME NEW j \in 1..n, NEW k \in 1..n, Place(j) = Place(k) PROVE j = k
      OBVIOUS
    <3>1. j <= top <=> k <= top
      BY <2>2
    <3> QED
      BY <1>1, <1>13, <3>1
  <2>4. \A y \in 1..n : \E k \in 1..n : Place(k) = y
    <3> SUFFICES ASSUME NEW y \in 1..n PROVE \E k \in 1..n : Place(k) = y
      OBVIOUS
    <3>1. CASE y <= top
      <4>1. PICK k \in 1..top : r[k] = y
        BY <1>13, <3>1
      <4> QED
        BY <1>1, <4>1
    <3> QED
      BY <3>1
  <2>5. p = [k \in 1..n |-> q[Place(k)]]
    OBVIOUS
  <2>6. \A k \in 1..n : t[k] = byUse[Place(k)]
    BY <1>11
  <2> HIDE DEF p, Place
  <2>7. p \in [1..n -> 1..n] /\ \A k \in 1..n : p[k] = q[Place(k)] /\ t[k] = list[p[k]]
    BY <2>1, <2>2, <2>5, <2>6
  <2>8. \A j, k \in 1..n : p[j] = p[k] => j = k
    <3> SUFFICES ASSUME NEW j \in 1..n, NEW k \in 1..n, p[j] = p[k] PROVE j = k
      OBVIOUS
    <3>1. q[Place(j)] = q[Place(k)]
      BY <2>7
    <3>2. Place(j) = Place(k)
      BY <2>1, <2>2, <3>1
    <3> QED
      BY <2>3, <3>2
  <2>9. \A y \in 1..n : \E k \in 1..n : p[k] = y
    <3> SUFFICES ASSUME NEW y \in 1..n PROVE \E k \in 1..n : p[k] = y
      OBVIOUS
    <3>1. PICK m \in 1..n : q[m] = y
      BY <2>1
    <3>2. PICK k \in 1..n : Place(k) = m
      BY <2>4
    <3> QED
      BY <2>7, <3>1, <3>2
  <2>10. Permutes(p, t, list, 1..n, n)
    BY <2>7, <2>8, <2>9 DEF Permutes
  <2> QED
    BY <2>10
<1>15. Ordered(Saved(t))
  <2>1. Shorter(USE_AUTO_EXTRAS, Len(h)) = top /\ Shorter(USE_AUTO_EXTRAS, Len(t)) = top
    BY <1>1, <1>9, <1>11, SizesAssumption DEF Shorter, top
  <2>2. \A k \in 1..top : t[k] = h[k]
    BY <1>1, <1>8, <1>9, <1>7, ConcatProperties
  <2>3. Saved(t) = Saved(h)
    BY <2>1, <2>2 DEF Saved
  <2> QED
    BY <1>8, <2>3
<1>16. UsedFirst(t)
  <2> SUFFICES ASSUME NEW j \in 1..n, NEW k \in 1..n, j < k, k > USE_AUTO_EXTRAS
               PROVE  t[j].hit_cnt >= t[k].hit_cnt
    BY <1>12 DEF UsedFirst
  <2>1. k > top
    BY <1>1, SizesAssumption
  <2>2. t[k] = byUse[k]
    BY <1>1, <1>11, <2>1
  <2>3. PICK i \in 1..n : i < k /\ t[j] = byUse[i]
    <3>1. CASE j <= top
      <4>1. r[j] \in 1..n /\ r[j] < k /\ t[j] = byUse[r[j]]
        <5>1. j \in 1..top /\ r[j] \in 1..top
          BY <1>1, <1>13, <3>1
        <5> QED
          BY <1>1, <1>11, <2>1, <3>1, <5>1
      <4> QED
        BY <4>1
    <3>2. CASE j > top
      BY <1>1, <1>11, <3>2
    <3> QED
      BY <1>1, <3>1, <3>2
  <2>4. byUse[i].hit_cnt >= byUse[k].hit_cnt
    BY <1>2, <1>5, <2>3 DEF MostUsedFirst
  <2> QED
    BY <2>2, <2>3, <2>4
<1> QED
  BY <1>11, <1>14, <1>15, <1>16 DEF n

(* A token that maybe_add_auto takes.                                      *)
Worthy(mem) == mem \in Seq(Byte) /\ Readable(mem) /\ ~IsRun(mem) /\ ~Builtin(mem)

NoTwins(list) == \A j, k \in DOMAIN list : Same(list[j].data, list[k].data) => j = k

(* What holds of the list in any order.                                    *)
Distinct(list) ==
    /\ list \in Seq(Entries) /\ Len(list) <= MAX_AUTO_EXTRAS /\ NoTwins(list)
    /\ \A k \in DOMAIN list : Worthy(list[k].data)

ListSound(list) == Distinct(list) /\ Ordered(Saved(list)) /\ UsedFirst(list)

DataOf(list) == {list[k].data : k \in DOMAIN list}

LEMMA SameFacts ==
    ASSUME NEW a, NEW b, NEW c
    PROVE  Same(a, a) /\ (Same(a, b) => Same(b, a)) /\ (Same(a, b) /\ Same(b, c) => Same(a, c))
<1>1. \A x, y : Same(x, y) <=>
        Len(x) = Len(y) /\ [k \in DOMAIN x |-> tolower[x[k]]] = [k \in DOMAIN y |-> tolower[y[k]]]
  BY DEF Same, memcmp_nocase
<1> QED
  BY <1>1, Zenon

(* Sorting takes nothing from a list and adds nothing to it.               *)
LEMMA PermutedDistinct ==
    ASSUME NEW list, Distinct(list), NEW t \in Seq(Entries), Len(t) = Len(list),
           NEW p, Permutes(p, t, list, 1..Len(list), Len(list))
    PROVE  /\ Distinct(t)
           /\ DataOf(t) = DataOf(list)
<1> DEFINE n == Len(list)
<1>1. n \in Nat /\ DOMAIN t = 1..n /\ DOMAIN list = 1..n
  BY LenProperties DEF Distinct
<1>2. /\ p \in [1..n -> 1..n] /\ \A k \in 1..n : t[k] = list[p[k]]
      /\ \A j, k \in 1..n : p[j] = p[k] => j = k
      /\ \A y \in 1..n : \E k \in 1..n : p[k] = y
  BY DEF Permutes
<1>3. NoTwins(t)
  <2> SUFFICES ASSUME NEW j \in 1..n, NEW k \in 1..n, Same(t[j].data, t[k].data) PROVE j = k
    BY <1>1 DEF NoTwins
  <2>1. Same(list[p[j]].data, list[p[k]].data) /\ p[j] \in 1..n /\ p[k] \in 1..n
    BY <1>2
  <2>2. p[j] = p[k]
    BY <1>1, <2>1 DEF Distinct, NoTwins
  <2> QED
    BY <1>2, <2>2
<1>4. \A k \in DOMAIN t : Worthy(t[k].data)
  BY <1>1, <1>2 DEF Distinct
<1>5. DataOf(t) = DataOf(list)
  <2>1. ASSUME NEW k \in 1..n PROVE \E j \in 1..n : t[k].data = list[j].data
    BY <1>2
  <2>2. ASSUME NEW k \in 1..n PROVE \E j \in 1..n : list[k].data = t[j].data
    <3>1. PICK j \in 1..n : p[j] = k
      BY <1>2
    <3> QED
      BY <1>2, <3>1
  <2>3. {t[k].data : k \in 1..n} = {list[k].data : k \in 1..n}
    <3> HIDE DEF n
    <3>1. ASSUME NEW d, d \in {t[k].data : k \in 1..n} PROVE d \in {list[k].data : k \in 1..n}
      BY <2>1, <3>1
    <3>2. ASSUME NEW d, d \in {list[k].data : k \in 1..n} PROVE d \in {t[k].data : k \in 1..n}
      BY <2>2, <3>2
    <3> QED
      BY <3>1, <3>2
  <2> QED
    BY <1>1, <2>3, Zenon DEF DataOf
<1> QED
  BY <1>3, <1>4, <1>5 DEF Distinct

(* The list that mem has come to, before it is sorted: either mem was      *)
(* known, or it is new in a list with room, or it has the place of a token *)
(* in the lower half.                                                      *)
LEMMA CountedCases ==
    ASSUME NEW list, Distinct(list), NEW mem, Worthy(mem), NEW l \in Counted(list, mem)
    PROVE  \/ \E k \in DOMAIN list : l = [list EXCEPT ![k].hit_cnt = @ + 1]
           \/ /\ Len(list) < MAX_AUTO_EXTRAS /\ l = Append(list, Token(mem))
              /\ \A j \in DOMAIN list : ~Same(list[j].data, mem)
           \/ /\ Len(list) = MAX_AUTO_EXTRAS
              /\ \A j \in DOMAIN list : ~Same(list[j].data, mem)
              /\ \E k \in BottomHalf : l = [list EXCEPT ![k] = Token(mem)]
<1> DEFINE found == {k \in DOMAIN list : Same(list[k].data, mem)}
<1>1. Len(list) \in Nat /\ DOMAIN list = 1..Len(list) /\ Len(list) <= MAX_AUTO_EXTRAS
  BY LenProperties DEF Distinct
<1>2. CASE found # {}
  <2> DEFINE first == CHOOSE k \in found : \A j \in found : k <= j
  <2>1. found \in SUBSET Nat
    BY <1>1
  <2>2. \E k \in found : \A j \in found : k <= j
    <3> HIDE DEF found
    <3> QED
      BY <1>2, <2>1, LeastElement
  <2>3. first \in found
    <3> HIDE DEF found
    <3> QED
      BY <2>2
  <2>4. l = [list EXCEPT ![first].hit_cnt = @ + 1]
    BY <1>2 DEF Counted
  <2> HIDE DEF first
  <2> QED
    BY <2>3, <2>4
<1>3. CASE found = {}
  <2>1. \A j \in DOMAIN list : ~Same(list[j].data, mem)
    BY <1>3
  <2>2. CASE Len(list) < MAX_AUTO_EXTRAS
    BY <1>3, <2>1, <2>2 DEF Counted
  <2>3. CASE ~(Len(list) < MAX_AUTO_EXTRAS)
    <3>1. Len(list) = MAX_AUTO_EXTRAS
      <4> HIDE DEF found
      <4>1. MAX_AUTO_EXTRAS \in Nat
        BY SizesAssumption
      <4>2. \A a, b \in Nat : a <= b /\ ~(a < b) => a = b
        OBVIOUS
      <4> QED
        BY <1>1, <2>3, <4>1, <4>2, Zenon
    <3>2. \E k \in BottomHalf : l = [list EXCEPT ![k] = Token(mem)]
      BY <1>3, <2>3 DEF Counted
    <3> QED
      BY <2>1, <3>1, <3>2
  <2> QED
    BY <2>2, <2>3
<1> QED
  BY <1>2, <1>3

(* The list stays without twins, and only the lower half of a full one may *)
(* lose a token.                                                           *)
LEMMA CountedFacts ==
    ASSUME NEW list, Distinct(list), NEW mem, Worthy(mem), NEW l \in Counted(list, mem)
    PROVE  /\ Distinct(l)
           /\ \A k \in DOMAIN list :
                \/ \E j \in DOMAIN l : l[j].data = list[k].data
                \/ Len(list) = MAX_AUTO_EXTRAS /\ k \in BottomHalf
<1>1. /\ Len(list) \in Nat /\ DOMAIN list = 1..Len(list) /\ Len(list) <= MAX_AUTO_EXTRAS
      /\ list \in Seq(Entries) /\ \A k \in 1..Len(list) : list[k] \in Entries
  BY LenProperties, ElementOfSeq DEF Distinct
<1>2. MAX_AUTO_EXTRAS \in Nat
  BY SizesAssumption
<1>3. Token(mem) \in Entries /\ Token(mem).data = mem
  BY DEF Token, Entries, Worthy
<1>4. /\ \A j, k \in 1..Len(list) : Same(list[j].data, list[k].data) => j = k
      /\ \A k \in 1..Len(list) : Worthy(list[k].data)
  BY <1>1 DEF Distinct, NoTwins
<1>5. CASE \E k \in DOMAIN list : l = [list EXCEPT ![k].hit_cnt = @ + 1]
  <2>1. PICK k \in 1..Len(list) : l = [list EXCEPT ![k].hit_cnt = @ + 1]
    BY <1>1, <1>5
  <2>2. /\ DOMAIN l = 1..Len(list)
        /\ \A j \in 1..Len(list) : l[j] \in Entries /\ l[j].data = list[j].data
    <3>1. DOMAIN l = 1..Len(list)
      BY <1>1, <2>1
    <3>2. ASSUME NEW j \in 1..Len(list) PROVE l[j] \in Entries /\ l[j].data = list[j].data
      <4>1. CASE j = k
        <5>1. l[j] = [list[k] EXCEPT !.hit_cnt = list[k].hit_cnt + 1]
          BY <1>1, <2>1, <4>1
        <5>2. list[k] \in Entries
          BY <1>1
        <5>3. \A e \in Entries : /\ [e EXCEPT !.hit_cnt = e.hit_cnt + 1] \in Entries
                                 /\ [e EXCEPT !.hit_cnt = e.hit_cnt + 1].data = e.data
          BY DEF Entries
        <5> QED
          BY <4>1, <5>1, <5>2, <5>3
      <4>2. CASE j # k
        BY <1>1, <2>1, <4>2
      <4> QED
        BY <4>1, <4>2
    <3> QED
      BY <3>1, <3>2
  <2>3. l \in [1..Len(list) -> Entries]
    BY <1>1, <2>1, <2>2
  <2>4. l \in Seq(Entries) /\ Len(l) = Len(list)
    BY <1>1, <2>3, FunctionIsSeq
  <2>5. NoTwins(l) /\ \A j \in DOMAIN l : Worthy(l[j].data)
    BY <1>4, <2>2 DEF NoTwins
  <2>6. Distinct(l)
    BY <1>1, <2>4, <2>5 DEF Distinct
  <2> QED
    BY <1>1, <2>2, <2>6
<1>6. CASE /\ Len(list) < MAX_AUTO_EXTRAS /\ l = Append(list, Token(mem))
           /\ \A j \in DOMAIN list : ~Same(list[j].data, mem)
  <2> DEFINE n == Len(list) + 1
  <2>1. /\ l \in Seq(Entries) /\ Len(l) = n /\ DOMAIN l = 1..n /\ l[n] = Token(mem)
        /\ \A j \in 1..Len(list) : l[j] = list[j]
    BY <1>1, <1>3, <1>6, AppendProperties
  <2>2. \A j \in 1..n : j = n \/ j \in 1..Len(list)
    BY <1>1
  <2>3. \A j \in 1..n : Worthy(l[j].data)
    BY <1>3, <1>4, <2>1, <2>2
  <2>4. ASSUME NEW j \in 1..n, NEW k \in 1..n, Same(l[j].data, l[k].data) PROVE j = k
    <3>1. CASE j # n /\ k # n
      BY <1>4, <2>1, <2>2, <2>4, <3>1
    <3>2. CASE j = n /\ k # n
      <4>1. k \in 1..Len(list) /\ Same(mem, list[k].data)
        BY <1>3, <2>1, <2>2, <2>4, <3>2
      <4> QED
        BY <1>1, <1>6, <4>1, SameFacts
    <3>3. CASE j # n /\ k = n
      <4>1. j \in 1..Len(list) /\ Same(list[j].data, mem)
        BY <1>3, <2>1, <2>2, <2>4, <3>3
      <4> QED
        BY <1>1, <1>6, <4>1
    <3> QED
      BY <3>1, <3>2, <3>3
  <2>5. n <= MAX_AUTO_EXTRAS
    BY <1>1, <1>2, <1>6
  <2>6. Distinct(l)
    BY <2>1, <2>3, <2>4, <2>5 DEF Distinct, NoTwins
  <2>7. \A k \in 1..Len(list) : k \in 1..n
    BY <1>1
  <2> QED
    BY <1>1, <2>1, <2>6, <2>7
<1>7. CASE /\ Len(list) = MAX_AUTO_EXTRAS
           /\ \A j \in DOMAIN list : ~Same(list[j].data, mem)
           /\ \E k \in BottomHalf : l = [list EXCEPT ![k] = Token(mem)]
  <2>1. PICK low \in BottomHalf : l = [list EXCEPT ![low] = Token(mem)]
    BY <1>7
  <2>2. low \in 1..Len(list)
    BY <1>2, <1>7 DEF BottomHalf
  <2>3. /\ l \in Seq(Entries) /\ Len(l) = Len(list) /\ DOMAIN l = 1..Len(list)
        /\ \A j \in 1..Len(list) : l[j] = IF j = low THEN Token(mem) ELSE list[j]
    BY <1>1, <1>3, <2>1, <2>2, ExceptSeq
  <2>4. \A j \in 1..Len(list) : Worthy(l[j].data)
    BY <1>3, <1>4, <2>3
  <2>5. ASSUME NEW j \in 1..Len(list), NEW k \in 1..Len(list), Same(l[j].data, l[k].data)
        PROVE  j = k
    <3>1. CASE j # low /\ k # low
      BY <1>4, <2>3, <2>5, <3>1
    <3>2. CASE j = low /\ k # low
      <4>1. Same(mem, list[k].data)
        BY <1>3, <2>3, <2>5, <3>2
      <4> QED
        BY <1>1, <1>7, <4>1, SameFacts
    <3>3. CASE j # low /\ k = low
      <4>1. Same(list[j].data, mem)
        BY <1>3, <2>3, <2>5, <3>3
      <4> QED
        BY <1>1, <1>7, <4>1
    <3> QED
      BY <3>1, <3>2, <3>3
  <2>6. Distinct(l)
    BY <1>1, <2>3, <2>4, <2>5 DEF Distinct, NoTwins
  <2> QED
    BY <1>1, <1>7, <2>1, <2>3, <2>6
<1> QED
  BY <1>5, <1>6, <1>7, CountedCases

(* maybe_add_auto keeps the list as it has to be, and only a full list     *)
(* loses a token, which was in its lower half.                             *)
LEMMA AddedFacts ==
    ASSUME NEW list, ListSound(list), NEW ex, NEW mem, mem \in Seq(Byte), Readable(mem),
           NEW l \in maybe_add_auto(list, ex, mem)
    PROVE  /\ ListSound(l)
           /\ \A k \in DOMAIN list :
                \/ \E j \in DOMAIN l : Same(l[j].data, list[k].data)
                \/ Len(list) = MAX_AUTO_EXTRAS /\ k \in BottomHalf
<1>1. CASE l = list
  BY <1>1, SameFacts
<1>2. CASE l # list
  <2>1. PICK c \in Counted(list, mem) : l \in SortTokens(c)
    BY <1>2 DEF maybe_add_auto
  <2>2. Worthy(mem)
    BY <1>2 DEF maybe_add_auto, Worthy
  <2>3. /\ Distinct(c)
        /\ \A k \in DOMAIN list :
             \/ \E j \in DOMAIN c : c[j].data = list[k].data
             \/ Len(list) = MAX_AUTO_EXTRAS /\ k \in BottomHalf
    BY <2>1, <2>2, CountedFacts DEF ListSound
  <2>4. /\ l \in Seq(Entries) /\ Len(l) = Len(c) /\ Ordered(Saved(l)) /\ UsedFirst(l)
        /\ \E p : Permutes(p, l, c, 1..Len(c), Len(c))
    BY <2>1, <2>3, SortFacts DEF Distinct
  <2>5. Distinct(l) /\ DataOf(l) = DataOf(c)
    BY <2>3, <2>4, PermutedDistinct
  <2>6. ASSUME NEW k \in DOMAIN list
        PROVE  \/ \E j \in DOMAIN l : Same(l[j].data, list[k].data)
               \/ Len(list) = MAX_AUTO_EXTRAS /\ k \in BottomHalf
    <3> SUFFICES ASSUME NEW i \in DOMAIN c, c[i].data = list[k].data
                 PROVE  \E j \in DOMAIN l : Same(l[j].data, list[k].data)
      BY <2>3
    <3>1. PICK j \in DOMAIN l : l[j].data = c[i].data
      BY <2>5 DEF DataOf
    <3> QED
      BY <3>1, SameFacts
  <2> QED
    BY <2>4, <2>5, <2>6 DEF ListSound
<1> QED
  BY <1>1, <1>2

-----------------------------------------------------------------------------
(* Tokens that come to the list one after the other                        *)

(* Induction over 0..n, for a set of numbers.                              *)
LEMMA UpTo ==
    ASSUME NEW n \in Nat, NEW T, 0 \in T, \A k \in 0..n - 1 : k \in T => k + 1 \in T
    PROVE  0..n \subseteq T
<1> DEFINE Bad == {k \in 0..n : k \notin T}
<1> SUFFICES ASSUME Bad # {} PROVE FALSE
  OBVIOUS
<1>1. Bad \in SUBSET Nat
  OBVIOUS
<1>2. PICK m \in Bad : \A k \in Bad : m <= k
  <2> HIDE DEF Bad
  <2> QED
    BY <1>1, LeastElement
<1>3. m \in 0..n /\ m \notin T
  BY <1>2
<1>4. m # 0
  BY <1>3
<1>5. m - 1 \in 0..n - 1 /\ m - 1 \in 0..n /\ ~(m <= m - 1) /\ m - 1 + 1 = m
  BY <1>3, <1>4
<1>6. m - 1 \notin Bad
  <2> HIDE DEF Bad
  <2> QED
    BY <1>2, <1>5
<1> QED
  BY <1>3, <1>5, <1>6

(* The lists after each token are defined.                                 *)
LEMMA TurnsExist ==
    ASSUME NEW lists, NEW ex, NEW mems, Len(mems) \in Nat
    PROVE  \E after : after =
             [n \in 0..Len(mems) |->
                IF n = 0 THEN lists ELSE AddedToEach(after[n - 1], ex, mems[n])]
<1> DEFINE Turn(f, n) == IF n = 0 THEN lists ELSE AddedToEach(f[n - 1], ex, mems[n])
           Solved == {n \in Nat : \E f : f = [k \in 0..n |-> Turn(f, k)]}
<1>1. 0 \in Solved
  <2> DEFINE f == [k \in 0..0 |-> lists]
  <2>1. f = [k \in 0..0 |-> Turn(f, k)]
    <3>1. \A k \in 0..0 : Turn(f, k) = lists
      OBVIOUS
    <3> HIDE DEF Turn
    <3> QED
      BY <3>1
  <2> HIDE DEF f
  <2> QED
    BY <2>1
<1>2. ASSUME NEW n \in Nat, n \in Solved PROVE n + 1 \in Solved
  <2>1. PICK f : f = [k \in 0..n |-> Turn(f, k)]
    BY <1>2
  <2> DEFINE g == [k \in 0..n + 1 |-> IF k = n + 1 THEN Turn(f, n + 1) ELSE f[k]]
  <2>2. \A k \in 0..n : g[k] = f[k]
    OBVIOUS
  <2>3. \A k \in 0..n + 1 : Turn(g, k) = Turn(f, k)
    <3> SUFFICES ASSUME NEW k \in 0..n + 1 PROVE Turn(g, k) = Turn(f, k)
      OBVIOUS
    <3>1. CASE k = 0
      BY <3>1
    <3>2. CASE k # 0
      <4>1. k - 1 \in 0..n
        BY <3>2
      <4>2. g[k - 1] = f[k - 1]
        BY <2>2, <4>1
      <4> HIDE DEF g
      <4> QED
        BY <4>2
    <3> QED
      BY <3>1, <3>2
  <2> HIDE DEF Turn
  <2>4. \A k \in 0..n + 1 : g[k] = Turn(g, k)
    <3> SUFFICES ASSUME NEW k \in 0..n + 1 PROVE g[k] = Turn(f, k)
      BY <2>3
    <3>1. CASE k = n + 1
      BY <3>1
    <3>2. CASE k # n + 1
      <4>1. k \in 0..n
        BY <3>2
      <4>2. f[k] = Turn(f, k)
        BY <2>1, <4>1
      <4> QED
        BY <2>2, <4>1, <4>2
    <3> QED
      BY <3>1, <3>2
  <2>5. g = [k \in 0..n + 1 |-> g[k]]
    OBVIOUS
  <2> HIDE DEF g
  <2>6. g = [k \in 0..n + 1 |-> Turn(g, k)]
    BY <2>4, <2>5, Zenon
  <2> QED
    BY <2>6
<1>3. 0..Len(mems) \subseteq Solved
  <2> HIDE DEF Solved
  <2>1. \A k \in 0..Len(mems) - 1 : k \in Solved => k + 1 \in Solved
    BY <1>2
  <2> QED
    BY <1>1, <2>1, UpTo
<1>4. Len(mems) \in Solved
  BY <1>3
<1> QED
  BY <1>4

(* after[n] is what becomes of lists when n tokens have come.              *)
Turns(after, lists, ex, mems) ==
    /\ AddedInTurn(lists, ex, mems) = after[Len(mems)] /\ after[0] = lists
    /\ \A n \in 0..Len(mems) - 1 : after[n + 1] = AddedToEach(after[n], ex, mems[n + 1])

LEMMA TurnFacts ==
    ASSUME NEW lists, NEW ex, NEW mems, Len(mems) \in Nat
    PROVE  \E after : Turns(after, lists, ex, mems)
<1> DEFINE after[n \in 0..Len(mems)] ==
             IF n = 0 THEN lists ELSE AddedToEach(after[n - 1], ex, mems[n])
<1>1. AddedInTurn(lists, ex, mems) = after[Len(mems)]
  BY DEF AddedInTurn
<1>2. after = [n \in 0..Len(mems) |->
                 IF n = 0 THEN lists ELSE AddedToEach(after[n - 1], ex, mems[n])]
  BY TurnsExist
<1> HIDE DEF after
<1>3. after[0] = lists
  BY <1>2
<1>4. ASSUME NEW n \in 0..Len(mems) - 1
      PROVE  after[n + 1] = AddedToEach(after[n], ex, mems[n + 1])
  <2>1. n + 1 \in 0..Len(mems) /\ n + 1 # 0 /\ n + 1 - 1 = n
    OBVIOUS
  <2> QED
    BY <1>2, <2>1
<1>5. Turns(after, lists, ex, mems)
  BY <1>1, <1>3, <1>4 DEF Turns
<1> QED
  BY <1>5

(* Every list that comes of sound ones is sound.                           *)
LEMMA TurnsSound ==
    ASSUME NEW lists, \A l \in lists : ListSound(l), NEW ex, NEW mems \in Seq(Seq(Byte)),
           NEW list \in AddedInTurn(lists, ex, mems)
    PROVE  ListSound(list)
<1>1. Len(mems) \in Nat /\ \A n \in 1..Len(mems) : mems[n] \in Seq(Byte)
  BY LenProperties, ElementOfSeq
<1>a. PICK after : Turns(after, lists, ex, mems)
  BY <1>1, TurnFacts
<1>2. /\ AddedInTurn(lists, ex, mems) = after[Len(mems)] /\ after[0] = lists
      /\ \A n \in 0..Len(mems) - 1 : after[n + 1] = AddedToEach(after[n], ex, mems[n + 1])
  BY <1>a DEF Turns
<1> DEFINE T == {n \in Nat : \A l \in after[n] : ListSound(l)}
<1>3. 0 \in T
  BY <1>2
<1>4. ASSUME NEW n \in 0..Len(mems) - 1, n \in T PROVE n + 1 \in T
  <2>1. n + 1 \in Nat /\ n + 1 \in 1..Len(mems)
    BY <1>1
  <2>2. after[n + 1] = AddedToEach(after[n], ex, mems[n + 1])
    BY <1>2
  <2> SUFFICES ASSUME NEW l \in after[n + 1] PROVE ListSound(l)
    BY <2>1
  <2>3. CASE ~Readable(mems[n + 1])
    BY <1>4, <2>2, <2>3 DEF AddedToEach
  <2>4. CASE Readable(mems[n + 1])
    <3>1. PICK old \in after[n] : l \in maybe_add_auto(old, ex, mems[n + 1])
      BY <2>2, <2>4 DEF AddedToEach
    <3>2. mems[n + 1] \in Seq(Byte) /\ ListSound(old)
      BY <1>1, <1>4, <2>1, <3>1
    <3> QED
      BY <2>4, <3>1, <3>2, AddedFacts
  <2> QED
    BY <2>3, <2>4
<1>5. Len(mems) \in T
  <2> HIDE DEF T
  <2>1. 0..Len(mems) \subseteq T
    BY <1>1, <1>3, <1>4, UpTo
  <2> QED
    BY <1>1, <2>1
<1> QED
  BY <1>2, <1>5

(* A session begins with a sound list, whatever the files hold.            *)
LEMMA NoTokensSound == ListSound(<<>>)
<1>1. <<>> \in Seq(Entries) /\ Len(<<>>) = 0 /\ DOMAIN <<>> = {}
  BY EmptySeq
<1>2. Distinct(<<>>)
  BY <1>1, SizesAssumption DEF Distinct, NoTwins
<1>3. UsedFirst(<<>>)
  BY <1>1 DEF UsedFirst
<1>4. Ordered(Saved(<<>>))
  <2>1. Shorter(USE_AUTO_EXTRAS, 0) = 0
    BY SizesAssumption DEF Shorter
  <2>2. DOMAIN Saved(<<>>) = {}
    BY <1>1, <2>1 DEF Saved
  <2> QED
    BY <2>2 DEF Ordered
<1> QED
  BY <1>2, <1>3, <1>4 DEF ListSound

(* The first files, as many as are used.                                   *)
LEMMA FirstFiles ==
    ASSUME NEW files \in Seq(Seq(Byte))
    PROVE  LET read == SubSeq(files, 1, Shorter(USE_AUTO_EXTRAS, Len(files)))
           IN  read \in Seq(Seq(Byte)) /\ (Len(files) <= USE_AUTO_EXTRAS => read = files)
<1> DEFINE m == Shorter(USE_AUTO_EXTRAS, Len(files))
           S == Seq(Byte)
<1>1. Len(files) \in Nat /\ m \in 0..Len(files) /\ (Len(files) <= USE_AUTO_EXTRAS => m = Len(files))
  BY LenProperties, SizesAssumption DEF Shorter
<1>2. \A k \in 1..m : files[k] \in S
  <2>1. \A k \in 1..Len(files) : files[k] \in S
    BY ElementOfSeq
  <2> HIDE DEF m
  <2> QED
    BY <1>1, <2>1
<1>3. SubSeq(files, 1, m) \in Seq(S)
  <2> HIDE DEF m, S
  <2> QED
    BY <1>1, <1>2, SubSeqProperties
<1>4. SubSeq(files, 1, Len(files)) = files
  BY SubSeqFull
<1> QED
  BY <1>1, <1>3, <1>4

LEMMA LoadedSound ==
    ASSUME NEW files \in Seq(Seq(Byte)), NEW list \in load_auto(files)
    PROVE  ListSound(list)
<1> DEFINE read == SubSeq(files, 1, Shorter(USE_AUTO_EXTRAS, Len(files)))
<1>1. read \in Seq(Seq(Byte))
  BY FirstFiles
<1>2. list \in AddedInTurn({<<>>}, <<>>, read)
  BY DEF load_auto
<1>3. \A l \in {<<>>} : ListSound(l)
  BY NoTokensSound
<1> HIDE DEF read
<1> QED
  BY <1>1, <1>2, <1>3, TurnsSound

(* The tokens in use of a sound list.                                      *)
LEMMA SavedFacts ==
    ASSUME NEW list, ListSound(list)
    PROVE  LET n == Shorter(USE_AUTO_EXTRAS, Len(list)) IN
           /\ n \in Nat /\ n <= USE_AUTO_EXTRAS /\ n <= Len(list) /\ Len(list) <= MAX_AUTO_EXTRAS
           /\ DOMAIN list = 1..Len(list) /\ Len(list) \in Nat
           /\ Saved(list) \in Seq(Seq(Byte)) /\ Len(Saved(list)) = n /\ DOMAIN Saved(list) = 1..n
           /\ \A k \in 1..n : Saved(list)[k] = list[k].data /\ Worthy(list[k].data)
<1> DEFINE n == Shorter(USE_AUTO_EXTRAS, Len(list))
<1>1. Len(list) \in Nat /\ DOMAIN list = 1..Len(list) /\ Len(list) <= MAX_AUTO_EXTRAS
  BY LenProperties DEF ListSound, Distinct
<1>2. n \in Nat /\ n <= USE_AUTO_EXTRAS /\ n <= Len(list)
  BY <1>1, SizesAssumption DEF Shorter
<1>3. Saved(list) = [k \in 1..n |-> list[k].data]
  BY DEF Saved
<1> HIDE DEF n
<1>4. \A k \in 1..n : k \in DOMAIN list /\ Worthy(list[k].data)
  BY <1>1, <1>2 DEF ListSound, Distinct
<1>5. \A k \in 1..n : list[k].data \in Seq(Byte)
  BY <1>4 DEF Worthy
<1>6. Saved(list) \in [1..n -> Seq(Byte)]
  BY <1>3, <1>5
<1>7. Saved(list) \in Seq(Seq(Byte)) /\ Len(Saved(list)) = n
  BY <1>2, <1>6, FunctionIsSeq
<1> QED
  BY <1>1, <1>2, <1>3, <1>4, <1>7 DEF n

(* A worthy token that a list with room does not have is appended.         *)
LEMMA AppendedFacts ==
    ASSUME NEW list, ListSound(list), NEW mem, Worthy(mem),
           \A j \in DOMAIN list : ~Same(list[j].data, mem),
           Len(list) < MAX_AUTO_EXTRAS, USE_AUTO_EXTRAS > 0,
           NEW l \in maybe_add_auto(list, <<>>, mem)
    PROVE  /\ Len(l) = Len(list) + 1
           /\ DataOf(l) = DataOf(list) \cup {mem}
<1>1. /\ Len(list) \in Nat /\ DOMAIN list = 1..Len(list) /\ list \in Seq(Entries)
  BY LenProperties DEF ListSound, Distinct
<1>2. ~(MAX_AUTO_EXTRAS = 0 \/ USE_AUTO_EXTRAS = 0 \/ IsRun(mem) \/ Builtin(mem))
  <2>1. MAX_AUTO_EXTRAS # 0 /\ USE_AUTO_EXTRAS # 0
    BY <1>1, SizesAssumption
  <2> QED
    BY <2>1 DEF Worthy
<1>3. ~\E k \in DOMAIN <<>> : Same(<<>>[k], mem)
  OBVIOUS
<1>4. PICK c \in Counted(list, mem) : l \in SortTokens(c)
  BY <1>2, <1>3 DEF maybe_add_auto
<1>5. c = Append(list, Token(mem))
  <2>1. {k \in DOMAIN list : Same(list[k].data, mem)} = {}
    OBVIOUS
  <2> QED
    BY <1>4, <2>1 DEF Counted
<1>6. Distinct(c)
  BY <1>4, CountedFacts DEF ListSound
<1>7. Token(mem) \in Entries /\ Token(mem).data = mem
  BY DEF Token, Entries, Worthy
<1> DEFINE n == Len(list) + 1
<1>8. /\ Len(c) = n /\ DOMAIN c = 1..n /\ c[n].data = mem
      /\ \A k \in 1..Len(list) : c[k] = list[k]
  BY <1>1, <1>5, <1>7, AppendProperties
<1>9. /\ l \in Seq(Entries) /\ Len(l) = Len(c)
      /\ \E p : Permutes(p, l, c, 1..Len(c), Len(c))
  BY <1>4, <1>6, SortFacts DEF Distinct
<1>10. DataOf(l) = DataOf(c)
  BY <1>6, <1>9, PermutedDistinct
<1>11. {c[k].data : k \in 1..n} = {list[k].data : k \in 1..Len(list)} \cup {mem}
  <2>1. \A k \in 1..n : k = n \/ k \in 1..Len(list)
    BY <1>1
  <2>2. n \in 1..n /\ \A k \in 1..Len(list) : k \in 1..n
    BY <1>1
  <2> HIDE DEF n
  <2>3. ASSUME NEW d, d \in {c[k].data : k \in 1..n}
        PROVE  d \in {list[k].data : k \in 1..Len(list)} \cup {mem}
    BY <1>8, <2>1, <2>3
  <2>4. ASSUME NEW d, d \in {list[k].data : k \in 1..Len(list)} \cup {mem}
        PROVE  d \in {c[k].data : k \in 1..n}
    BY <1>8, <2>2, <2>4
  <2> QED
    BY <2>3, <2>4
<1> QED
  BY <1>1, <1>8, <1>9, <1>10, <1>11 DEF DataOf

(* What load_auto makes of the tokens in use, and what save_auto writes.   *)
LEMMA LoadedSaved ==
    ASSUME NEW a, ListSound(a), NEW list \in load_auto(Saved(a))
    PROVE  {list[k].data : k \in DOMAIN list} = ToSet(Saved(a))
<1> DEFINE F == Saved(a)
           m == Shorter(USE_AUTO_EXTRAS, Len(a))
<1>1. /\ m \in Nat /\ m <= USE_AUTO_EXTRAS /\ m <= Len(a) /\ Len(a) <= MAX_AUTO_EXTRAS
      /\ DOMAIN a = 1..Len(a) /\ Len(a) \in Nat
      /\ F \in Seq(Seq(Byte)) /\ Len(F) = m /\ DOMAIN F = 1..m
      /\ \A k \in 1..m : F[k] = a[k].data /\ Worthy(a[k].data)
  BY SavedFacts
<1> HIDE DEF F, m
<1>2. list \in AddedInTurn({<<>>}, <<>>, F)
  <2>1. SubSeq(F, 1, Shorter(USE_AUTO_EXTRAS, Len(F))) = F
    BY <1>1, FirstFiles
  <2> QED
    BY <2>1 DEF load_auto, F
<1>3. PICK after : Turns(after, {<<>>}, <<>>, F)
  BY <1>1, TurnFacts
<1>4. /\ list \in after[m] /\ after[0] = {<<>>}
      /\ \A n \in 0..m - 1 : after[n + 1] = AddedToEach(after[n], <<>>, F[n + 1])
  BY <1>1, <1>2, <1>3 DEF Turns
<1> DEFINE Data(n) == {F[k] : k \in 1..n}
           Loaded(l, n) == ListSound(l) /\ Len(l) = n /\ DataOf(l) = Data(n)
           T == {n \in Nat : \A l \in after[n] : Loaded(l, n)}
<1>5. 0 \in T
  <2>1. Len(<<>>) = 0 /\ DataOf(<<>>) = {} /\ Data(0) = {}
    BY DEF DataOf
  <2> HIDE DEF Data
  <2>2. Loaded(<<>>, 0)
    BY <2>1, NoTokensSound
  <2> HIDE DEF Loaded
  <2> QED
    BY <1>4, <2>2
<1>6. ASSUME NEW n \in 0..m - 1, n \in T PROVE n + 1 \in T
  <2>1. n + 1 \in Nat /\ n + 1 \in 1..m /\ n \in Nat
    BY <1>1
  <2> DEFINE mem == F[n + 1]
  <2>2. Worthy(mem) /\ mem = a[n + 1].data
    BY <1>1, <2>1
  <2> HIDE DEF mem
  <2> SUFFICES ASSUME NEW l \in after[n + 1] PROVE Loaded(l, n + 1)
    BY <2>1
  <2>3. PICK old \in after[n] : l \in maybe_add_auto(old, <<>>, mem)
    <3>1. after[n + 1] = AddedToEach(after[n], <<>>, mem)
      BY <1>4 DEF mem
    <3> QED
      BY <2>2, <3>1 DEF AddedToEach, Worthy
  <2>4. ListSound(old) /\ Len(old) = n /\ DataOf(old) = Data(n)
    BY <1>6, <2>3
  <2>5. \A j \in DOMAIN old : ~Same(old[j].data, mem)
    <3> SUFFICES ASSUME NEW j \in DOMAIN old, Same(old[j].data, mem) PROVE FALSE
      OBVIOUS
    <3>1. old[j].data \in Data(n)
      BY <2>4 DEF DataOf
    <3>2. PICK k \in 1..n : old[j].data = F[k]
      BY <3>1
    <3>3. k \in 1..m /\ k # n + 1 /\ k \in DOMAIN a /\ n + 1 \in DOMAIN a
      BY <1>1, <2>1
    <3>4. Same(a[k].data, a[n + 1].data)
      BY <1>1, <2>2, <3>2, <3>3
    <3> QED
      BY <3>3, <3>4 DEF ListSound, Distinct, NoTwins
  <2>6. Len(old) < MAX_AUTO_EXTRAS /\ USE_AUTO_EXTRAS > 0
    <3>1. m <= USE_AUTO_EXTRAS /\ m <= MAX_AUTO_EXTRAS
      BY <1>1, SizesAssumption
    <3>2. n + 1 <= m /\ n \in Nat
      BY <2>1
    <3> QED
      BY <1>1, <2>4, <3>1, <3>2, SizesAssumption
  <2> HIDE DEF Data
  <2>7. /\ Len(l) = Len(old) + 1
        /\ DataOf(l) = DataOf(old) \cup {mem}
    BY <2>2, <2>3, <2>4, <2>5, <2>6, AppendedFacts
  <2>8. ListSound(l)
    BY <2>2, <2>3, <2>4, AddedFacts DEF Worthy
  <2>9. Data(n + 1) = Data(n) \cup {mem}
    <3>1. \A k \in 1..n + 1 : k = n + 1 \/ k \in 1..n
      BY <2>1
    <3>2. n + 1 \in 1..n + 1 /\ \A k \in 1..n : k \in 1..n + 1
      BY <2>1
    <3>3. ASSUME NEW d, d \in Data(n + 1) PROVE d \in Data(n) \cup {mem}
      BY <3>1, <3>3 DEF Data, mem
    <3>4. ASSUME NEW d, d \in Data(n) \cup {mem} PROVE d \in Data(n + 1)
      BY <3>2, <3>4 DEF Data, mem
    <3> QED
      BY <3>3, <3>4
  <2> QED
    BY <2>4, <2>7, <2>8, <2>9
<1>7. m \in T
  <2> HIDE DEF T
  <2>1. 0..m \subseteq T
    BY <1>1, <1>5, <1>6, UpTo
  <2> QED
    BY <1>1, <2>1
<1>8. DataOf(list) = Data(m)
  BY <1>4, <1>7
<1> QED
  BY <1>1, <1>8 DEF ToSet, F, DataOf

(* The user's dictionary is sorted by length.                              *)
LEMMA ExtrasFacts ==
    ASSUME NEW d \in Dictionaries, NEW s \in load_extras(d)
    PROVE  s \in Seq(Seq(Byte)) /\ Ordered(s)
<1>1. PICK r \in load_extras_file(d.lines, d.level) : s \in Arrangements(r)
  BY DEF load_extras
<1>2. Ordered(s)
  BY DEF load_extras
<1> DEFINE D == {n \in DOMAIN d.lines : ~d.lines[n].blank /\ ~TooDeep(d.lines[n], d.level)}
           S == Seq(Byte)
<1>3. r = [n \in D |-> d.lines[n].token]
  BY <1>1 DEF load_extras_file, Refused
<1>4. /\ Len(d.lines) \in Nat /\ DOMAIN d.lines = 1..Len(d.lines)
      /\ \A k \in DOMAIN d.lines : d.lines[k].token \in S
  BY InputsAssumption
<1>5. IsFiniteSet(D)
  <2>1. IsFiniteSet(1..Len(d.lines))
    BY <1>4, FS_Interval
  <2>2. D \in SUBSET (1..Len(d.lines))
    BY <1>4
  <2> HIDE DEF D
  <2> QED
    BY <2>1, <2>2, FS_Subset
<1>6. r \in [D -> S]
  <2>1. \A n \in D : d.lines[n].token \in S
    BY <1>4
  <2> HIDE DEF D, S
  <2> QED
    BY <1>3, <2>1
<1>7. s \in Seq(S)
  <2> HIDE DEF D, S
  <2> DEFINE n == Cardinality(D)
  <2>1. n \in Nat /\ n = Cardinality(D)
    BY <1>5, FS_CardinalityType
  <2> HIDE DEF n
  <2> QED
    BY <1>1, <1>5, <1>6, <2>1, ArrangementFacts
<1> QED
  BY <1>2, <1>7

-----------------------------------------------------------------------------
(* Tokens over the buffer                                                  *)

Untouched == [buf |-> out_buf, bufs |-> {}, ran |-> 0, skipped |-> 0, last_len |-> 0]

(* after[n] is what has become of the buffer when n tokens have been over  *)
(* it.                                                                     *)
Overwritten(after, list, drawn) ==
    /\ after[0] = Untouched
    /\ \A n \in 0..Len(list) - 1 :
         after[n + 1] = OverwriteOnce(after[n], list[n + 1], n + 1 \in drawn)

LEMMA OverwrittenExists ==
    ASSUME NEW list, NEW drawn, Len(list) \in Nat
    PROVE  \E after : after =
             [n \in 0..Len(list) |->
                IF n = 0 THEN Untouched ELSE OverwriteOnce(after[n - 1], list[n], n \in drawn)]
<1> DEFINE Turn(f, n) == IF n = 0 THEN Untouched ELSE OverwriteOnce(f[n - 1], list[n], n \in drawn)
           Solved == {n \in Nat : \E f : f = [k \in 0..n |-> Turn(f, k)]}
<1>1. 0 \in Solved
  <2> DEFINE f == [k \in 0..0 |-> Untouched]
  <2>1. f = [k \in 0..0 |-> Turn(f, k)]
    <3>1. \A k \in 0..0 : Turn(f, k) = Untouched
      OBVIOUS
    <3> HIDE DEF Turn
    <3> QED
      BY <3>1
  <2> HIDE DEF f
  <2> QED
    BY <2>1
<1>2. ASSUME NEW n \in Nat, n \in Solved PROVE n + 1 \in Solved
  <2>1. PICK f : f = [k \in 0..n |-> Turn(f, k)]
    BY <1>2
  <2> DEFINE g == [k \in 0..n + 1 |-> IF k = n + 1 THEN Turn(f, n + 1) ELSE f[k]]
  <2>2. \A k \in 0..n : g[k] = f[k]
    OBVIOUS
  <2>3. \A k \in 0..n + 1 : Turn(g, k) = Turn(f, k)
    <3> SUFFICES ASSUME NEW k \in 0..n + 1 PROVE Turn(g, k) = Turn(f, k)
      OBVIOUS
    <3>1. CASE k = 0
      BY <3>1
    <3>2. CASE k # 0
      <4>1. k - 1 \in 0..n
        BY <3>2
      <4>2. g[k - 1] = f[k - 1]
        BY <2>2, <4>1
      <4> HIDE DEF g
      <4> QED
        BY <4>2
    <3> QED
      BY <3>1, <3>2
  <2> HIDE DEF Turn
  <2>4. \A k \in 0..n + 1 : g[k] = Turn(g, k)
    <3> SUFFICES ASSUME NEW k \in 0..n + 1 PROVE g[k] = Turn(f, k)
      BY <2>3
    <3>1. CASE k = n + 1
      BY <3>1
    <3>2. CASE k # n + 1
      <4>1. k \in 0..n
        BY <3>2
      <4>2. f[k] = Turn(f, k)
        BY <2>1, <4>1
      <4> QED
        BY <2>2, <4>1, <4>2
    <3> QED
      BY <3>1, <3>2
  <2>5. g = [k \in 0..n + 1 |-> g[k]]
    OBVIOUS
  <2> HIDE DEF g
  <2>6. g = [k \in 0..n + 1 |-> Turn(g, k)]
    BY <2>4, <2>5, Zenon
  <2> QED
    BY <2>6
<1>3. 0..Len(list) \subseteq Solved
  <2> HIDE DEF Solved
  <2>1. \A k \in 0..Len(list) - 1 : k \in Solved => k + 1 \in Solved
    BY <1>2
  <2> QED
    BY <1>1, <2>1, UpTo
<1>4. Len(list) \in Solved
  BY <1>3
<1> QED
  BY <1>4

(* Overwrite is the end of such a row of tokens.                           *)
LEMMA OverwriteIs ==
    ASSUME NEW list, NEW drawn, Len(list) \in Nat, Overwrite(list, drawn)
    PROVE  \E after :
             LET done == after[Len(list)] IN
             /\ Overwritten(after, list, drawn)
             /\ Execute(done.bufs, done.ran, done.skipped)
             /\ out_buf' = Put(done.buf, pos, WordAt(in_buf, pos, done.last_len))
<1> DEFINE after[k \in 0..Len(list)] ==
             IF k = 0 THEN Untouched ELSE OverwriteOnce(after[k - 1], list[k], k \in drawn)
           done == after[Len(list)]
<1>1. /\ Execute(done.bufs, done.ran, done.skipped)
      /\ out_buf' = Put(done.buf, pos, WordAt(in_buf, pos, done.last_len))
  BY DEF Overwrite, Untouched
<1>2. after = [n \in 0..Len(list) |->
                 IF n = 0 THEN Untouched ELSE OverwriteOnce(after[n - 1], list[n], n \in drawn)]
  BY OverwrittenExists
<1> HIDE DEF after
<1>3. after[0] = Untouched
  BY <1>2
<1>4. ASSUME NEW n \in 0..Len(list) - 1
      PROVE  after[n + 1] = OverwriteOnce(after[n], list[n + 1], n + 1 \in drawn)
  <2>1. n + 1 \in 0..Len(list) /\ n + 1 # 0 /\ n + 1 - 1 = n
    OBVIOUS
  <2> QED
    BY <1>2, <2>1
<1>5. Overwritten(after, list, drawn)
  BY <1>3, <1>4 DEF Overwritten
<1> QED
  BY <1>1, <1>5

(* Between two tokens: each is counted, the ones that come are no shorter  *)
(* than the last that was put over the buffer, and beside that one every   *)
(* byte is as it was.                                                      *)
Underway(done, n, list) ==
    /\ DOMAIN done = {"buf", "bufs", "ran", "skipped", "last_len"}
    /\ done.ran \in Nat /\ done.skipped \in Nat /\ done.ran + done.skipped = n
    /\ done.last_len \in Nat /\ pos + done.last_len <= len + 1
    /\ \A k \in n + 1..Len(list) : done.last_len <= Len(list[k])
    /\ DOMAIN done.buf = 1..len
    /\ \A i \in 1..len : i < pos \/ i >= pos + done.last_len => done.buf[i] = in_buf[i]

LEMMA UnderwayStep ==
    ASSUME in_buf \in Seq(Byte), pos \in 1..len,
           NEW list \in Seq(Seq(Byte)), Ordered(list), NEW drawn,
           NEW n \in 0..Len(list) - 1, NEW done, Underway(done, n, list)
    PROVE  Underway(OverwriteOnce(done, list[n + 1], drawn), n + 1, list)
<1> DEFINE data == list[n + 1]
           next == OverwriteOnce(done, data, drawn)
<1>1. len \in Nat /\ Len(list) \in Nat /\ DOMAIN list = 1..Len(list)
  BY LenProperties DEF len
<1>2. n + 1 \in 1..Len(list) /\ n + 1 \in Nat
  BY <1>1
<1>3. data \in Seq(Byte) /\ Len(data) \in Nat
  <2>1. data \in Seq(Byte)
    BY <1>2, ElementOfSeq
  <2> HIDE DEF data
  <2> QED
    BY <2>1, LenProperties
<1>4. \A k \in n + 1 + 1..Len(list) : k \in n + 1..Len(list) /\ k \in DOMAIN list /\ n + 1 < k
  BY <1>1
<1>5. \A k \in n + 1 + 1..Len(list) : Len(data) <= Len(list[k])
  BY <1>1, <1>2, <1>4 DEF Ordered
<1>6. /\ DOMAIN done = {"buf", "bufs", "ran", "skipped", "last_len"}
      /\ done.ran \in Nat /\ done.skipped \in Nat /\ done.ran + done.skipped = n
      /\ done.last_len \in Nat /\ pos + done.last_len <= len + 1
      /\ \A k \in n + 1..Len(list) : done.last_len <= Len(list[k])
      /\ DOMAIN done.buf = 1..len
      /\ \A i \in 1..len : i < pos \/ i >= pos + done.last_len => done.buf[i] = in_buf[i]
  BY DEF Underway
<1>7. n + 1 \in n + 1..Len(list)
  BY <1>1
<1>8. done.last_len <= Len(data)
  BY <1>6, <1>7
<1> DEFINE skips == \/ ~drawn \/ Len(data) > len - pos + 1 \/ WordAt(done.buf, pos, Len(data)) = data
                    \/ ~Effective(pos, Len(data))
<1>9. CASE skips
  <2>1. next = [done EXCEPT !.skipped = @ + 1]
    BY <1>9 DEF OverwriteOnce
  <2> HIDE DEF next, data, skips
  <2>2. /\ DOMAIN next = {"buf", "bufs", "ran", "skipped", "last_len"}
        /\ next.ran = done.ran /\ next.skipped = done.skipped + 1
        /\ next.last_len = done.last_len /\ next.buf = done.buf
    BY <1>6, <2>1
  <2>3. next.ran \in Nat /\ next.skipped \in Nat /\ next.ran + next.skipped = n + 1
    <3>1. \A r, s \in Nat : r + s = n => s + 1 \in Nat /\ r + (s + 1) = n + 1
      BY <1>1
    <3>2. done.ran \in Nat /\ done.skipped \in Nat /\ done.ran + done.skipped = n
      BY <1>6, Zenon
    <3>3. done.skipped + 1 \in Nat /\ done.ran + (done.skipped + 1) = n + 1
      BY <3>1, <3>2, Zenon
    <3> QED
      BY <2>2, <3>2, <3>3, Zenon
  <2>4. \A k \in n + 1 + 1..Len(list) : next.last_len <= Len(list[k])
    BY <1>4, <1>6, <2>2
  <2>5. Underway(next, n + 1, list)
    BY <1>6, <2>2, <2>3, <2>4 DEF Underway
  <2> QED
    BY <2>5 DEF next, data
<1>10. CASE ~skips
  <2> DEFINE buf == Put(done.buf, pos, data)
  <2>1. next = [buf |-> buf, bufs |-> done.bufs \cup {buf}, ran |-> done.ran + 1,
                skipped |-> done.skipped, last_len |-> Len(data)]
    BY <1>10 DEF OverwriteOnce
  <2>2. ~(Len(data) > len - pos + 1)
    BY <1>10
  <2> HIDE DEF next, data, skips
  <2>3. pos + Len(data) <= len + 1
    BY <1>1, <1>3, <2>2
  <2>4. DOMAIN buf = 1..len
    BY <1>6 DEF Put
  <2>5. ASSUME NEW i \in 1..len, i < pos \/ i >= pos + Len(data) PROVE buf[i] = in_buf[i]
    <3>1. ~(i \in pos..pos + Len(data) - 1)
      BY <1>1, <1>3, <2>5
    <3>2. buf[i] = done.buf[i]
      BY <1>6, <3>1 DEF Put
    <3>3. i < pos \/ i >= pos + done.last_len
      <4> DEFINE l == done.last_len
      <4>1. l \in Nat /\ l <= Len(data) /\ pos \in Int /\ i \in Int
        BY <1>1, <1>6, <1>8
      <4> HIDE DEF l
      <4>2. i < pos \/ i >= pos + l
        BY <1>3, <2>5, <4>1
      <4> QED
        BY <4>2 DEF l
    <3> QED
      BY <1>6, <3>2, <3>3
  <2> HIDE DEF buf
  <2>6. /\ DOMAIN next = {"buf", "bufs", "ran", "skipped", "last_len"}
        /\ next.ran = done.ran + 1 /\ next.skipped = done.skipped
        /\ next.last_len = Len(data) /\ next.buf = buf
    BY <2>1
  <2>7. next.ran \in Nat /\ next.skipped \in Nat /\ next.ran + next.skipped = n + 1
    <3>1. \A r, s \in Nat : r + s = n => r + 1 \in Nat /\ (r + 1) + s = n + 1
      BY <1>1
    <3>2. done.ran \in Nat /\ done.skipped \in Nat /\ done.ran + done.skipped = n
      BY <1>6, Zenon
    <3>3. done.ran + 1 \in Nat /\ (done.ran + 1) + done.skipped = n + 1
      BY <3>1, <3>2, Zenon
    <3> QED
      BY <2>6, <3>2, <3>3, Zenon
  <2>8. Underway(next, n + 1, list)
    BY <1>3, <1>5, <2>3, <2>4, <2>5, <2>6, <2>7 DEF Underway
  <2> QED
    BY <2>8 DEF next, data
<1> QED
  BY <1>9, <1>10

(* A row of tokens is counted and leaves no trace in the buffer.           *)
LEMMA OverwriteFacts ==
    ASSUME in_buf \in Seq(Byte), out_buf = in_buf, pos \in 1..len,
           NEW list \in Seq(Seq(Byte)), Ordered(list), NEW drawn, Overwrite(list, drawn)
    PROVE  /\ out_buf' = in_buf
           /\ \E bufs, ran, skipped :
                /\ ran \in Nat /\ skipped \in Nat /\ ran + skipped = Len(list)
                /\ Execute(bufs, ran, skipped)
<1>1. len \in Nat /\ Len(list) \in Nat /\ DOMAIN in_buf = 1..len
  BY LenProperties DEF len
<1>2. PICK after :
        LET done == after[Len(list)] IN
        /\ Overwritten(after, list, drawn)
        /\ Execute(done.bufs, done.ran, done.skipped)
        /\ out_buf' = Put(done.buf, pos, WordAt(in_buf, pos, done.last_len))
  BY <1>1, OverwriteIs
<1>3. /\ after[0] = Untouched
      /\ \A n \in 0..Len(list) - 1 :
           after[n + 1] = OverwriteOnce(after[n], list[n + 1], n + 1 \in drawn)
  BY <1>2 DEF Overwritten
<1> DEFINE T == {n \in Nat : Underway(after[n], n, list)}
<1>4. 0 \in T
  <2>1. /\ DOMAIN Untouched = {"buf", "bufs", "ran", "skipped", "last_len"}
        /\ Untouched.ran = 0 /\ Untouched.skipped = 0 /\ Untouched.last_len = 0
        /\ Untouched.buf = in_buf
    BY DEF Untouched
  <2>2. \A k \in 0 + 1..Len(list) : 0 <= Len(list[k])
    <3> SUFFICES ASSUME NEW k \in 1..Len(list) PROVE Len(list[k]) \in Nat
      OBVIOUS
    <3>1. list[k] \in Seq(Byte)
      BY ElementOfSeq
    <3> QED
      BY <3>1, LenProperties
  <2>3. Underway(Untouched, 0, list)
    BY <1>1, <2>1, <2>2 DEF Underway
  <2> QED
    BY <1>3, <2>3
<1>5. ASSUME NEW n \in 0..Len(list) - 1, n \in T PROVE n + 1 \in T
  <2>1. Underway(OverwriteOnce(after[n], list[n + 1], n + 1 \in drawn), n + 1, list)
    BY <1>5, UnderwayStep
  <2> QED
    BY <1>1, <1>3, <2>1
<1>6. Len(list) \in T
  <2> HIDE DEF T
  <2>1. 0..Len(list) \subseteq T
    BY <1>1, <1>4, <1>5, UpTo
  <2> QED
    BY <1>1, <2>1
<1> DEFINE done == after[Len(list)]
<1>7. /\ done.ran \in Nat /\ done.skipped \in Nat /\ done.ran + done.skipped = Len(list)
      /\ done.last_len \in Nat /\ pos + done.last_len <= len + 1
      /\ DOMAIN done.buf = 1..len
      /\ \A i \in 1..len : i < pos \/ i >= pos + done.last_len => done.buf[i] = in_buf[i]
  BY <1>6 DEF Underway
<1>8. /\ Execute(done.bufs, done.ran, done.skipped)
      /\ out_buf' = Put(done.buf, pos, WordAt(in_buf, pos, done.last_len))
  BY <1>2
<1> HIDE DEF done
<1> DEFINE word == WordAt(in_buf, pos, done.last_len)
<1>9. /\ Len(word) = done.last_len
      /\ \A j \in 1..done.last_len : word[j] = in_buf[pos + j - 1]
  <2> DEFINE last == pos + done.last_len - 1
  <2>1. last \in Int /\ last <= len /\ last - pos + 1 = done.last_len /\ (pos <= last <=> done.last_len # 0)
    <3> DEFINE l == done.last_len
    <3>1. l \in Nat /\ pos + l <= len + 1 /\ pos \in Nat /\ len \in Nat
      BY <1>1, <1>7
    <3> HIDE DEF l
    <3>2. pos + l - 1 \in Int /\ pos + l - 1 <= len /\ pos + l - 1 - pos + 1 = l
      BY <3>1
    <3>3. pos <= pos + l - 1 <=> l # 0
      BY <3>1
    <3>4. last = pos + l - 1 /\ done.last_len = l
      BY DEF l
    <3> HIDE DEF last
    <3> QED
      BY <3>1, <3>2, <3>3, <3>4
  <2>2. \A i \in pos..last : in_buf[i] \in Byte
    <3>1. \A i \in pos..last : i \in 1..Len(in_buf)
      BY <1>1, <2>1 DEF len
    <3> QED
      BY <3>1, ElementOfSeq
  <2>3. /\ Len(SubSeq(in_buf, pos, last)) = IF pos <= last THEN last - pos + 1 ELSE 0
        /\ \A j \in 1..last - pos + 1 : SubSeq(in_buf, pos, last)[j] = in_buf[pos + j - 1]
    <3> HIDE DEF last
    <3> QED
      BY <2>1, <2>2, SubSeqProperties
  <2>4. word = SubSeq(in_buf, pos, last)
    BY DEF WordAt
  <2> HIDE DEF last, word
  <2> QED
    BY <1>7, <2>1, <2>3, <2>4
<1> HIDE DEF word
<1>10. DOMAIN out_buf' = 1..len
  BY <1>7, <1>8 DEF Put, word
<1>11. ASSUME NEW i \in 1..len PROVE out_buf'[i] = in_buf[i]
  <2>1. out_buf'[i] = IF i \in pos..pos + Len(word) - 1 THEN word[i - pos + 1] ELSE done.buf[i]
    BY <1>7, <1>8 DEF Put, word
  <2>2. CASE i \in pos..pos + Len(word) - 1
    <3>1. i - pos + 1 \in 1..done.last_len /\ pos + (i - pos + 1) - 1 = i
      BY <1>1, <1>7, <1>9, <2>2
    <3> QED
      BY <1>9, <2>1, <2>2, <3>1
  <2>3. CASE i \notin pos..pos + Len(word) - 1
    <3>1. i < pos \/ i >= pos + done.last_len
      BY <1>1, <1>7, <1>9, <2>3
    <3> QED
      BY <1>7, <2>1, <2>3, <3>1
  <2> QED
    BY <2>2, <2>3
<1>12. out_buf' = in_buf
  <2>1. out_buf' = [i \in 1..len |-> out_buf'[i]]
    BY <1>8, <1>10 DEF Put
  <2>2. in_buf = [i \in 1..len |-> in_buf[i]]
    BY <1>1, LenProperties
  <2> QED
    BY <1>11, <2>1, <2>2
<1> QED
  BY <1>7, <1>8, <1>12

-----------------------------------------------------------------------------
(* The inductive invariant of the stages                                   *)

FlipStages == {"flip1", "flip2", "flip4", "flip8", "flip16", "flip32"}
ArithStages == {"arith8", "arith16", "arith32"}
IntStages == {"int8", "int16", "int32"}
ExtStages == {"ext_UO", "ext_UI", "ext_AO"}
StageSet == FlipStages \cup ArithStages \cup IntStages \cup ExtStages

(* What the insertions behind the last byte are more than stage_max.       *)
Uncounted == IF stage = "ext_UI" THEN Len(extras) ELSE 0

PlaceSound ==
    /\ stage \in StageSet \cup {"havoc", "abandoned", "resumed"}
    /\ in_buf \in Messages /\ out_buf = in_buf
    /\ stage_cur \in Nat /\ stage_max \in Int /\ pos \in Nat /\ 1 <= pos /\ pos <= Bits * len + 1

(* What is left of a stage: its mutants at each position that is left.     *)
CountSound ==
    stage \in StageSet =>
        /\ Width(stage) <= len /\ pos <= Positions(stage) + 1
        /\ stage_max - stage_cur = Mutants(stage) * (Positions(stage) - pos + 1) - Uncounted

Flagged == {b \in DOMAIN eff_map : eff_map[b]}

EffectsSound ==
    /\ eff_cnt \in Nat /\ IsFiniteSet(Flagged) /\ eff_cnt <= Cardinality(Flagged) + 1
    /\ stage = "flip8" => eff_map \in [0..EFF_ALEN - 1 -> BOOLEAN]

(* A token that is collected began behind the first byte.                  *)
CollectSound == stage = "flip1" => a_len \in Nat /\ Bits * a_len <= pos - 1

TokensSound ==
    /\ extras \in Seq(Seq(Byte)) /\ Ordered(extras) /\ ListSound(a_extras)
    /\ auto_files \in Seq(Seq(Byte)) /\ auto_changed \in BOOLEAN
    /\ auto_changed \/ auto_files = Saved(a_extras) \/ a_extras = <<>>

StagesInv == PlaceSound /\ CountSound /\ EffectsSound /\ CollectSound /\ TokensSound

LEMMA StageNames ==
    /\ DOMAIN Stages = 1..15 /\ ToSet(Stages) = StageSet
    /\ Stages[1] = "flip1" /\ Stages[2] = "flip2" /\ Stages[3] = "flip4" /\ Stages[4] = "flip8"
    /\ \A k \in 1..15 : Stages[k] \in StageSet /\ (Stages[k] = "flip8" => k = 4)
    /\ \A j, k \in 1..15 : Stages[j] = Stages[k] => j = k
<1>1. DOMAIN Stages = 1..15
  BY DEF Stages
<1>2. \A k \in 1..15 : \/ k = 1 \/ k = 2 \/ k = 3 \/ k = 4 \/ k = 5 \/ k = 6 \/ k = 7 \/ k = 8
                       \/ k = 9 \/ k = 10 \/ k = 11 \/ k = 12 \/ k = 13 \/ k = 14 \/ k = 15
  OBVIOUS
<1>3. /\ Stages[1] = "flip1" /\ Stages[2] = "flip2" /\ Stages[3] = "flip4" /\ Stages[4] = "flip8"
      /\ Stages[5] = "flip16" /\ Stages[6] = "flip32" /\ Stages[7] = "arith8"
      /\ Stages[8] = "arith16" /\ Stages[9] = "arith32" /\ Stages[10] = "int8"
      /\ Stages[11] = "int16" /\ Stages[12] = "int32" /\ Stages[13] = "ext_UO"
      /\ Stages[14] = "ext_UI" /\ Stages[15] = "ext_AO"
  BY DEF Stages
<1>4. \A k \in 1..15 : Stages[k] \in StageSet /\ (Stages[k] = "flip8" => k = 4)
  BY <1>2, <1>3 DEF StageSet, FlipStages, ArithStages, IntStages, ExtStages
<1>5. \A j, k \in 1..15 : Stages[j] = Stages[k] => j = k
  BY <1>2, <1>3
<1>6. ToSet(Stages) = {Stages[k] : k \in 1..15}
  BY <1>1 DEF ToSet
<1>7. \A s \in StageSet : \E k \in 1..15 : Stages[k] = s
  <2>1. /\ 1 \in 1..15 /\ 2 \in 1..15 /\ 3 \in 1..15 /\ 4 \in 1..15 /\ 5 \in 1..15 /\ 6 \in 1..15
        /\ 7 \in 1..15 /\ 8 \in 1..15 /\ 9 \in 1..15 /\ 10 \in 1..15 /\ 11 \in 1..15
        /\ 12 \in 1..15 /\ 13 \in 1..15 /\ 14 \in 1..15 /\ 15 \in 1..15
    OBVIOUS
  <2> QED
    BY <1>3, <2>1 DEF StageSet, FlipStages, ArithStages, IntStages, ExtStages
<1>8. ToSet(Stages) = StageSet
  <2> HIDE DEF StageSet
  <2> QED
    BY <1>4, <1>6, <1>7
<1> QED
  BY <1>1, <1>3, <1>4, <1>5, <1>8

LEMMA LenFacts ==
    ASSUME in_buf \in Messages
    PROVE  /\ in_buf \in Seq(Byte) /\ len \in Nat /\ len >= 1 /\ DOMAIN in_buf = 1..len
           /\ Bits * len \in Nat /\ Bits * len >= 4 * len /\ Bits \in Nat /\ Bits >= 4
<1>1. in_buf \in Seq(Byte) /\ in_buf # <<>>
  BY InputsAssumption
<1>2. len \in Nat /\ len # 0 /\ DOMAIN in_buf = 1..len
  BY <1>1, EmptySeq, LenProperties DEF len
<1>3. Bits \in Nat /\ Bits >= 4
  BY SizesAssumption
<1>4. \A b, n \in Nat : b * n \in Nat /\ (b >= 4 => b * n >= 4 * n)
  <2> SUFFICES ASSUME NEW b \in Nat, NEW n \in Nat
               PROVE  b * n \in Nat /\ (b >= 4 => b * n >= 4 * n)
    OBVIOUS
  <2>1. b * n \in Nat
    OBVIOUS
  <2>2. ASSUME b >= 4 PROVE b * n >= 4 * n
    <3>1. b - 4 \in Nat
      BY <2>2
    <3>2. (b - 4) * n >= 0
      <4> DEFINE d == b - 4
      <4> HIDE DEF d
      <4>1. \A x, y \in Nat : x * y >= 0
        OBVIOUS
      <4> QED
        BY <3>1, <4>1 DEF d
    <3>3. (b - 4) * n = b * n - 4 * n
      OBVIOUS
    <3> QED
      BY <2>1, <3>2, <3>3
  <2> QED
    BY <2>1, <2>2
<1> QED
  BY <1>1, <1>2, <1>3, <1>4

(* A message that is as long as the words of a stage has positions in it.  *)
LEMMA PositionFacts ==
    ASSUME in_buf \in Messages, NEW s \in StageSet, Width(s) <= len
    PROVE  /\ Positions(s) \in Nat /\ Positions(s) <= Bits * len
           /\ Width(s) \in {1, 2, 4}
           /\ s \notin {"flip1", "flip2", "flip4", "ext_UI"} => Positions(s) = len - Width(s) + 1
           /\ s = "ext_UI" => Positions(s) = len + 1
           /\ s \in {"flip8", "ext_UO", "ext_AO", "arith8", "int8"} => Positions(s) = len
           /\ s = "flip1" => Positions(s) = Bits * len
<1>1. len \in Nat /\ len >= 1 /\ Bits * len \in Nat /\ Bits * len >= 4 * len
  BY LenFacts
<1>2. Width(s) \in {1, 2, 4} /\ Width(s) \in Nat /\ Width(s) >= 1
  BY DEF Width
<1>3. s \in {"flip8", "ext_UO", "ext_AO", "arith8", "int8"} => Width(s) = 1
  BY DEF Width
<1> DEFINE m == Bits * len
<1>4. Positions(s) = IF s = "flip1" THEN m ELSE IF s = "flip2" THEN m - 1
                     ELSE IF s = "flip4" THEN m - 3
                     ELSE IF s = "ext_UI" THEN len + 1 ELSE len - Width(s) + 1
  BY DEF Positions
<1> HIDE DEF m
<1>5. m \in Nat /\ m >= 4 * len
  BY <1>1 DEF m
<1>6. Positions(s) \in Nat /\ Positions(s) <= m
  BY <1>1, <1>2, <1>4, <1>5
<1>7. /\ s \notin {"flip1", "flip2", "flip4", "ext_UI"} => Positions(s) = len - Width(s) + 1
      /\ s = "ext_UI" => Positions(s) = len + 1
      /\ s = "flip1" => Positions(s) = m
  BY <1>4
<1>8. s \in {"flip8", "ext_UO", "ext_AO", "arith8", "int8"} => Positions(s) = len
  BY <1>1, <1>3, <1>7
<1> QED
  BY <1>2, <1>6, <1>7, <1>8 DEF m

(* How many mutants a stage has at a position.                             *)
LEMMA MutantsFacts ==
    ASSUME NEW s \in StageSet, Len(extras) \in Nat, Len(a_extras) \in Nat
    PROVE  /\ Mutants(s) \in Nat
           /\ s \in FlipStages => Mutants(s) = 1
           /\ s = "arith8" => Mutants(s) = 2 * ARITH_MAX
           /\ s \in {"arith16", "arith32"} => Mutants(s) = 4 * ARITH_MAX
           /\ s = "int8" => Mutants(s) = Len(interesting_8)
           /\ s \in {"int16", "int32"} => Mutants(s) = 2 * Len(Interesting(Width(s)))
           /\ s \in {"ext_UO", "ext_UI"} => Mutants(s) = Len(extras)
           /\ s = "ext_AO" => Mutants(s) = AutoUsed
<1>1. /\ s \in FlipStages => Mutants(s) = 1
      /\ s = "arith8" => Mutants(s) = 2 * ARITH_MAX
      /\ s \in {"arith16", "arith32"} => Mutants(s) = 4 * ARITH_MAX
      /\ s = "int8" => Mutants(s) = Len(interesting_8)
      /\ s \in {"int16", "int32"} => Mutants(s) = 2 * Len(Interesting(Width(s)))
      /\ s \in {"ext_UO", "ext_UI"} => Mutants(s) = Len(extras)
      /\ s = "ext_AO" => Mutants(s) = AutoUsed
  BY DEF Mutants, FlipStages
<1>2. /\ ARITH_MAX \in Nat /\ USE_AUTO_EXTRAS \in Nat /\ Len(interesting_8) \in Nat
      /\ \A w : Len(Interesting(w)) \in Nat
  <2>1. \A w : Interesting(w) \in Seq(Int)
    BY SizesAssumption DEF Interesting
  <2> QED
    BY <2>1, SizesAssumption, LenProperties
<1>3. AutoUsed \in Nat
  BY <1>2 DEF AutoUsed, Shorter
<1>4. \A n \in Nat : 2 * n \in Nat /\ 4 * n \in Nat
  OBVIOUS
<1> QED
  BY <1>1, <1>2, <1>3, <1>4
     DEF StageSet, FlipStages, ArithStages, IntStages, ExtStages

(* At a position that is done a stage has one position less to do.         *)
LEMMA Advance ==
    ASSUME PlaceSound, CountSound, stage \in StageSet, pos <= Positions(stage),
           Len(extras) \in Nat, Len(a_extras) \in Nat,
           stage' = stage, in_buf' = in_buf, out_buf' = in_buf, extras' = extras,
           Mutants(stage)' = Mutants(stage),
           NEW bufs, NEW ran \in Nat, NEW skipped \in Nat, ran + skipped = Mutants(stage),
           Execute(bufs, ran, skipped)
    PROVE  PlaceSound' /\ CountSound'
<1>1. /\ in_buf \in Messages /\ stage_cur \in Nat /\ stage_max \in Int /\ pos \in Nat /\ 1 <= pos
      /\ Width(stage) <= len
      /\ stage_max - stage_cur = Mutants(stage) * (Positions(stage) - pos + 1) - Uncounted
  BY DEF PlaceSound, CountSound
<1>2. Positions(stage) \in Nat /\ Positions(stage) <= Bits * len /\ Bits * len \in Nat
  BY <1>1, PositionFacts, LenFacts
<1>3. Mutants(stage) \in Nat
  BY MutantsFacts
<1>4. stage_cur' = stage_cur + ran /\ stage_max' = stage_max - skipped /\ pos' = pos + 1
  BY DEF Execute
<1>5. len' = len /\ Width(stage)' = Width(stage) /\ Positions(stage)' = Positions(stage)
  BY DEF len, Width, Positions
<1>6. Uncounted' = Uncounted /\ Uncounted \in Nat
  BY DEF Uncounted
<1>7. PlaceSound'
  <2>1. pos' <= Bits * len + 1
    BY <1>1, <1>2, <1>4
  <2>2. pos' \in Nat /\ 1 <= pos' /\ stage_cur' \in Nat /\ stage_max' \in Int
    BY <1>1, <1>4
  <2> QED
    BY <1>1, <1>5, <2>1, <2>2 DEF PlaceSound
<1>8. \A n, x \in Nat : n * (x + 1) - n = n * x
  OBVIOUS
<1>9. stage_max' - stage_cur' = Mutants(stage) * (Positions(stage) - pos' + 1) - Uncounted
  <2> DEFINE n == Mutants(stage)
             x == Positions(stage) - pos
  <2>1. x \in Nat /\ Positions(stage) - pos + 1 = x + 1 /\ Positions(stage) - pos' + 1 = x
    BY <1>1, <1>2, <1>4
  <2>2. n * (x + 1) - n = n * x /\ n * (x + 1) \in Int /\ n * x \in Int
    BY <1>3, <1>8, <2>1
  <2>3. stage_max - stage_cur = n * (x + 1) - Uncounted /\ ran + skipped = n
    BY <1>1, <2>1
  <2> HIDE DEF n, x
  <2>4. stage_max' - stage_cur' = stage_max - stage_cur - (ran + skipped)
    BY <1>1, <1>4
  <2>5. stage_max' - stage_cur' = n * x - Uncounted
    <3> DEFINE y == n * (x + 1)
               z == n * x
    <3>1. y - n = z /\ y \in Int /\ z \in Int /\ n \in Int
      BY <1>3, <2>2 DEF n
    <3>2. stage_max' - stage_cur' = y - Uncounted - n
      BY <2>3, <2>4
    <3> HIDE DEF y, z
    <3>3. stage_max' - stage_cur' = z - Uncounted
      BY <1>6, <3>1, <3>2
    <3> QED
      BY <3>3 DEF z
  <2> QED
    BY <2>1, <2>5 DEF n
<1>10. CountSound'
  <2>1. pos' <= Positions(stage) + 1
    BY <1>1, <1>2, <1>4
  <2> QED
    BY <1>1, <1>5, <1>6, <1>9, <2>1 DEF CountSound
<1> QED
  BY <1>7, <1>10

(* What the number of mutants depends on.                                  *)
LEMMA SameMutants ==
    ASSUME UNCHANGED <<stage, extras, a_extras>>
    PROVE  Mutants(stage)' = Mutants(stage)
BY DEF Mutants, AutoUsed, Shorter, Width, Interesting

LEMMA LengthFacts ==
    ASSUME TokensSound
    PROVE  Len(extras) \in Nat /\ Len(a_extras) \in Nat
<1>1. extras \in Seq(Seq(Byte)) /\ a_extras \in Seq(Entries)
  BY DEF TokensSound, ListSound, Distinct
<1> QED
  BY <1>1, LenProperties

(* A position of a stage that only looks at the effectors and the tokens.  *)
LEMMA PlainStep ==
    ASSUME StagesInv, stage \in StageSet \ {"flip1"}, pos <= Positions(stage),
           UNCHANGED <<stage, in_buf, effects, collecting, tokens>>, out_buf' = in_buf,
           NEW bufs, NEW ran \in Nat, NEW skipped \in Nat, ran + skipped = Mutants(stage),
           Execute(bufs, ran, skipped)
    PROVE  StagesInv'
<1>1. /\ stage' = stage /\ in_buf' = in_buf /\ eff_map' = eff_map /\ eff_cnt' = eff_cnt
      /\ extras' = extras /\ a_extras' = a_extras /\ auto_changed' = auto_changed
      /\ auto_files' = auto_files
  BY DEF effects, tokens
<1>2. Len(extras) \in Nat /\ Len(a_extras) \in Nat
  BY LengthFacts DEF StagesInv
<1>3. Mutants(stage)' = Mutants(stage)
  BY <1>1, SameMutants
<1>4. PlaceSound' /\ CountSound'
  BY <1>1, <1>2, <1>3, Advance DEF StagesInv
<1>5. EffectsSound'
  <2>1. Flagged' = Flagged /\ EFF_ALEN' = EFF_ALEN
    BY <1>1 DEF Flagged, EFF_ALEN, len
  <2> QED
    BY <1>1, <2>1 DEF StagesInv, EffectsSound
<1>6. CollectSound'
  BY <1>1 DEF CollectSound
<1>7. TokensSound'
  BY <1>1 DEF StagesInv, TokensSound
<1> QED
  BY <1>4, <1>5, <1>6, <1>7 DEF StagesInv

LEMMA WalkBitsSound ==
    ASSUME StagesInv, WalkBits PROVE StagesInv'
<1>1. /\ stage \in StageSet \ {"flip1"} /\ stage \in FlipStages /\ pos <= Positions(stage)
  BY DEF WalkBits, At, StageSet, FlipStages
<1>2. Mutants(stage) = 1
  BY <1>1, LengthFacts, MutantsFacts DEF StagesInv
<1>3. PICK bufs : Execute(bufs, 1, 0)
  BY DEF WalkBits
<1>4. UNCHANGED <<stage, in_buf, effects, collecting, tokens>> /\ out_buf' = in_buf
  BY DEF WalkBits, message, StagesInv, PlaceSound
<1> QED
  BY <1>1, <1>2, <1>3, <1>4, PlainStep

LEMMA WalkBytesSound ==
    ASSUME StagesInv, WalkBytes PROVE StagesInv'
<1>1. /\ stage \in StageSet \ {"flip1"} /\ stage \in FlipStages /\ pos <= Positions(stage)
  BY DEF WalkBytes, At, StageSet, FlipStages
<1>2. Mutants(stage) = 1
  BY <1>1, LengthFacts, MutantsFacts DEF StagesInv
<1>3. PICK bufs : Execute(bufs, 1, 0)
  BY DEF WalkBytes
<1>4. UNCHANGED <<stage, in_buf, effects, collecting, tokens>> /\ out_buf' = in_buf
  BY DEF WalkBytes, message, StagesInv, PlaceSound
<1> QED
  BY <1>1, <1>2, <1>3, <1>4, PlainStep

LEMMA PassOverSound ==
    ASSUME StagesInv, PassOver PROVE StagesInv'
<1>1. stage \in StageSet \ {"flip1"} /\ pos <= Positions(stage)
  BY DEF PassOver, At, StageSet, FlipStages, ArithStages, IntStages
<1>2. Mutants(stage) \in Nat
  BY <1>1, LengthFacts, MutantsFacts DEF StagesInv
<1>3. Execute({}, 0, Mutants(stage)) /\ 0 + Mutants(stage) = Mutants(stage)
  BY <1>2 DEF PassOver
<1>4. UNCHANGED <<stage, in_buf, effects, collecting, tokens>> /\ out_buf' = in_buf
  BY DEF PassOver, message, StagesInv, PlaceSound
<1> QED
  BY <1>1, <1>2, <1>3, <1>4, PlainStep

-----------------------------------------------------------------------------
(* Each candidate of a position is tried or passed over.                   *)

LEMMA Parted ==
    ASSUME NEW all, IsFiniteSet(all), NEW part \in SUBSET all
    PROVE  /\ Cardinality(part) \in Nat /\ Cardinality(all \ part) \in Nat
           /\ Cardinality(part) + Cardinality(all \ part) = Cardinality(all)
<1>1. IsFiniteSet(part) /\ IsFiniteSet(all \ part)
  BY FS_Subset, FS_Difference
<1>2. /\ Cardinality(part) \in Nat /\ Cardinality(all \ part) \in Nat /\ Cardinality(all) \in Nat
  BY <1>1, FS_CardinalityType
<1>3. Cardinality(all \ part) = Cardinality(all) - Cardinality(all \cap part)
  BY FS_Difference
<1>4. all \cap part = part
  OBVIOUS
<1> DEFINE x == Cardinality(part)
           y == Cardinality(all \ part)
           z == Cardinality(all)
<1>5. x \in Nat /\ y \in Nat /\ z \in Nat
  BY <1>2
<1>6. y = z - x
  BY <1>3, <1>4, Zenon
<1> HIDE DEF x, y, z
<1>7. x + y = z
  BY <1>5, <1>6
<1> QED
  BY <1>2, <1>7 DEF x, y, z

(* Those of one byte are in the order of the machine only.                 *)
InOrders(all, n) == {c \in all \X BOOLEAN : n > 1 \/ ~c[2]}

LEMMA OrdersCount ==
    ASSUME NEW all, IsFiniteSet(all), NEW n \in Nat, n >= 1
    PROVE  /\ IsFiniteSet(InOrders(all, n))
           /\ Cardinality(InOrders(all, n)) = Cardinality(all) * (IF n > 1 THEN 2 ELSE 1)
<1> DEFINE both == {c \in all \X BOOLEAN : n > 1 \/ ~c[2]}
           orders == IF n > 1 THEN BOOLEAN ELSE {FALSE}
<1>1. both = all \X orders
  <2>1. CASE n > 1
    BY <2>1
  <2>2. CASE ~(n > 1)
    <3>1. \A c \in all \X BOOLEAN : ~c[2] <=> c \in all \X {FALSE}
      OBVIOUS
    <3>2. all \X {FALSE} \subseteq all \X BOOLEAN
      OBVIOUS
    <3> QED
      BY <2>2, <3>1, <3>2
  <2> QED
    BY <2>1, <2>2
<1>2. IsFiniteSet(orders) /\ Cardinality(orders) = IF n > 1 THEN 2 ELSE 1
  <2>1. IsFiniteSet({FALSE}) /\ Cardinality({FALSE}) = 1
    BY FS_Singleton
  <2>2. IsFiniteSet({FALSE} \cup {TRUE}) /\ Cardinality({FALSE} \cup {TRUE}) = 2
    <3>1. TRUE \notin {FALSE}
      OBVIOUS
    <3>2. /\ IsFiniteSet({FALSE} \cup {TRUE})
          /\ Cardinality({FALSE} \cup {TRUE}) = Cardinality({FALSE}) + 1
      BY <2>1, <3>1, FS_AddElement, Zenon
    <3> DEFINE one == {FALSE}
               two == {FALSE} \cup {TRUE}
    <3>3. IsFiniteSet(two) /\ Cardinality(two) = Cardinality(one) + 1 /\ Cardinality(one) = 1
      BY <2>1, <3>2, Zenon
    <3> HIDE DEF one, two
    <3>4. IsFiniteSet(two) /\ Cardinality(two) = 2
      BY <3>3
    <3> QED
      BY <3>4, Zenon DEF two
  <2>3. BOOLEAN = {FALSE} \cup {TRUE}
    OBVIOUS
  <2> QED
    BY <2>1, <2>2, <2>3
<1> HIDE DEF orders
<1>3. IsFiniteSet(all \X orders) /\ Cardinality(all \X orders) = Cardinality(all) * Cardinality(orders)
  BY <1>2, FS_Product
<1> HIDE DEF both
<1> QED
  BY <1>1, <1>2, <1>3 DEF both, InOrders

LEMMA ArithCount ==
    ASSUME NEW word, Len(word) \in Nat, Len(word) >= 1
    PROVE  /\ IsFiniteSet(ArithCandidates(word))
           /\ Cardinality(ArithCandidates(word))
                = IF Len(word) > 1 THEN 4 * ARITH_MAX ELSE 2 * ARITH_MAX
<1> DEFINE all == (-ARITH_MAX..ARITH_MAX) \ {0}
<1>1. ARITH_MAX \in Nat /\ -ARITH_MAX \in Int /\ 0 \in -ARITH_MAX..ARITH_MAX
  BY SizesAssumption
<1>2. IsFiniteSet(all) /\ Cardinality(all) = 2 * ARITH_MAX
  <2> DEFINE low == -ARITH_MAX
  <2>1. low \in Int /\ ~(low > ARITH_MAX) /\ ARITH_MAX - low + 1 = 2 * ARITH_MAX + 1
    BY <1>1
  <2>2. 0 \in low..ARITH_MAX
    BY <1>1
  <2> HIDE DEF low
  <2>3. IsFiniteSet(low..ARITH_MAX) /\ Cardinality(low..ARITH_MAX) = 2 * ARITH_MAX + 1
    <3>1. /\ IsFiniteSet(low..ARITH_MAX)
          /\ Cardinality(low..ARITH_MAX) = IF low > ARITH_MAX THEN 0 ELSE ARITH_MAX - low + 1
      BY <1>1, <2>1, FS_Interval
    <3> QED
      BY <2>1, <3>1
  <2> DEFINE whole == low..ARITH_MAX
  <2>4. IsFiniteSet(whole) /\ Cardinality(whole) = 2 * ARITH_MAX + 1 /\ 0 \in whole
    BY <2>2, <2>3
  <2>5. all = whole \ {0}
    BY DEF low
  <2> HIDE DEF whole
  <2>6. /\ IsFiniteSet(whole \ {0})
        /\ Cardinality(whole \ {0}) =
             IF 0 \in whole THEN Cardinality(whole) - 1 ELSE Cardinality(whole)
    BY <2>4, FS_RemoveElement
  <2> HIDE DEF all
  <2> QED
    BY <1>1, <2>4, <2>5, <2>6
<1>3. ArithCandidates(word) = InOrders(all, Len(word))
  BY DEF ArithCandidates, InOrders
<1> HIDE DEF all
<1>4. /\ IsFiniteSet(ArithCandidates(word))
      /\ Cardinality(ArithCandidates(word)) = Cardinality(all) * (IF Len(word) > 1 THEN 2 ELSE 1)
  BY <1>2, <1>3, OrdersCount
<1>5. \A n \in Nat : (2 * n) * 2 = 4 * n /\ (2 * n) * 1 = 2 * n
  OBVIOUS
<1> QED
  BY <1>1, <1>2, <1>4, <1>5

LEMMA InterestCount ==
    ASSUME NEW width \in Nat, width >= 1
    PROVE  /\ IsFiniteSet(InterestCandidates(width))
           /\ Cardinality(InterestCandidates(width))
                = IF width > 1 THEN 2 * Len(Interesting(width)) ELSE Len(Interesting(width))
<1> DEFINE words == Interesting(width)
           all == DOMAIN words
<1>1. words \in Seq(Int)
  BY SizesAssumption DEF Interesting
<1>2. InterestCandidates(width) = InOrders(all, width)
  BY DEF InterestCandidates, InOrders
<1> HIDE DEF words
<1>3. Len(words) \in Nat /\ all = 1..Len(words)
  BY <1>1, LenProperties
<1>4. IsFiniteSet(all) /\ Cardinality(all) = Len(words)
  <2> DEFINE n == Len(words)
  <2>1. n \in Nat /\ n \in Int /\ 1 \in Int
    BY <1>3
  <2> HIDE DEF n
  <2>2. IsFiniteSet(1..n) /\ Cardinality(1..n) = IF 1 > n THEN 0 ELSE n - 1 + 1
    BY <2>1, FS_Interval
  <2>3. Cardinality(1..n) = n
    BY <2>1, <2>2
  <2> QED
    BY <1>3, <2>2, <2>3 DEF n
<1> HIDE DEF all
<1>5. /\ IsFiniteSet(InterestCandidates(width))
      /\ Cardinality(InterestCandidates(width)) = Cardinality(all) * (IF width > 1 THEN 2 ELSE 1)
  BY <1>2, <1>4, OrdersCount
<1>6. \A n \in Nat : n * 2 = 2 * n /\ n * 1 = n
  OBVIOUS
<1> QED
  BY <1>3, <1>4, <1>5, <1>6 DEF words

LEMMA WordLength ==
    ASSUME in_buf \in Seq(Byte), out_buf = in_buf, NEW width \in Nat, width >= 1,
           pos \in Nat, pos >= 1, pos + width <= len + 1
    PROVE  Len(WordAt(out_buf, pos, width)) = width
<1> DEFINE last == pos + width - 1
<1>1. len \in Nat /\ last \in Int /\ last <= len /\ pos <= last /\ last - pos + 1 = width
  BY LenProperties DEF len
<1>2. \A k \in pos..last : in_buf[k] \in Byte
  <2>1. \A k \in pos..last : k \in 1..Len(in_buf)
    BY <1>1 DEF len
  <2> QED
    BY <2>1, ElementOfSeq
<1>3. WordAt(out_buf, pos, width) = SubSeq(in_buf, pos, last)
  BY DEF WordAt
<1> HIDE DEF last
<1>4. Len(SubSeq(in_buf, pos, last)) = IF pos <= last THEN last - pos + 1 ELSE 0
  BY <1>1, <1>2, SubSeqProperties
<1> QED
  BY <1>1, <1>3, <1>4

(* At a position of a stage that changes words there is a whole word.      *)
LEMMA WordHere ==
    ASSUME StagesInv, stage \in ArithStages \cup IntStages, pos <= Positions(stage)
    PROVE  /\ Len(WordAt(out_buf, pos, Width(stage))) = Width(stage)
           /\ Width(stage) \in Nat /\ Width(stage) >= 1
<1>1. /\ in_buf \in Messages /\ out_buf = in_buf /\ pos \in Nat /\ pos >= 1 /\ Width(stage) <= len
      /\ stage \in StageSet /\ stage \notin {"flip1", "flip2", "flip4", "ext_UI"}
  BY DEF StagesInv, PlaceSound, CountSound, StageSet, ArithStages, IntStages
<1>2. in_buf \in Seq(Byte) /\ len \in Nat
  BY <1>1, LenFacts
<1>3. Width(stage) \in {1, 2, 4} /\ Positions(stage) = len - Width(stage) + 1
  BY <1>1, PositionFacts
<1>4. pos + Width(stage) <= len + 1 /\ Width(stage) \in Nat /\ Width(stage) >= 1
  BY <1>1, <1>2, <1>3
<1> QED
  BY <1>1, <1>2, <1>4, WordLength

LEMMA AddAndSubtractSound ==
    ASSUME StagesInv, AddAndSubtract PROVE StagesInv'
<1> DEFINE orig  == WordAt(out_buf, pos, Width(stage))
           all   == ArithCandidates(orig)
           valid == {c \in all : ArithTried(orig, c)}
<1>1. /\ stage \in StageSet \ {"flip1"} /\ stage \in ArithStages /\ pos <= Positions(stage)
  BY DEF AddAndSubtract, At, StageSet, ArithStages
<1>2. PICK bufs : Execute(bufs, Cardinality(valid), Cardinality(all \ valid))
  BY DEF AddAndSubtract
<1>3. UNCHANGED <<stage, in_buf, effects, collecting, tokens>> /\ out_buf' = in_buf
  BY DEF AddAndSubtract, message, StagesInv, PlaceSound
<1>4. Len(orig) = Width(stage) /\ Width(stage) \in Nat /\ Width(stage) >= 1
  BY <1>1, WordHere
<1> HIDE DEF orig
<1>5. /\ IsFiniteSet(all)
      /\ Cardinality(all) = IF Width(stage) > 1 THEN 4 * ARITH_MAX ELSE 2 * ARITH_MAX
  BY <1>4, ArithCount
<1>6. valid \in SUBSET all
  OBVIOUS
<1> HIDE DEF all
<1> HIDE DEF valid
<1>7. /\ Cardinality(valid) \in Nat /\ Cardinality(all \ valid) \in Nat
      /\ Cardinality(valid) + Cardinality(all \ valid) = Cardinality(all)
  BY <1>5, <1>6, Parted
<1>8. Cardinality(all) = Mutants(stage)
  <2>1. /\ stage = "arith8" => Mutants(stage) = 2 * ARITH_MAX
        /\ stage \in {"arith16", "arith32"} => Mutants(stage) = 4 * ARITH_MAX
    BY <1>1, LengthFacts, MutantsFacts DEF StagesInv
  <2>2. /\ stage = "arith8" => Width(stage) = 1
        /\ stage \in {"arith16", "arith32"} => Width(stage) > 1
    BY DEF Width
  <2> QED
    BY <1>1, <1>5, <2>1, <2>2 DEF ArithStages
<1> QED
  BY <1>1, <1>2, <1>3, <1>7, <1>8, PlainStep

LEMMA SetInterestingSound ==
    ASSUME StagesInv, SetInteresting PROVE StagesInv'
<1> DEFINE orig  == WordAt(out_buf, pos, Width(stage))
           all   == InterestCandidates(Width(stage))
           valid == {c \in all : InterestTried(orig, c)}
<1>1. /\ stage \in StageSet \ {"flip1"} /\ stage \in IntStages /\ pos <= Positions(stage)
  BY DEF SetInteresting, At, StageSet, IntStages
<1>2. PICK bufs : Execute(bufs, Cardinality(valid), Cardinality(all \ valid))
  BY DEF SetInteresting
<1>3. UNCHANGED <<stage, in_buf, effects, collecting, tokens>> /\ out_buf' = in_buf
  BY DEF SetInteresting, message, StagesInv, PlaceSound
<1>4. Width(stage) \in Nat /\ Width(stage) >= 1
  BY <1>1, WordHere
<1>5. /\ IsFiniteSet(all)
      /\ Cardinality(all) = IF Width(stage) > 1 THEN 2 * Len(Interesting(Width(stage)))
                            ELSE Len(Interesting(Width(stage)))
  BY <1>4, InterestCount
<1>6. valid \in SUBSET all
  OBVIOUS
<1> HIDE DEF all
<1> HIDE DEF valid
<1>7. /\ Cardinality(valid) \in Nat /\ Cardinality(all \ valid) \in Nat
      /\ Cardinality(valid) + Cardinality(all \ valid) = Cardinality(all)
  BY <1>5, <1>6, Parted
<1>8. Cardinality(all) = Mutants(stage)
  <2>1. /\ stage = "int8" => Mutants(stage) = Len(interesting_8)
        /\ stage \in {"int16", "int32"} => Mutants(stage) = 2 * Len(Interesting(Width(stage)))
    BY <1>1, LengthFacts, MutantsFacts DEF StagesInv
  <2>2. /\ stage = "int8" => Width(stage) = 1
        /\ stage \in {"int16", "int32"} => Width(stage) > 1
    BY DEF Width
  <2>3. Interesting(1) = interesting_8
    BY DEF Interesting
  <2> QED
    BY <1>1, <1>5, <2>1, <2>2, <2>3 DEF IntStages
<1> QED
  BY <1>1, <1>2, <1>3, <1>7, <1>8, PlainStep

LEMMA ExtStagePos ==
    ASSUME StagesInv, stage \in {"ext_UO", "ext_AO"}, pos <= Positions(stage)
    PROVE  in_buf \in Seq(Byte) /\ out_buf = in_buf /\ pos \in 1..len
<1>1. /\ in_buf \in Messages /\ out_buf = in_buf /\ pos \in Nat /\ pos >= 1 /\ Width(stage) <= len
      /\ stage \in StageSet
  BY DEF StagesInv, PlaceSound, CountSound, StageSet, ExtStages
<1>2. in_buf \in Seq(Byte) /\ len \in Nat /\ Positions(stage) = len
  BY <1>1, LenFacts, PositionFacts
<1> QED
  BY <1>1, <1>2

LEMMA OverwriteWithUserExtrasSound ==
    ASSUME StagesInv, OverwriteWithUserExtras PROVE StagesInv'
<1>1. stage = "ext_UO" /\ stage \in StageSet \ {"flip1"} /\ pos <= Positions(stage)
  BY DEF OverwriteWithUserExtras, At, StageSet, ExtStages
<1>2. PICK drawn \in SUBSET DOMAIN extras : Overwrite(extras, drawn)
  BY DEF OverwriteWithUserExtras
<1>3. UNCHANGED <<stage, in_buf, effects, collecting, tokens>>
  BY <1>2 DEF Overwrite
<1>4. in_buf \in Seq(Byte) /\ out_buf = in_buf /\ pos \in 1..len
  BY <1>1, ExtStagePos
<1>5. extras \in Seq(Seq(Byte)) /\ Ordered(extras)
  BY DEF StagesInv, TokensSound
<1>6. /\ out_buf' = in_buf
      /\ \E bufs, ran, skipped :
           /\ ran \in Nat /\ skipped \in Nat /\ ran + skipped = Len(extras)
           /\ Execute(bufs, ran, skipped)
  BY <1>2, <1>4, <1>5, OverwriteFacts
<1>7. PICK bufs, ran, skipped :
           /\ ran \in Nat /\ skipped \in Nat /\ ran + skipped = Len(extras)
           /\ Execute(bufs, ran, skipped)
  BY <1>6
<1>8. Mutants(stage) = Len(extras)
  BY <1>1, LengthFacts, MutantsFacts DEF StagesInv
<1> QED
  BY <1>1, <1>3, <1>6, <1>7, <1>8, PlainStep

LEMMA OverwriteWithAutoExtrasSound ==
    ASSUME StagesInv, OverwriteWithAutoExtras PROVE StagesInv'
<1>1. stage = "ext_AO" /\ stage \in StageSet \ {"flip1"} /\ pos <= Positions(stage)
  BY DEF OverwriteWithAutoExtras, At, StageSet, ExtStages
<1>2. Overwrite(Saved(a_extras), 1..AutoUsed)
  BY DEF OverwriteWithAutoExtras
<1>3. UNCHANGED <<stage, in_buf, effects, collecting, tokens>>
  BY <1>2 DEF Overwrite
<1>4. in_buf \in Seq(Byte) /\ out_buf = in_buf /\ pos \in 1..len
  BY <1>1, ExtStagePos
<1>5. ListSound(a_extras)
  BY DEF StagesInv, TokensSound
<1>6. /\ Saved(a_extras) \in Seq(Seq(Byte)) /\ Ordered(Saved(a_extras))
      /\ Len(Saved(a_extras)) = AutoUsed
  <2>1. /\ Saved(a_extras) \in Seq(Seq(Byte)) /\ Len(a_extras) \in Nat
        /\ Len(Saved(a_extras)) = Shorter(USE_AUTO_EXTRAS, Len(a_extras))
    BY <1>5, SavedFacts
  <2>2. Shorter(USE_AUTO_EXTRAS, Len(a_extras)) = AutoUsed
    BY <2>1, SizesAssumption DEF AutoUsed, Shorter
  <2> QED
    BY <1>5, <2>1, <2>2 DEF ListSound
<1>7. /\ out_buf' = in_buf
      /\ \E bufs, ran, skipped :
           /\ ran \in Nat /\ skipped \in Nat /\ ran + skipped = Len(Saved(a_extras))
           /\ Execute(bufs, ran, skipped)
  BY <1>2, <1>4, <1>6, OverwriteFacts
<1>8. PICK bufs, ran, skipped :
           /\ ran \in Nat /\ skipped \in Nat /\ ran + skipped = AutoUsed
           /\ Execute(bufs, ran, skipped)
  BY <1>6, <1>7
<1>9. Mutants(stage) = AutoUsed
  BY <1>1, LengthFacts, MutantsFacts DEF StagesInv
<1> QED
  BY <1>1, <1>3, <1>7, <1>8, <1>9, PlainStep

LEMMA InsertUserExtrasSound ==
    ASSUME StagesInv, InsertUserExtras PROVE StagesInv'
<1> DEFINE fit == {k \in DOMAIN extras : len + Len(extras[k]) <= MAX_FILE}
<1>1. stage = "ext_UI" /\ stage \in StageSet \ {"flip1"} /\ pos <= Positions(stage)
  BY DEF InsertUserExtras, At, StageSet, ExtStages
<1>2. PICK bufs : Execute(bufs, Cardinality(fit), Len(extras) - Cardinality(fit))
  BY DEF InsertUserExtras
<1>3. UNCHANGED <<stage, in_buf, effects, collecting, tokens>> /\ out_buf' = in_buf
  BY DEF InsertUserExtras, message, StagesInv, PlaceSound
<1>4. extras \in Seq(Seq(Byte)) /\ Len(extras) \in Nat /\ DOMAIN extras = 1..Len(extras)
  BY LenProperties DEF StagesInv, TokensSound
<1>5. fit \in SUBSET (1..Len(extras))
  BY <1>4
<1> HIDE DEF fit
<1>6. Cardinality(fit) \in Nat /\ Cardinality(fit) <= Len(extras)
  <2>1. /\ IsFiniteSet(1..Len(extras))
        /\ Cardinality(1..Len(extras)) = IF 1 > Len(extras) THEN 0 ELSE Len(extras) - 1 + 1
    BY <1>4, FS_Interval
  <2>2. Cardinality(1..Len(extras)) = Len(extras)
    BY <1>4, <2>1
  <2>3. IsFiniteSet(fit) /\ Cardinality(fit) <= Cardinality(1..Len(extras))
    BY <1>5, <2>1, FS_Subset
  <2>4. Cardinality(fit) \in Nat
    BY <2>3, FS_CardinalityType
  <2> QED
    BY <2>2, <2>3, <2>4
<1> DEFINE ran == Cardinality(fit)
           skipped == Len(extras) - ran
<1>7. ran \in Nat /\ skipped \in Nat /\ ran + skipped = Len(extras)
  BY <1>4, <1>6
<1>8. Execute(bufs, ran, skipped)
  BY <1>2
<1> HIDE DEF ran, skipped
<1>9. Mutants(stage) = Len(extras)
  BY <1>1, LengthFacts, MutantsFacts DEF StagesInv
<1> QED
  BY <1>1, <1>3, <1>7, <1>8, <1>9, PlainStep

(* The blocks of bytes are in the order of the bytes.                      *)
LEMMA BlockOrder ==
    ASSUME NEW a \in Nat, NEW b \in Nat, NEW d \in Nat, d >= 1, a <= b
    PROVE  a \div d \in Nat /\ b \div d \in Nat /\ a \div d <= b \div d
OBVIOUS

LEMMA BlockFacts ==
    ASSUME len \in Nat, NEW p \in 1..len
    PROVE  EFF_APOS(p) \in 0..EFF_ALEN - 1 /\ EFF_ALEN \in Nat
<1>1. p - 1 \in Nat /\ len - 1 \in Nat /\ p - 1 <= len - 1 /\ EFF_BLOCK \in Nat /\ EFF_BLOCK >= 1
  BY SizesAssumption
<1>2. /\ (p - 1) \div EFF_BLOCK \in Nat /\ (len - 1) \div EFF_BLOCK \in Nat
      /\ (p - 1) \div EFF_BLOCK <= (len - 1) \div EFF_BLOCK
  <2> DEFINE a == p - 1
             b == len - 1
  <2> HIDE DEF a, b
  <2>1. a \div EFF_BLOCK \in Nat /\ b \div EFF_BLOCK \in Nat /\ a \div EFF_BLOCK <= b \div EFF_BLOCK
    BY <1>1, BlockOrder DEF a, b
  <2> QED
    BY <2>1 DEF a, b
<1>3. EFF_APOS(p) = (p - 1) \div EFF_BLOCK /\ EFF_ALEN = (len - 1) \div EFF_BLOCK + 1
  BY DEF EFF_APOS, EFF_ALEN
<1> QED
  BY <1>2, <1>3

LEMMA WalkByteSound ==
    ASSUME StagesInv, WalkByte PROVE StagesInv'
<1>1. stage = "flip8" /\ stage \in StageSet /\ stage \in FlipStages /\ pos <= Positions(stage)
  BY DEF WalkByte, At, StageSet, FlipStages
<1>2. PICK bufs : Execute(bufs, 1, 0)
  BY DEF WalkByte
<1>3. /\ stage' = stage /\ in_buf' = in_buf /\ out_buf' = in_buf
      /\ extras' = extras /\ a_extras' = a_extras /\ auto_changed' = auto_changed
      /\ auto_files' = auto_files
  BY DEF WalkByte, message, tokens, StagesInv, PlaceSound
<1>4. Mutants(stage) = 1 /\ Mutants(stage)' = Mutants(stage)
  BY <1>1, <1>3, LengthFacts, MutantsFacts, SameMutants DEF StagesInv
<1>5. PlaceSound' /\ CountSound'
  BY <1>1, <1>2, <1>3, <1>4, LengthFacts, Advance DEF StagesInv
<1>6. /\ in_buf \in Messages /\ Width(stage) <= len /\ pos \in Nat /\ pos >= 1
      /\ eff_cnt \in Nat /\ IsFiniteSet(Flagged) /\ eff_cnt <= Cardinality(Flagged) + 1
      /\ eff_map \in [0..EFF_ALEN - 1 -> BOOLEAN]
  BY <1>1 DEF StagesInv, PlaceSound, CountSound, EffectsSound
<1>7. EFF_APOS(pos) \in 0..EFF_ALEN - 1 /\ EFF_ALEN' = EFF_ALEN
  <2>1. len \in Nat /\ Positions(stage) = len
    BY <1>1, <1>6, LenFacts, PositionFacts
  <2>2. pos \in 1..len
    BY <1>1, <1>6, <2>1
  <2> QED
    BY <1>3, <2>1, <2>2, BlockFacts DEF EFF_ALEN, len
<1> DEFINE b == EFF_APOS(pos)
<1>8. \/ eff_map' = eff_map /\ eff_cnt' = eff_cnt
      \/ ~eff_map[b] /\ eff_map' = [eff_map EXCEPT ![b] = TRUE] /\ eff_cnt' = eff_cnt + 1
  BY DEF WalkByte
<1> HIDE DEF b
<1>9. EffectsSound'
  <2>1. CASE eff_map' = eff_map /\ eff_cnt' = eff_cnt
    <3>1. Flagged' = Flagged
      BY <2>1 DEF Flagged
    <3> QED
      BY <1>6, <1>7, <2>1, <3>1 DEF EffectsSound
  <2>2. CASE ~eff_map[b] /\ eff_map' = [eff_map EXCEPT ![b] = TRUE] /\ eff_cnt' = eff_cnt + 1
    <3>1. b \in 0..EFF_ALEN - 1
      BY <1>7 DEF b
    <3>2. eff_map' \in [0..EFF_ALEN - 1 -> BOOLEAN] /\ DOMAIN eff_map' = DOMAIN eff_map
      BY <1>6, <2>2
    <3>3. Flagged' = Flagged \cup {b} /\ b \notin Flagged
      <4>1. \A c \in DOMAIN eff_map : eff_map'[c] = IF c = b THEN TRUE ELSE eff_map[c]
        BY <1>6, <2>2
      <4> QED
        BY <1>6, <2>2, <3>1, <3>2, <4>1 DEF Flagged
    <3>4. IsFiniteSet(Flagged') /\ Cardinality(Flagged') = Cardinality(Flagged) + 1
      BY <1>6, <3>3, FS_AddElement
    <3>5. Cardinality(Flagged) \in Nat
      BY <1>6, FS_CardinalityType
    <3>6. eff_cnt' \in Nat /\ eff_cnt' <= Cardinality(Flagged') + 1
      BY <1>6, <2>2, <3>4, <3>5
    <3> QED
      BY <1>7, <3>2, <3>4, <3>6 DEF EffectsSound, Flagged
  <2> QED
    BY <1>8, <2>1, <2>2
<1>10. CollectSound'
  BY <1>1, <1>3 DEF CollectSound
<1>11. TokensSound'
  BY <1>3 DEF StagesInv, TokensSound
<1> QED
  BY <1>5, <1>9, <1>10, <1>11 DEF StagesInv

(* A token that is found keeps the list sound, and one that leaves a full  *)
(* list was in its lower half.                                             *)
OnlyLow ==
    \A k \in DOMAIN a_extras :
        \/ \E j \in DOMAIN a_extras' : Same(a_extras'[j].data, a_extras[k].data)
        \/ Len(a_extras) = MAX_AUTO_EXTRAS /\ k \in BottomHalf

LEMMA TokensStay ==
    ASSUME TokensSound, UNCHANGED tokens PROVE TokensSound' /\ OnlyLow
<1>1. /\ extras' = extras /\ a_extras' = a_extras /\ auto_changed' = auto_changed
      /\ auto_files' = auto_files
  BY DEF tokens
<1>2. OnlyLow
  BY <1>1, SameFacts DEF OnlyLow
<1> QED
  BY <1>1, <1>2 DEF TokensSound

LEMMA AddTokenSound ==
    ASSUME TokensSound, NEW mem \in Seq(Byte), AddToken(mem), UNCHANGED <<extras, auto_files>>
    PROVE  TokensSound' /\ OnlyLow
<1>1. CASE ~Readable(mem)
  BY <1>1, TokensStay DEF AddToken, tokens
<1>2. CASE Readable(mem)
  <2>1. /\ a_extras' \in maybe_add_auto(a_extras, extras, mem)
        /\ auto_changed' = (auto_changed \/ a_extras' # a_extras)
    BY <1>2 DEF AddToken
  <2>2. ListSound(a_extras) /\ auto_changed \in BOOLEAN
    BY DEF TokensSound
  <2>3. ListSound(a_extras') /\ OnlyLow
    BY <1>2, <2>1, <2>2, AddedFacts DEF OnlyLow
  <2>4. auto_changed' \in BOOLEAN
    BY <2>1, Zenon
  <2>5. auto_changed' \/ auto_files' = Saved(a_extras') \/ a_extras' = <<>>
    <3>1. CASE a_extras' = a_extras
      BY <2>1, <3>1 DEF TokensSound
    <3>2. CASE a_extras' # a_extras
      BY <2>1, <3>2
    <3> QED
      BY <3>1, <3>2
  <2> QED
    BY <2>3, <2>4, <2>5 DEF TokensSound
<1> QED
  BY <1>1, <1>2

LEMMA Multiples ==
    \A x, y, z \in Nat : x >= y => z * x >= z * y /\ z * x \in Nat /\ z * y \in Nat
<1> SUFFICES ASSUME NEW x \in Nat, NEW y \in Nat, NEW z \in Nat, x >= y
             PROVE  z * x >= z * y /\ z * x \in Nat /\ z * y \in Nat
  OBVIOUS
<1> DEFINE d == x - y
<1>1. d \in Nat /\ x = y + d
  OBVIOUS
<1> HIDE DEF d
<1>2. z * (y + d) = z * y + z * d /\ z * d \in Nat /\ z * y \in Nat
  BY <1>1
<1> QED
  BY <1>1, <1>2

(* The last bit of a byte, and where its token begins.                     *)
LEMMA ByteOfBit ==
    ASSUME NEW b \in Nat, b >= 1, NEW p \in Nat, p >= 1, p % b = 0,
           NEW n \in Nat, b * n <= p - 1, NEW l \in Nat, p <= b * l
    PROVE  LET k == p \div b IN
           k \in Nat /\ p = b * k /\ n + 1 <= k /\ k <= l /\ b * (n + 1) <= p
<1> DEFINE k == p \div b
<1>1. p = b * k + (p % b)
  OBVIOUS
<1>2. k \in Nat
  BY BlockOrder
<1> HIDE DEF k
<1>3. p = b * k
  BY <1>1, <1>2
<1>4. \A x, y, z \in Nat : x >= y => z * x >= z * y
  BY Multiples
<1>5. b * n \in Nat /\ b * k \in Nat /\ b * l \in Nat /\ k \in Nat
  BY <1>2
<1>6. n + 1 <= k
  <2> SUFFICES ASSUME k <= n PROVE FALSE
    BY <1>5
  <2>1. b * n >= b * k
    BY <1>4, <1>5
  <2> QED
    BY <1>3, <1>5, <2>1
<1>7. k <= l
  <2> SUFFICES ASSUME l + 1 <= k PROVE FALSE
    BY <1>5
  <2>1. b * k >= b * (l + 1)
    BY <1>4, <1>5
  <2>2. b * (l + 1) = b * l + b
    OBVIOUS
  <2> QED
    BY <1>3, <1>5, <2>1, <2>2
<1>8. b * (n + 1) <= p
  BY <1>3, <1>4, <1>5, <1>6
<1> QED
  BY <1>3, <1>5, <1>6, <1>7, <1>8 DEF k

LEMMA CollectedIn ==
    ASSUME in_buf \in Seq(Byte), NEW k \in 1..len, NEW n \in Nat, n + 1 <= k
    PROVE  /\ SubSeq(in_buf, k - n, k - 1) \in Seq(Byte)
           /\ Append(SubSeq(in_buf, k - n, k - 1), in_buf[k]) \in Seq(Byte)
<1> DEFINE first == k - n
           last == k - 1
           T == Byte
<1>1. first \in Int /\ last \in Int /\ first >= 1 /\ last <= len /\ len \in Nat
  BY LenProperties DEF len
<1>2. \A i \in first..last : in_buf[i] \in T
  <2>1. \A i \in first..last : i \in 1..Len(in_buf)
    BY <1>1 DEF len
  <2> QED
    BY <2>1, ElementOfSeq
<1>3. in_buf[k] \in T
  BY ElementOfSeq DEF len
<1> HIDE DEF first, last, T
<1>4. SubSeq(in_buf, first, last) \in Seq(T)
  BY <1>1, <1>2, SubSeqProperties
<1>5. Append(SubSeq(in_buf, first, last), in_buf[k]) \in Seq(T)
  BY <1>3, <1>4, AppendProperties
<1> QED
  BY <1>4, <1>5 DEF first, last, T

LEMMA WalkOneBitSound ==
    ASSUME StagesInv, WalkOneBit PROVE StagesInv' /\ OnlyLow
<1>1. stage = "flip1" /\ stage \in StageSet /\ stage \in FlipStages /\ pos <= Positions(stage)
  BY DEF WalkOneBit, At, StageSet, FlipStages
<1>2. PICK bufs : Execute(bufs, 1, 0)
  BY DEF WalkOneBit
<1>3. /\ stage' = stage /\ in_buf' = in_buf /\ out_buf' = in_buf /\ extras' = extras
      /\ eff_map' = eff_map /\ eff_cnt' = eff_cnt /\ UNCHANGED <<extras, auto_files>>
  BY DEF WalkOneBit, message, effects, StagesInv, PlaceSound
<1>4. Mutants(stage) = 1 /\ Mutants(stage)' = Mutants(stage)
  <2>1. Mutants(stage) = 1
    BY <1>1, LengthFacts, MutantsFacts DEF StagesInv
  <2>2. Mutants(stage)' = 1
    BY <1>1, <1>3 DEF Mutants
  <2> QED
    BY <2>1, <2>2
<1>5. PlaceSound' /\ CountSound'
  BY <1>1, <1>2, <1>3, <1>4, LengthFacts, Advance DEF StagesInv
<1>6. EffectsSound'
  <2>1. Flagged' = Flagged /\ EFF_ALEN' = EFF_ALEN
    BY <1>3 DEF Flagged, EFF_ALEN, len
  <2> QED
    BY <1>3, <2>1 DEF StagesInv, EffectsSound
<1>7. /\ in_buf \in Messages /\ pos \in Nat /\ pos >= 1 /\ a_len \in Nat /\ Bits * a_len <= pos - 1
      /\ Width(stage) <= len /\ pos' = pos + 1 /\ TokensSound
  BY <1>1, <1>2 DEF StagesInv, PlaceSound, CountSound, CollectSound, Execute
<1>8. /\ in_buf \in Seq(Byte) /\ len \in Nat /\ Bits \in Nat /\ Bits >= 1 /\ pos <= Bits * len
  BY <1>1, <1>7, LenFacts, PositionFacts
<1> DEFINE k == pos \div Bits
<1>9. CASE UNCHANGED <<collecting, a_extras, auto_changed>>
  <2>1. CollectSound'
    <3> DEFINE x == Bits * a_len
    <3>1. a_len' = a_len /\ x <= pos - 1 /\ x \in Nat
      BY <1>7, <1>8, <1>9, Multiples DEF collecting
    <3> HIDE DEF x
    <3>2. x <= pos' - 1
      BY <1>7, <3>1
    <3>3. Bits * a_len' <= pos' - 1
      BY <3>1, <3>2 DEF x
    <3> QED
      BY <1>7, <3>1, <3>3 DEF CollectSound
  <2>2. UNCHANGED tokens
    BY <1>3, <1>9 DEF tokens
  <2> QED
    BY <1>5, <1>6, <1>7, <2>1, <2>2, TokensStay DEF StagesInv
<1>10. CASE pos % Bits = 0 /\ \E cksum : Collect(k, cksum)
  <2>1. k \in Nat /\ pos = Bits * k /\ a_len + 1 <= k /\ k <= len /\ Bits * (a_len + 1) <= pos
    BY <1>7, <1>8, <1>10, ByteOfBit
  <2>2. PICK cksum : Collect(k, cksum)
    BY <1>10
  <2> HIDE DEF k
  <2> DEFINE collected == SubSeq(in_buf, k - a_len, k - 1)
  <2>3. collected \in Seq(Byte) /\ Append(collected, in_buf[k]) \in Seq(Byte)
    <3>1. k \in 1..len
      BY <1>7, <1>8, <2>1
    <3> QED
      BY <1>7, <1>8, <2>1, <3>1, CollectedIn
  <2>4. \/ AddToken(Append(collected, in_buf[k])) \/ AddToken(collected)
        \/ UNCHANGED <<a_extras, auto_changed>>
    BY <2>2 DEF Collect
  <2> HIDE DEF collected
  <2>5. TokensSound' /\ OnlyLow
    <3>1. CASE UNCHANGED <<a_extras, auto_changed>>
      BY <1>3, <1>7, <3>1, TokensStay DEF tokens
    <3> QED
      BY <1>3, <1>7, <2>3, <2>4, <3>1, AddTokenSound
  <2>6. CollectSound'
    <3>1. a_len' \in {0, 1, a_len, a_len + 1}
      BY <1>7, <2>2 DEF Collect
    <3>2. a_len' \in Nat /\ a_len' <= a_len + 1
      BY <1>7, <3>1
    <3> DEFINE n == a_len + 1
               x == Bits * a_len'
               y == Bits * n
    <3>3. n \in Nat /\ a_len' <= n /\ y <= pos
      BY <1>7, <2>1, <3>2
    <3> HIDE DEF n
    <3>4. x \in Nat /\ y \in Nat /\ y >= x
      BY <1>8, <3>2, <3>3, Multiples
    <3> HIDE DEF x, y
    <3>5. x <= pos' - 1
      BY <1>7, <3>3, <3>4
    <3>6. Bits * a_len' <= pos' - 1
      BY <3>5 DEF x
    <3> QED
      BY <3>2, <3>6 DEF CollectSound
  <2> QED
    BY <1>5, <1>6, <2>5, <2>6 DEF StagesInv
<1> QED
  BY <1>9, <1>10 DEF WalkOneBit

-----------------------------------------------------------------------------
(* From one stage to the next                                              *)

LEMMA InitialEffectsSound ==
    ASSUME in_buf \in Messages, in_buf' = in_buf, InitialEffects
    PROVE  EffectsSound'
<1>1. len \in Nat /\ len >= 1 /\ len' = len /\ EFF_ALEN' = EFF_ALEN
  BY LenFacts DEF len, EFF_ALEN
<1>2. /\ EFF_APOS(1) \in 0..EFF_ALEN - 1 /\ EFF_APOS(len) \in 0..EFF_ALEN - 1 /\ EFF_ALEN \in Nat
  BY <1>1, BlockFacts
<1> DEFINE ends == {0, EFF_APOS(len)}
<1>3. /\ eff_map' = [b \in 0..EFF_ALEN - 1 |-> b \in ends] /\ eff_cnt' = Cardinality(ends)
  BY DEF InitialEffects
<1>4. ends \subseteq 0..EFF_ALEN - 1
  BY <1>2
<1>5. IsFiniteSet(ends) /\ Cardinality(ends) \in Nat
  <2>1. IsFiniteSet(0..EFF_ALEN - 1)
    BY <1>2, FS_Interval
  <2> HIDE DEF ends
  <2>2. IsFiniteSet(ends)
    BY <1>4, <2>1, FS_Subset
  <2> QED
    BY <2>2, FS_CardinalityType
<1> HIDE DEF ends
<1>6. Flagged' = ends
  BY <1>3, <1>4 DEF Flagged
<1>7. eff_map' \in [0..EFF_ALEN - 1 -> BOOLEAN]
  BY <1>3
<1> QED
  BY <1>1, <1>3, <1>5, <1>6, <1>7 DEF EffectsSound

LEMMA FinishEffectsSound ==
    ASSUME EffectsSound, stage = "flip8", in_buf \in Messages, in_buf' = in_buf, FinishEffects
    PROVE  EffectsSound'
<1>1. len \in Nat /\ len >= 1 /\ len' = len /\ EFF_ALEN' = EFF_ALEN
  BY LenFacts DEF len, EFF_ALEN
<1>2. /\ eff_cnt \in Nat /\ IsFiniteSet(Flagged) /\ eff_cnt <= Cardinality(Flagged) + 1
      /\ eff_map \in [0..EFF_ALEN - 1 -> BOOLEAN]
  BY DEF EffectsSound
<1>3. /\ eff_map' = eff_map \/ eff_map' = [b \in DOMAIN eff_map |-> TRUE]
      /\ eff_cnt' = eff_cnt
  BY DEF FinishEffects
<1>4. eff_map' \in [0..EFF_ALEN - 1 -> BOOLEAN] /\ Flagged \subseteq Flagged'
  BY <1>2, <1>3 DEF Flagged
<1>5. Flagged' \subseteq 0..EFF_ALEN - 1
  BY <1>4 DEF Flagged
<1>6. IsFiniteSet(0..EFF_ALEN - 1)
  <2>1. EFF_ALEN - 1 \in Int
    BY <1>1, BlockFacts
  <2> QED
    BY <2>1, FS_Interval
<1>7. IsFiniteSet(Flagged') /\ Cardinality(Flagged) <= Cardinality(Flagged')
  <2>1. IsFiniteSet(Flagged')
    BY <1>5, <1>6, FS_Subset
  <2> QED
    BY <1>4, <2>1, FS_Subset
<1>8. Cardinality(Flagged) \in Nat /\ Cardinality(Flagged') \in Nat
  BY <1>2, <1>7, FS_CardinalityType
<1>9. eff_cnt' <= Cardinality(Flagged') + 1
  BY <1>2, <1>3, <1>7, <1>8
<1> QED
  BY <1>1, <1>2, <1>3, <1>4, <1>7, <1>9 DEF EffectsSound

LEMMA EndStageEffects ==
    ASSUME StagesInv, EndStage, stage' = "flip8" => stage = "flip4"
    PROVE  EffectsSound'
<1>1. in_buf \in Messages /\ in_buf' = in_buf /\ EffectsSound
  BY DEF EndStage, message, StagesInv, PlaceSound
<1>2. CASE stage = "flip4"
  BY <1>1, <1>2, InitialEffectsSound DEF EndStage
<1>3. CASE stage = "flip8"
  BY <1>1, <1>3, FinishEffectsSound DEF EndStage
<1>4. CASE stage \notin {"flip4", "flip8"}
  <2>1. eff_map' = eff_map /\ eff_cnt' = eff_cnt /\ stage' # "flip8"
    BY <1>4 DEF EndStage, effects
  <2>2. Flagged' = Flagged
    BY <2>1 DEF Flagged
  <2> QED
    BY <1>1, <2>1, <2>2 DEF EffectsSound
<1> QED
  BY <1>2, <1>3, <1>4

(* The stage that comes next has a message that is long enough, and flip8  *)
(* comes behind flip4 only.                                                *)
LEMMA NextStage ==
    ASSUME in_buf \in Messages, EndStage
    PROVE  \/ stage' = "havoc" /\ UNCHANGED <<counts, pos>>
           \/ \E s \in StageSet :
                /\ stage' = s /\ Width(s) <= len /\ s # "flip1" /\ (s = "flip8" => stage = "flip4")
                /\ pos' = 1 /\ stage_cur' = 0 /\ stage_max' = StageMax(s)
<1> DEFINE here == CHOOSE k \in DOMAIN Stages : Stages[k] = stage
           left == {k \in DOMAIN Stages : k > here /\ Applies(Stages[k])}
<1>1. stage \in StageSet
  BY StageNames DEF EndStage
<1>2. here \in 1..15 /\ Stages[here] = stage
  <2>1. \E k \in DOMAIN Stages : Stages[k] = stage
    BY <1>1, StageNames DEF ToSet
  <2> QED
    BY <2>1, StageNames
<1>3. \/ stage' = "havoc" /\ UNCHANGED <<counts, pos>>
      \/ /\ left # {} /\ stage' = Stages[Min(left)] /\ pos' = 1
         /\ stage_cur' = 0 /\ stage_max' = StageMax(stage')
  BY DEF EndStage
<1> HIDE DEF here
<1>4. SUFFICES ASSUME left # {}, stage' = Stages[Min(left)], pos' = 1,
                      stage_cur' = 0, stage_max' = StageMax(stage')
               PROVE  \E s \in StageSet :
                        /\ stage' = s /\ Width(s) <= len /\ s # "flip1"
                        /\ (s = "flip8" => stage = "flip4")
                        /\ pos' = 1 /\ stage_cur' = 0 /\ stage_max' = StageMax(s)
  BY <1>3
<1> DEFINE m == Min(left)
<1>5. m \in left /\ \A k \in left : m <= k
  <2>1. left \in SUBSET Nat
    BY StageNames
  <2> HIDE DEF left
  <2>2. \E x \in left : \A k \in left : x <= k
    BY <1>4, <2>1, LeastElement
  <2> QED
    BY <2>2 DEF Min
<1>6. m \in 1..15 /\ m > here /\ Applies(Stages[m])
  BY <1>5, StageNames
<1>7. \A k \in 1..15 : k > here /\ Applies(Stages[k]) => m <= k
  BY <1>5, StageNames
<1> HIDE DEF left
<1> DEFINE s == Stages[m]
<1>8. stage' = s /\ stage_max' = StageMax(s)
  BY <1>4
<1> HIDE DEF m
<1>9. s \in StageSet /\ Width(s) <= len
  BY <1>6, StageNames DEF Applies
<1>10. s # "flip1"
  BY <1>2, <1>6, StageNames
<1>11. s = "flip8" => stage = "flip4"
  <2> SUFFICES ASSUME s = "flip8" PROVE here = 3
    BY <1>2, StageNames
  <2>1. m = 4
    BY <1>6, StageNames
  <2>2. Applies("flip4")
    <3>1. len >= 1 /\ len \in Nat
      BY LenFacts
    <3> QED
      BY <3>1 DEF Applies, Width
  <2>3. ~(3 > here)
    BY <1>7, <2>1, <2>2, StageNames
  <2> QED
    BY <1>2, <1>6, <2>1, <2>3
<1> QED
  BY <1>4, <1>8, <1>9, <1>10, <1>11

LEMMA EndStageSound ==
    ASSUME StagesInv, EndStage PROVE StagesInv'
<1>1. /\ in_buf \in Messages /\ in_buf' = in_buf /\ out_buf' = in_buf
      /\ extras' = extras /\ a_extras' = a_extras /\ auto_changed' = auto_changed
      /\ auto_files' = auto_files
      /\ stage_cur \in Nat /\ stage_max \in Int /\ pos \in Nat /\ 1 <= pos /\ pos <= Bits * len + 1
  BY DEF EndStage, message, tokens, StagesInv, PlaceSound
<1>2. len' = len /\ Bits * len \in Nat
  BY <1>1, LenFacts DEF len
<1>3. TokensSound'
  BY <1>1 DEF StagesInv, TokensSound
<1>4. CASE stage' = "havoc" /\ UNCHANGED <<counts, pos>>
  <2>1. PlaceSound'
    <3>1. UNCHANGED <<stage_cur, stage_max, pos>>
      BY <1>4 DEF counts
    <3> QED
      BY <1>1, <1>2, <1>4, <3>1 DEF PlaceSound
  <2>2. CountSound' /\ CollectSound'
    BY <1>4 DEF CountSound, CollectSound, StageSet, FlipStages, ArithStages, IntStages, ExtStages
  <2>3. EffectsSound'
    BY <1>4, EndStageEffects
  <2> QED
    BY <1>3, <2>1, <2>2, <2>3 DEF StagesInv
<1>5. ASSUME NEW s \in StageSet,
             stage' = s, Width(s) <= len, s # "flip1", s = "flip8" => stage = "flip4",
             pos' = 1, stage_cur' = 0, stage_max' = StageMax(s)
      PROVE  StagesInv'
  <2>1. /\ Positions(s) \in Nat /\ (s = "ext_UI" => Positions(s) = len + 1)
    BY <1>1, <1>5, PositionFacts
  <2>2. /\ Mutants(s) \in Nat /\ (s = "ext_UI" => Mutants(s) = Len(extras)) /\ Len(extras) \in Nat
    BY <1>5, LengthFacts, MutantsFacts DEF StagesInv
  <2>3. len \in Nat
    BY <1>1, LenFacts
  <2> DEFINE over == IF s = "ext_UI" THEN Len(extras) ELSE 0
             all == Mutants(s) * Positions(s)
  <2>4. StageMax(s) = all - over /\ all \in Nat
    <3>1. CASE s = "ext_UI"
      <4>1. StageMax(s) = Len(extras) * len /\ all = Len(extras) * (len + 1)
        BY <2>1, <2>2, <3>1 DEF StageMax
      <4>2. \A n, l \in Nat : n * l = n * (l + 1) - n /\ n * (l + 1) \in Nat
        OBVIOUS
      <4> QED
        BY <2>2, <2>3, <3>1, <4>1, <4>2
    <3>2. CASE s # "ext_UI"
      <4>1. StageMax(s) = all
        BY <3>2 DEF StageMax
      <4>2. all \in Nat
        <5>1. \A n, l \in Nat : n * l \in Nat
          OBVIOUS
        <5> QED
          BY <2>1, <2>2, <5>1
      <4> HIDE DEF all
      <4>3. all - over = all
        BY <3>2, <4>2
      <4> QED
        BY <4>1, <4>2, <4>3
    <3> QED
      BY <3>1, <3>2
  <2>5. /\ Mutants(stage)' = Mutants(s) /\ Positions(stage)' = Positions(s)
        /\ Width(stage)' = Width(s) /\ Uncounted' = over
    <3>1. Mutants(stage)' = Mutants(s)
      BY <1>1, <1>5 DEF Mutants, AutoUsed, Shorter, Width, Interesting
    <3>2. Positions(stage)' = Positions(s)
      BY <1>1, <1>5 DEF Positions, len, Width
    <3>3. Width(stage)' = Width(s) /\ Uncounted' = over
      BY <1>1, <1>5 DEF Width, Uncounted
    <3> QED
      BY <3>1, <3>2, <3>3
  <2>6. PlaceSound'
    <3>1. stage_max' \in Int
      <4> HIDE DEF all
      <4>1. over \in Nat
        BY <2>2
      <4> QED
        BY <1>5, <2>4, <4>1
    <3>2. 1 <= Bits * len' + 1
      BY <1>2
    <3> QED
      BY <1>1, <1>5, <3>1, <3>2 DEF PlaceSound
  <2>7. CountSound'
    <3>1. Positions(s) - pos' + 1 = Positions(s) /\ pos' <= Positions(s) + 1
      BY <1>5, <2>1
    <3>2. stage_max' - stage_cur' = all - over
      <4> HIDE DEF all
      <4>1. over \in Nat
        BY <2>2
      <4> QED
        BY <1>5, <2>4, <4>1
    <3> QED
      BY <1>2, <1>5, <2>5, <3>1, <3>2 DEF CountSound
  <2>8. EffectsSound' /\ CollectSound'
    BY <1>5, EndStageEffects DEF CollectSound
  <2> QED
    BY <1>3, <2>6, <2>7, <2>8 DEF StagesInv
<1> QED
  BY <1>1, <1>4, <1>5, NextStage

LEMMA SaveTokensSound ==
    ASSUME StagesInv, SaveTokens PROVE StagesInv' /\ OnlyLow
<1>1. /\ UNCHANGED <<stage, pos, in_buf, out_buf, eff_map, eff_cnt, stage_cur, stage_max,
                     a_len, extras, a_extras>>
      /\ auto_files' = Saved(a_extras) /\ auto_changed' = FALSE
  BY DEF SaveTokens, message, effects, counts, collecting
<1>2. len' = len /\ EFF_ALEN' = EFF_ALEN /\ Flagged' = Flagged /\ Uncounted' = Uncounted
  BY <1>1 DEF len, EFF_ALEN, Flagged, Uncounted
<1>3. /\ Mutants(stage)' = Mutants(stage) /\ Positions(stage)' = Positions(stage)
      /\ Width(stage)' = Width(stage)
  BY <1>1, <1>2, SameMutants DEF Positions, len, Width
<1>4. PlaceSound' /\ CountSound' /\ EffectsSound' /\ CollectSound'
  <2>1. PlaceSound'
    BY <1>1, <1>2 DEF StagesInv, PlaceSound
  <2>2. CountSound'
    BY <1>1, <1>2, <1>3 DEF StagesInv, CountSound
  <2>3. EffectsSound' /\ CollectSound'
    BY <1>1, <1>2 DEF StagesInv, EffectsSound, CollectSound
  <2> QED
    BY <2>1, <2>2, <2>3
<1>5. TokensSound'
  <2>1. Saved(a_extras) \in Seq(Seq(Byte))
    BY SavedFacts DEF StagesInv, TokensSound
  <2> QED
    BY <1>1, <2>1 DEF StagesInv, TokensSound, Saved
<1>6. OnlyLow
  BY <1>1, SameFacts DEF OnlyLow
<1> QED
  BY <1>4, <1>5, <1>6 DEF StagesInv

(* Behind the stages nothing is counted and no block is looked at.         *)
LEMMA Freed ==
    ASSUME StagesInv, stage' \in {"abandoned", "resumed"}, in_buf' = in_buf, out_buf' = in_buf,
           pos' = 1, eff_map' = <<>>, eff_cnt' = 1, stage_cur' = 0, stage_max' = 0, TokensSound'
    PROVE  StagesInv'
<1>1. in_buf \in Messages /\ Bits * len \in Nat /\ len' = len
  BY LenFacts DEF StagesInv, PlaceSound, len
<1>2. PlaceSound'
  BY <1>1 DEF PlaceSound
<1>3. stage' \notin StageSet
  BY DEF StageSet, FlipStages, ArithStages, IntStages, ExtStages
<1>4. CountSound' /\ CollectSound'
  BY <1>3 DEF CountSound, CollectSound, StageSet, FlipStages
<1>5. EffectsSound'
  <2>1. Flagged' = {}
    BY DEF Flagged
  <2>2. IsFiniteSet(Flagged') /\ Cardinality(Flagged') = 0
    BY <2>1, FS_EmptySet
  <2>3. stage' # "flip8"
    OBVIOUS
  <2> QED
    BY <2>2, <2>3 DEF EffectsSound
<1> QED
  BY <1>2, <1>4, <1>5 DEF StagesInv

LEMMA AbandonSound ==
    ASSUME StagesInv, Abandon PROVE StagesInv'
<1>1. /\ stage' \in {"abandoned", "resumed"} /\ in_buf' = in_buf /\ out_buf' = in_buf
      /\ pos' = 1 /\ eff_map' = <<>> /\ eff_cnt' = 1 /\ stage_cur' = 0 /\ stage_max' = 0
  BY DEF Abandon
<1>2. TokensSound'
  BY TokensStay DEF Abandon, StagesInv
<1> QED
  BY <1>1, <1>2, Freed

LEMMA ResumeSound ==
    ASSUME StagesInv, Resume PROVE StagesInv'
<1>1. /\ stage' \in {"abandoned", "resumed"} /\ in_buf' = in_buf /\ out_buf' = in_buf
      /\ pos' = 1 /\ eff_map' = <<>> /\ eff_cnt' = 1 /\ stage_cur' = 0 /\ stage_max' = 0
  BY DEF Resume, message, StagesInv, PlaceSound
<1>2. /\ a_extras' \in load_auto(auto_files) /\ auto_changed' = (a_extras' # <<>>)
      /\ extras' = extras /\ auto_files' = auto_files
  BY DEF Resume
<1>3. TokensSound'
  <2>1. ListSound(a_extras')
    BY <1>2, LoadedSound DEF StagesInv, TokensSound
  <2>2. auto_changed' \in BOOLEAN /\ (auto_changed' \/ a_extras' = <<>>)
    BY <1>2, Zenon
  <2> QED
    BY <1>2, <2>1, <2>2 DEF StagesInv, TokensSound
<1> QED
  BY <1>1, <1>3, Freed

LEMMA InitSound ==
    ASSUME StagesInit PROVE StagesInv
<1>1. /\ in_buf \in Messages /\ out_buf = in_buf /\ stage = "flip1" /\ pos = 1 /\ stage_cur = 0
      /\ stage_max = Bits * Len(in_buf) /\ a_len = 0 /\ eff_map = <<>> /\ eff_cnt = 1
      /\ extras \in {<<>>} \cup UNION {load_extras(d) : d \in Dictionaries}
      /\ auto_changed = (a_extras # <<>>)
  BY DEF StagesInit
<1>2. PICK t \in Tokens : auto_files = t.files /\ a_extras \in Found(t.files, t.earlier)
  BY DEF StagesInit
<1>3. Bits * len \in Nat /\ len \in Nat /\ len >= 1 /\ Bits \in Nat
  BY <1>1, LenFacts
<1>4. extras \in Seq(Seq(Byte)) /\ Ordered(extras)
  <2>1. CASE extras = <<>>
    <3>1. <<>> \in Seq(Seq(Byte)) /\ DOMAIN <<>> = {}
      BY EmptySeq
    <3> QED
      BY <2>1, <3>1 DEF Ordered
  <2>2. CASE extras # <<>>
    <3>1. PICK d \in Dictionaries : extras \in load_extras(d)
      BY <1>1, <2>2
    <3> QED
      BY <3>1, ExtrasFacts
  <2> QED
    BY <2>1, <2>2
<1>5. stage \in StageSet /\ stage \in FlipStages
  BY <1>1 DEF StageSet, FlipStages
<1>6. PlaceSound
  <2>1. 1 <= Bits * len + 1
    BY <1>3
  <2> QED
    BY <1>1, <1>3, <1>5, <2>1 DEF PlaceSound, len
<1>7. TokensSound
  <2>1. t.files \in Seq(Seq(Byte)) /\ t.earlier \in Seq(Seq(Byte))
    BY InputsAssumption
  <2>2. a_extras \in AddedInTurn(load_auto(t.files), extras, t.earlier)
    BY <1>2 DEF Found
  <2>3. \A l \in load_auto(t.files) : ListSound(l)
    BY <2>1, LoadedSound
  <2>4. ListSound(a_extras)
    BY <2>1, <2>2, <2>3, TurnsSound
  <2>5. auto_changed \in BOOLEAN /\ (auto_changed \/ a_extras = <<>>)
    BY <1>1, Zenon
  <2> QED
    BY <1>2, <1>4, <2>1, <2>4, <2>5 DEF TokensSound
<1>8. CountSound
  <2>1. Width(stage) <= len
    BY <1>1, <1>3 DEF Width
  <2>2. Positions(stage) = Bits * len
    BY <1>1, <1>5, <2>1, PositionFacts
  <2>3. Mutants(stage) = 1 /\ Uncounted = 0
    BY <1>1, <1>5, <1>7, LengthFacts, MutantsFacts DEF Uncounted
  <2>4. stage_max = Bits * len
    BY <1>1 DEF len
  <2> DEFINE m == Bits * len
  <2>5. m \in Nat /\ stage_max = m /\ Positions(stage) = m
    BY <1>3, <2>2, <2>4
  <2> HIDE DEF m
  <2>6. stage_max - stage_cur = Mutants(stage) * (Positions(stage) - pos + 1) - Uncounted
    BY <1>1, <2>3, <2>5
  <2>7. pos <= Positions(stage) + 1
    BY <1>1, <2>5
  <2> QED
    BY <2>1, <2>6, <2>7 DEF CountSound
<1>9. EffectsSound
  <2>1. Flagged = {}
    BY <1>1 DEF Flagged
  <2>2. IsFiniteSet(Flagged) /\ Cardinality(Flagged) = 0
    BY <2>1, FS_EmptySet
  <2> QED
    BY <1>1, <2>2 DEF EffectsSound
<1>10. CollectSound
  <2>1. \A n \in Nat : n * 0 = 0
    OBVIOUS
  <2> QED
    BY <1>1, <1>3, <2>1 DEF CollectSound
<1> QED
  BY <1>6, <1>7, <1>8, <1>9, <1>10 DEF StagesInv

LEMMA StutterSound ==
    ASSUME StagesInv, UNCHANGED stagesVars PROVE StagesInv' /\ OnlyLow
<1>1. /\ UNCHANGED <<stage, pos, in_buf, out_buf, eff_map, eff_cnt, stage_cur, stage_max,
                     a_len, extras, a_extras, auto_files, auto_changed>>
  BY DEF stagesVars, message, effects, counts, collecting, tokens
<1>2. len' = len /\ EFF_ALEN' = EFF_ALEN /\ Flagged' = Flagged /\ Uncounted' = Uncounted
  BY <1>1 DEF len, EFF_ALEN, Flagged, Uncounted
<1>3. /\ Mutants(stage)' = Mutants(stage) /\ Positions(stage)' = Positions(stage)
      /\ Width(stage)' = Width(stage)
  BY <1>1, <1>2, SameMutants DEF Positions, len, Width
<1>4. PlaceSound' /\ CountSound' /\ EffectsSound' /\ CollectSound'
  <2>1. PlaceSound'
    BY <1>1, <1>2 DEF StagesInv, PlaceSound
  <2>2. CountSound'
    BY <1>1, <1>2, <1>3 DEF StagesInv, CountSound
  <2>3. EffectsSound' /\ CollectSound'
    BY <1>1, <1>2 DEF StagesInv, EffectsSound, CollectSound
  <2> QED
    BY <2>1, <2>2, <2>3
<1>5. TokensSound' /\ OnlyLow
  BY <1>1, TokensStay DEF StagesInv, tokens
<1> QED
  BY <1>4, <1>5 DEF StagesInv

LEMMA StepSound ==
    ASSUME StagesInv, StagesNext PROVE StagesInv'
<1>1. CASE WalkOneBit BY <1>1, WalkOneBitSound
<1>2. CASE WalkBits BY <1>2, WalkBitsSound
<1>3. CASE WalkByte BY <1>3, WalkByteSound
<1>4. CASE PassOver BY <1>4, PassOverSound
<1>5. CASE WalkBytes BY <1>5, WalkBytesSound
<1>6. CASE AddAndSubtract BY <1>6, AddAndSubtractSound
<1>7. CASE SetInteresting BY <1>7, SetInterestingSound
<1>8. CASE OverwriteWithUserExtras BY <1>8, OverwriteWithUserExtrasSound
<1>9. CASE InsertUserExtras BY <1>9, InsertUserExtrasSound
<1>10. CASE OverwriteWithAutoExtras BY <1>10, OverwriteWithAutoExtrasSound
<1>11. CASE EndStage BY <1>11, EndStageSound
<1>12. CASE SaveTokens BY <1>12, SaveTokensSound
<1>13. CASE Abandon BY <1>13, AbandonSound
<1>14. CASE Resume BY <1>14, ResumeSound
<1> QED
  BY <1>1, <1>2, <1>3, <1>4, <1>5, <1>6, <1>7, <1>8, <1>9, <1>10, <1>11, <1>12, <1>13, <1>14
     DEF StagesNext

LEMMA StagesInvariance == StagesSpec => []StagesInv
<1>1. StagesInit => StagesInv
  BY InitSound
<1>2. StagesInv /\ [StagesNext]_stagesVars => StagesInv'
  BY StepSound, StutterSound
<1> QED
  BY <1>1, <1>2, PTL DEF StagesSpec

-----------------------------------------------------------------------------
(* What the stages promise                                                 *)

(* Between two positions the buffer is the message again, the counters of  *)
(* a stage agree when it ends, and both dictionaries stay in order, for    *)
(* every message, dictionary and interleaving of saves and abandons.       *)
THEOREM StagesCorrect == StagesSpec => [](StagesTypes /\ BufferRestored /\ StageCounts)
<1>1. StagesInv => StagesTypes /\ BufferRestored /\ StageCounts
  <2> SUFFICES ASSUME StagesInv PROVE StagesTypes /\ BufferRestored /\ StageCounts
    OBVIOUS
  <2>1. BufferRestored
    BY DEF StagesInv, PlaceSound, BufferRestored
  <2>2. StagesTypes
    <3>1. /\ stage \in ToSet(Stages) \cup {"havoc", "abandoned", "resumed"}
          /\ in_buf \in Messages /\ Len(out_buf) = len /\ stage_cur >= 0
      BY StageNames DEF StagesInv, PlaceSound, len
    <3>2. pos \in 1..Bits * len + 1
      <4>1. Bits * len \in Nat
        BY LenFacts DEF StagesInv, PlaceSound
      <4> QED
        BY <4>1 DEF StagesInv, PlaceSound
    <3>3. eff_cnt <= Cardinality({b \in DOMAIN eff_map : eff_map[b]}) + 1
      BY DEF StagesInv, EffectsSound, Flagged
    <3>4. /\ Ordered(extras) /\ Ordered(Saved(a_extras)) /\ Len(a_extras) <= MAX_AUTO_EXTRAS
          /\ \A j, k \in DOMAIN a_extras : Same(a_extras[j].data, a_extras[k].data) => j = k
      BY DEF StagesInv, TokensSound, ListSound, Distinct, NoTwins
    <3> QED
      BY <3>1, <3>2, <3>3, <3>4 DEF StagesTypes
  <2>3. StageCounts
    <3> SUFFICES ASSUME stage \in StageSet, pos > Positions(stage)
                 PROVE  stage_cur = stage_max + Uncounted
      BY StageNames DEF StageCounts, Uncounted
    <3>1. /\ stage_max - stage_cur = Mutants(stage) * (Positions(stage) - pos + 1) - Uncounted
          /\ pos <= Positions(stage) + 1 /\ in_buf \in Messages /\ Width(stage) <= len
          /\ stage_cur \in Nat /\ stage_max \in Int /\ pos \in Nat
      BY DEF StagesInv, CountSound, PlaceSound
    <3>2. Positions(stage) \in Nat
      BY <3>1, PositionFacts
    <3>3. Mutants(stage) \in Nat /\ Len(extras) \in Nat
      BY LengthFacts, MutantsFacts DEF StagesInv
    <3>4. Positions(stage) - pos + 1 = 0
      BY <3>1, <3>2
    <3>5. Mutants(stage) * 0 = 0
      BY <3>3
    <3>6. Uncounted \in Nat
      BY <3>3 DEF Uncounted
    <3> QED
      BY <3>1, <3>4, <3>5, <3>6
  <2> QED
    BY <2>1, <2>2, <2>3
<1> QED
  BY <1>1, StagesInvariance, PTL

(* The step of EvictsUnpopular.                                            *)
Outlives ==
    stage' # "flip1" \/ stage # "flip1" \/
       \A k \in DOMAIN a_extras :
          (\A j \in DOMAIN a_extras' : ~Same(a_extras'[j].data, a_extras[k].data)) =>
             2 * Cardinality({j \in (DOMAIN a_extras) \ {k} : a_extras[j].hit_cnt >= a_extras[k].hit_cnt})
                >= MAX_AUTO_EXTRAS - 1

LEMMA LowHasHalfAbove ==
    ASSUME ListSound(a_extras), Len(a_extras) = MAX_AUTO_EXTRAS, NEW k \in DOMAIN a_extras,
           k \in BottomHalf
    PROVE  2 * Cardinality({j \in (DOMAIN a_extras) \ {k} : a_extras[j].hit_cnt >= a_extras[k].hit_cnt})
                >= MAX_AUTO_EXTRAS - 1
<1> DEFINE above == {j \in (DOMAIN a_extras) \ {k} : a_extras[j].hit_cnt >= a_extras[k].hit_cnt}
<1>1. /\ MAX_AUTO_EXTRAS \in Nat /\ USE_AUTO_EXTRAS \in Nat
      /\ 2 * USE_AUTO_EXTRAS <= MAX_AUTO_EXTRAS /\ DOMAIN a_extras = 1..MAX_AUTO_EXTRAS
  BY SizesAssumption, SavedFacts
<1>2. /\ k \in Nat /\ k - 1 >= MAX_AUTO_EXTRAS \div 2 /\ k > USE_AUTO_EXTRAS
      /\ k <= MAX_AUTO_EXTRAS /\ 2 * (k - 1) >= MAX_AUTO_EXTRAS - 1
  BY <1>1 DEF BottomHalf
<1>3. \A j \in 1..k - 1 : a_extras[j].hit_cnt >= a_extras[k].hit_cnt
  BY <1>1, <1>2 DEF ListSound, UsedFirst
<1>4. 1..k - 1 \subseteq above /\ above \subseteq 1..MAX_AUTO_EXTRAS
  BY <1>1, <1>2, <1>3
<1> HIDE DEF above
<1>5. IsFiniteSet(above) /\ Cardinality(above) >= Cardinality(1..k - 1)
  <2>1. IsFiniteSet(1..MAX_AUTO_EXTRAS)
    BY <1>1, FS_Interval
  <2>2. IsFiniteSet(above)
    BY <1>4, <2>1, FS_Subset
  <2>3. Cardinality(1..k - 1) <= Cardinality(above)
    BY <1>4, <2>2, FS_Subset
  <2>4. Cardinality(above) \in Nat /\ Cardinality(1..k - 1) \in Nat
    <3>1. IsFiniteSet(1..k - 1)
      BY <1>4, <2>2, FS_Subset
    <3> QED
      BY <2>2, <3>1, FS_CardinalityType
  <2> QED
    BY <2>2, <2>3, <2>4
<1>6. Cardinality(1..k - 1) = k - 1
  <2> DEFINE m == k - 1
  <2>1. m \in Nat
    BY <1>2, <1>1
  <2> HIDE DEF m
  <2>2. Cardinality(1..m) = IF 1 > m THEN 0 ELSE m - 1 + 1
    BY <2>1, FS_Interval
  <2>3. Cardinality(1..m) = m
    BY <2>1, <2>2
  <2> QED
    BY <2>3 DEF m
<1>7. Cardinality(above) \in Nat /\ Cardinality(above) >= k - 1
  BY <1>5, <1>6, FS_CardinalityType
<1>8. 2 * Cardinality(above) >= MAX_AUTO_EXTRAS - 1
  BY <1>1, <1>2, <1>7
<1> QED
  BY <1>8 DEF above

LEMMA StepOutlives ==
    ASSUME StagesInv, [StagesNext]_stagesVars PROVE Outlives
<1> SUFFICES ASSUME stage = "flip1", stage' = "flip1",
                    NEW k \in DOMAIN a_extras,
                    \A j \in DOMAIN a_extras' : ~Same(a_extras'[j].data, a_extras[k].data)
             PROVE  2 * Cardinality({j \in (DOMAIN a_extras) \ {k} :
                                       a_extras[j].hit_cnt >= a_extras[k].hit_cnt})
                       >= MAX_AUTO_EXTRAS - 1
  BY DEF Outlives
<1>1. WalkOneBit \/ SaveTokens \/ UNCHANGED stagesVars
  <2>1. ~EndStage
    BY NextStage DEF StagesInv, PlaceSound
  <2>2. /\ ~WalkBits /\ ~WalkByte /\ ~PassOver /\ ~WalkBytes /\ ~AddAndSubtract
        /\ ~SetInteresting /\ ~OverwriteWithUserExtras /\ ~InsertUserExtras
        /\ ~OverwriteWithAutoExtras
    BY DEF WalkBits, WalkByte, PassOver, WalkBytes, AddAndSubtract, SetInteresting,
           OverwriteWithUserExtras, InsertUserExtras, OverwriteWithAutoExtras, At
  <2>3. ~Abandon /\ ~Resume
    BY DEF Abandon, Resume
  <2> QED
    BY <2>1, <2>2, <2>3 DEF StagesNext
<1>2. OnlyLow
  BY <1>1, WalkOneBitSound, SaveTokensSound, StutterSound
<1>3. Len(a_extras) = MAX_AUTO_EXTRAS /\ k \in BottomHalf
  BY <1>2 DEF OnlyLow
<1> QED
  BY <1>3, LowHasHalfAbove DEF StagesInv, TokensSound

(* A token in use that is found again outlives those that are not, and the *)
(* files give a resumed session all that the list had in use, whatever     *)
(* tokens are found and whenever they are saved.                           *)
THEOREM TokensAreKept == StagesSpec => TokensKept
<1>1. StagesInv => TokensSurvive
  <2> SUFFICES ASSUME StagesInv PROVE TokensSurvive
    OBVIOUS
  <2>1. ListSound(a_extras) /\ (auto_changed \/ auto_files = Saved(a_extras) \/ a_extras = <<>>)
    BY DEF StagesInv, TokensSound
  <2>2. \A list \in load_auto(Saved(a_extras)) :
           {list[k].data : k \in DOMAIN list} = ToSet(Saved(a_extras))
    BY <2>1, LoadedSaved
  <2> QED
    BY <2>1, <2>2 DEF TokensSurvive
<1>2. StagesInv /\ [StagesNext]_stagesVars => [Outlives]_stagesVars
  BY StepOutlives
<1>3. StagesSpec => []TokensSurvive
  BY <1>1, StagesInvariance, PTL
<1>4. StagesSpec => [][Outlives]_stagesVars
  BY <1>2, StagesInvariance, PTL DEF StagesSpec
<1>5. StagesSpec => EvictsUnpopular
  BY <1>4, PTL DEF EvictsUnpopular, Outlives
<1> QED
  BY <1>3, <1>5, PTL DEF TokensKept

=============================================================================
