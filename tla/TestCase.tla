------------------------------ MODULE TestCase ------------------------------
(***************************************************************************)
(* What AFLNet promises about the messages of a test case: the prefix M1   *)
(* and the suffix M3 of the seed are sent as they are, mutants replace M2  *)
(* as a whole, and the server is sent the messages of the test case in     *)
(* their order, none twice and none skipped.  Execution implements this    *)
(* with a linked list and pointers into it.                                *)
(***************************************************************************)
EXTENDS Naturals, Sequences

CONSTANTS
    Message,    \* the messages there are
    MaxMutated  \* the most messages a mutant of M2 is cut into

VARIABLES
    m1, m2, m3, \* the test case; all are empty when none is loaded
    wire        \* the messages sent in the session of this execution

vars == <<m1, m2, m3, wire>>

TestCase == m1 \o m2 \o m3

Init == m1 = <<>> /\ m2 = <<>> /\ m3 = <<>> /\ wire = <<>>

(* A seed is loaded and cut in three.                                      *)
Load ==
    /\ TestCase = <<>>
    /\ m1' \in Seq(Message) /\ m2' \in Seq(Message) /\ m3' \in Seq(Message)
    /\ m2' # <<>>
    /\ UNCHANGED wire

(* A mutant of M2 takes its place.                                         *)
Mutate ==
    /\ m2 # <<>>
    /\ m2' \in Seq(Message) /\ Len(m2') \in 1 .. MaxMutated
    /\ UNCHANGED <<m1, m3, wire>>

(* A new session with the server.                                          *)
Connect == wire' = <<>> /\ UNCHANGED <<m1, m2, m3>>

(* The next message of the test case is sent.                              *)
Send ==
    /\ Len(wire) < Len(TestCase)
    /\ wire' = Append(wire, TestCase[Len(wire) + 1])
    /\ UNCHANGED <<m1, m2, m3>>

(* The test case is done with, and its session closed.                     *)
Unload == m1' = <<>> /\ m2' = <<>> /\ m3' = <<>> /\ wire' = <<>>

Next == Load \/ Mutate \/ Connect \/ Send \/ Unload

Spec == Init /\ [][Next]_vars
=============================================================================
