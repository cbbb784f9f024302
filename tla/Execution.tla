----------------------------- MODULE Execution -----------------------------
(***************************************************************************)
(* One test case at a time: fuzz_one builds the linked list kl_messages    *)
(* with the pointers M2_prev and M2_next into it, common_fuzz_stuff        *)
(* splices a mutant in place of M2, send_over_network walks the list and   *)
(* talks to the server, and what comes back decides which regions of a     *)
(* kept test case are annotated with states.                               *)
(*                                                                         *)
(* klist.h keeps the messages in nodes of a memory pool; the last node is  *)
(* a sentinel whose storage takes the next message pushed.  A message is   *)
(* the sequence of regions it was made from.  The server is the            *)
(* environment: any send may be short, any receive may bring bytes or fail.*)
(***************************************************************************)
EXTENDS Integers, Sequences, SequencesExt

CONSTANTS
    MaxNodes,       \* bound: nodes a list may ever allocate
    MaxSeedLength,  \* bound: messages of a seed
    MaxMutant,      \* bound: regions extract_requests finds in a mutant
    MaxRegionCount, \* max_seed_region_count
    MaxExecutions   \* bound: executions of one seed

ASSUME ExecutionAssumption ==
    /\ MaxSeedLength \in Nat \ {0} /\ MaxMutant \in Nat \ {0}
    /\ MaxRegionCount \in Nat \ {0} /\ MaxExecutions \in Nat
    /\ MaxNodes \in Nat /\ MaxNodes > 2 * (MaxSeedLength + MaxMutant)

VARIABLES
    kl,              \* kl_messages: the klist_t and the nodes it has allocated
    M2_prev, M2_next,
    out_buf,         \* the regions of the mutant being tried
    pushed,          \* messages of it in the list
    prev_last_message,
    cur_it, next_it, \* the loop that frees the previous M2
    phase,
    fuzzing,         \* the list belongs to fuzz_one, not to the dry run
    executions,
    wire,            \* messages handed to net_send in this session
    it,              \* the loop that sends
    messages_sent, response_buf_size, response_bytes

listVars  == <<kl, M2_prev, M2_next>>
spliceVars == <<out_buf, pushed, prev_last_message, cur_it, next_it>>
netVars   == <<wire, it, messages_sent, response_buf_size, response_bytes>>
vars == <<listVars, spliceVars, phase, fuzzing, executions, netVars>>

Nodes == 0 .. MaxNodes - 1
NULL  == -1
Freed == <<>>   \* the val of a node that owns no message
Unset == -1     \* an element of response_bytes that was never written
None  == <<>>   \* response_bytes = NULL

-----------------------------------------------------------------------------
(* klist.h                                                                 *)

(* kl_init                                                                 *)
Kl == [head |-> 0, tail |-> 0, size |-> 0, mp |-> <<>>, allocated |-> 1,
       next |-> [n \in Nodes |-> NULL], val |-> [n \in Nodes |-> Freed]]

(* kmp_alloc: the node freed last, or a new one.                           *)
Alloc(k) == IF k.mp = <<>> THEN k.allocated ELSE Last(k.mp)

(* *kl_pushp(kl) = m                                                       *)
Pushp(k, m) ==
    LET p == Alloc(k)
    IN  [k EXCEPT !.val[k.tail] = m, !.next = [@ EXCEPT ![p] = NULL, ![k.tail] = p],
                  !.tail = p, !.size = @ + 1,
                  !.mp = IF @ = <<>> THEN @ ELSE Front(@),
                  !.allocated = IF k.mp = <<>> THEN @ + 1 ELSE @]

(* One turn of a loop over the list: the node after those seen, unless the *)
(* loop is at its end.                                                     *)
Onward(k) ==
    [seen \in Seq(Nodes) |->
        LET node == IF seen = <<>> THEN k.head ELSE k.next[Last(seen)]
        IN  IF node \in {k.tail, NULL} THEN seen ELSE Append(seen, node)]

(* The nodes that the loop visits, within as many turns as there are nodes. *)
NodesOf(k) ==
    LET visited[turns \in 0 .. k.allocated] ==
          IF turns = 0 THEN <<>> ELSE Onward(k)[visited[turns - 1]]
    IN  visited[k.allocated]

(* The place of a node in a sequence that has it.                          *)
Place(node, nodes) == CHOOSE i \in 1 .. Len(nodes) : nodes[i] = node

Messages(k, nodes) == [i \in 1 .. Len(nodes) |-> k.val[nodes[i]]]

-----------------------------------------------------------------------------

Init ==
    /\ kl = Kl /\ M2_prev = NULL /\ M2_next = NULL
    /\ out_buf = <<>> /\ pushed = 0 /\ prev_last_message = NULL
    /\ cur_it = NULL /\ next_it = NULL
    /\ phase = "none" /\ fuzzing = FALSE /\ executions = 0
    /\ wire = <<>> /\ it = NULL
    /\ messages_sent = 0 /\ response_buf_size = 0 /\ response_bytes = None

(* construct_kl_messages: the next message of the seed.                    *)
Construct ==
    /\ phase \in {"none", "construct"} /\ kl.size < MaxSeedLength
    /\ kl' = Pushp(kl, <<kl.size + 1>>)
    /\ phase' = "construct"
    /\ UNCHANGED <<M2_prev, M2_next, spliceVars, fuzzing, executions, netVars>>

(* fuzz_one: M2 is marked in the list of the seed, from start on and of    *)
(* count messages.                                                         *)
FuzzOne ==
    /\ phase = "construct"
    /\ LET nodes == Append(NodesOf(kl), kl.tail)
       IN  \E start \in 0 .. kl.size - 1 : \E count \in 1 .. kl.size - start :
              /\ M2_prev' = IF start = 0 THEN NULL ELSE nodes[start]
              /\ M2_next' = nodes[start + count + 1]
    /\ phase' = "idle" /\ fuzzing' = TRUE
    /\ UNCHANGED <<kl, spliceVars, executions, netVars>>

(* perform_dry_run and sync_fuzzers: a list that is only executed.         *)
DryRun ==
    /\ phase = "construct"
    /\ phase' = "connect"
    /\ UNCHANGED <<listVars, spliceVars, fuzzing, executions, netVars>>

-----------------------------------------------------------------------------
(* common_fuzz_stuff                                                       *)

(* A mutant of r regions; those of two mutants in a row are told apart.    *)
ParseOutBuf ==
    /\ phase = "idle" /\ executions < MaxExecutions
    /\ executions' = executions + 1
    /\ \E r \in 1 .. MaxMutant : out_buf' = [i \in 1 .. r |-> MaxSeedLength + MaxMutant * (executions % 2) + i]
    /\ pushed' = 0
    /\ prev_last_message' = Last(NodesOf(kl))
    /\ phase' = "push"
    /\ UNCHANGED <<listVars, cur_it, next_it, fuzzing, netVars>>

(* Mutant: what exceeds max_seed_region_count is lost.                     *)
MessageCut(i) == <<out_buf[i]>>

(* The message made of region i; beyond max_seed_region_count the rest of  *)
(* the regions are merged into one.                                        *)
MessageOf(i) ==
    IF i = MaxRegionCount + 1 THEN SubSeq(out_buf, i, Len(out_buf)) ELSE <<out_buf[i]>>

(* Mutant: M2_next is not moved with the sentinel.                         *)
TailMissed(k) == M2_next

(* M2_next after a push: the sentinel moves when M3 is empty.              *)
FollowTail(k) == IF k.next[M2_next] = k.tail THEN k.tail ELSE M2_next

PushMessage ==
    /\ phase = "push"
    /\ kl' = Pushp(kl, MessageOf(pushed + 1))
    /\ M2_next' = FollowTail(kl')
    /\ pushed' = pushed + 1
    /\ phase' = IF pushed + 1 \in {Len(out_buf), MaxRegionCount + 1} THEN "splice" ELSE "push"
    /\ UNCHANGED <<M2_prev, out_buf, prev_last_message, cur_it, next_it, fuzzing,
                   executions, netVars>>

(* The messages pushed move to where M2 was, and M2 is detached.           *)
Splice ==
    /\ phase = "splice"
    /\ LET new_M2 == kl.next[prev_last_message]
           cur_last_message == Last(NodesOf(kl))
           old_M2_start == IF M2_prev = NULL THEN kl.head ELSE kl.next[M2_prev]
           linked == IF M2_prev = NULL THEN kl.next ELSE [kl.next EXCEPT ![M2_prev] = new_M2]
           next == [linked EXCEPT ![cur_last_message] = M2_next,
                                  ![prev_last_message] = kl.tail]
       IN  /\ kl' = [kl EXCEPT !.head = IF M2_prev = NULL THEN new_M2 ELSE @,
                               !.next = next]
           /\ cur_it' = old_M2_start /\ next_it' = next[old_M2_start]
    /\ phase' = "free"
    /\ UNCHANGED <<M2_prev, M2_next, out_buf, pushed, prev_last_message, fuzzing,
                   executions, netVars>>

(* One node of the previous M2 is freed; the loop ends at M2_next.         *)
FreeMessage ==
    /\ phase = "free"
    /\ kl' = [kl EXCEPT !.val[cur_it] = Freed, !.mp = Append(@, cur_it), !.size = @ - 1]
    /\ cur_it' = next_it
    /\ next_it' = kl.next[next_it]
    /\ phase' = IF next_it = M2_next THEN "connect" ELSE "free"
    /\ UNCHANGED <<M2_prev, M2_next, out_buf, pushed, prev_last_message, fuzzing,
                   executions, netVars>>

-----------------------------------------------------------------------------
(* send_over_network                                                       *)

(* What a net_recv may add to the response buffer.                         *)
Received == {0, 1}

(* The response is cleared and the server contacted: no connection, an     *)
(* error on the early receive, or a session whose sending begins.          *)
Connect ==
    /\ phase = "connect"
    /\ wire' = <<>> /\ response_bytes' = None
    /\ \/ /\ phase' = "ran" /\ response_buf_size' = 0
          /\ UNCHANGED <<it, messages_sent>>
       \/ \E n \in Received :
             /\ response_buf_size' = n
             /\ \/ phase' = "handle" /\ UNCHANGED <<it, messages_sent>>
                \/ phase' = "send" /\ messages_sent' = 0 /\ it' = kl.head
    /\ UNCHANGED <<listVars, spliceVars, fuzzing, executions>>

(* Mutant: a message is counted once its answer has been read.             *)
CountedIfRead(ok) == IF ok THEN messages_sent + 1 ELSE messages_sent

(* A message is counted as soon as it is handed to net_send.               *)
Counted(ok) == messages_sent + 1

(* One message: sent and answered, or sent short, or answered by an error. *)
SendMessage ==
    /\ phase = "send" /\ it # kl.tail
    /\ wire' = Append(wire, kl.val[it])
    /\ \E n \in Received, ok \in BOOLEAN :
          /\ response_buf_size' = response_buf_size + n
          /\ messages_sent' = Counted(ok)
          /\ response_bytes' = Append(response_bytes, IF ok THEN response_buf_size' ELSE Unset)
          /\ IF ok THEN it' = kl.next[it] /\ UNCHANGED phase
             ELSE phase' = "handle" /\ UNCHANGED it
    /\ UNCHANGED <<listVars, spliceVars, fuzzing, executions>>

AllSent ==
    /\ phase = "send" /\ it = kl.tail
    /\ phase' = "handle"
    /\ UNCHANGED <<listVars, spliceVars, fuzzing, executions, netVars>>

(* HANDLE_RESPONSES: a last receive, and the size it leads to is that of   *)
(* the last message.                                                       *)
HandleResponses ==
    /\ phase = "handle"
    /\ \E n \in Received :
          /\ response_buf_size' = response_buf_size + n
          /\ response_bytes' = IF messages_sent > 0 /\ response_bytes # None
                               THEN [response_bytes EXCEPT ![messages_sent] = response_buf_size']
                               ELSE response_bytes
    /\ phase' = "ran"
    /\ UNCHANGED <<listVars, spliceVars, fuzzing, executions, wire, it, messages_sent>>

-----------------------------------------------------------------------------

(* The session is over and the locals of the routines are gone.            *)
Returned ==
    /\ out_buf' = <<>> /\ pushed' = 0 /\ prev_last_message' = NULL
    /\ cur_it' = NULL /\ next_it' = NULL /\ it' = NULL /\ wire' = <<>>
    /\ UNCHANGED <<messages_sent, response_buf_size, response_bytes>>

(* The execution shows nothing new.                                        *)
Uninteresting ==
    /\ phase = "ran" /\ fuzzing
    /\ phase' = "idle" /\ Returned
    /\ UNCHANGED <<listVars, fuzzing, executions>>

(* save_if_interesting keeps it and calibrate_case executes it again.      *)
Calibrate ==
    /\ phase = "ran" /\ executions < MaxExecutions
    /\ executions' = executions + 1
    /\ phase' = "connect"
    /\ UNCHANGED <<listVars, spliceVars, fuzzing, netVars>>

(* delete_kl_messages, at the end of fuzz_one or of a dry run.             *)
Delete ==
    /\ phase = "idle" \/ (phase = "ran" /\ ~fuzzing)
    /\ phase' = "none" /\ kl' = Kl /\ M2_prev' = NULL /\ M2_next' = NULL
    /\ fuzzing' = FALSE /\ executions' = 0 /\ Returned

Next ==
    \/ Construct \/ FuzzOne \/ DryRun \/ ParseOutBuf \/ PushMessage \/ Splice \/ FreeMessage
    \/ Connect \/ SendMessage \/ AllSent \/ HandleResponses
    \/ Uninteresting \/ Calibrate \/ Delete

Spec == Init /\ [][Next]_vars
-----------------------------------------------------------------------------

(* The test case is the list as far as length, which leaves out the        *)
(* messages behind the old last one while a mutant is being pushed.        *)
Length ==
    CASE phase = "construct" -> 0
      [] phase \in {"push", "splice"} -> Place(prev_last_message, NodesOf(kl))
      [] OTHER -> Len(NodesOf(kl))

(* Its three parts, cut at the pointers.                                   *)
PartsOf(k, prev, next, length) ==
    LET nodes == NodesOf(k)
        prefix == IF prev = NULL THEN 0 ELSE Place(prev, nodes)
        suffix == IF \E i \in 1 .. length : nodes[i] = next THEN Place(next, nodes)
                  ELSE length + 1
        messages == Messages(k, nodes)
    IN  [M1 |-> SubSeq(messages, 1, prefix),
         M2 |-> SubSeq(messages, prefix + 1, suffix - 1),
         M3 |-> SubSeq(messages, suffix, length)]

Parts == PartsOf(kl, M2_prev, M2_next, Length)

Message == Seq(Nat) \ {<<>>}

(* The linked list implements a test case in three parts.                  *)
Abstract ==
    INSTANCE TestCase WITH
        m1 <- Parts.M1, m2 <- Parts.M2, m3 <- Parts.M3,
        MaxMutated <- MaxRegionCount + 1

ImplementsTestCase == Abstract!Spec

TypeOK ==
    /\ kl.head \in Nodes /\ kl.tail \in Nodes /\ kl.size \in Nat
    /\ kl.allocated \in 1 .. MaxNodes /\ kl.mp \in Seq(Nodes)
    /\ kl.next \in [Nodes -> Nodes \cup {NULL}] /\ DOMAIN kl.val = Nodes
    /\ {M2_prev, M2_next, prev_last_message, cur_it, next_it, it} \subseteq Nodes \cup {NULL}
    /\ messages_sent \in Nat /\ response_buf_size \in Nat
    /\ response_bytes \in Seq(Nat \cup {Unset})
    /\ phase \in {"none", "construct", "idle", "push", "splice", "free", "connect", "send", "handle", "ran"}

(* Between two mutants the list is sound: it ends at the sentinel, its     *)
(* size is right, every node of it owns a message, and every other node is *)
(* in the pool, once: nothing leaks and nothing is freed twice or in use.  *)
ListSound ==
    phase \notin {"push", "splice", "free"} =>
        LET nodes == Append(NodesOf(kl), kl.tail)
        IN  /\ kl.size = Len(nodes) - 1 /\ kl.next[kl.tail] = NULL
            /\ \A i \in 1 .. Len(nodes) - 1 : kl.val[nodes[i]] # Freed
            /\ Len(nodes) + Len(kl.mp) = kl.allocated
            /\ ToSet(nodes) \cup ToSet(kl.mp) = 0 .. kl.allocated - 1

(* Messages cut out of regions one behind the other, none left out.        *)
CutFrom(messages, regions) ==
    \E end \in [0 .. Len(messages) -> 0 .. Len(regions)] :
        /\ end[0] = 0 /\ end[Len(messages)] = Len(regions)
        /\ \A i \in 1 .. Len(messages) :
              end[i - 1] < end[i] /\ messages[i] = SubSeq(regions, end[i - 1] + 1, end[i])

(* The mutant is sent whole, however its regions are merged to messages.   *)
MutantWhole == phase = "connect" /\ fuzzing => CutFrom(Parts.M2, out_buf)

(* The splices leave a list that is whole, and send the mutant whole.      *)
SpliceSound == TypeOK /\ ListSound /\ MutantWhole

(* Regions of the entry that is dry-run or would be kept now.              *)
RegionCount == LET n == Len(NodesOf(kl))
               IN  IF fuzzing /\ messages_sent < n THEN messages_sent ELSE n

(* update_state_aware_variables looks at the response.                     *)
Observed == phase = "ran" /\ response_buf_size > 0 /\ response_bytes # None

(* update_region_annotations stays inside response_bytes and regions, and  *)
(* reads only sizes that were written, whatever message the session broke  *)
(* off at: they grow up to the size of the whole response.                 *)
AnnotationDefined ==
    Observed =>
        /\ messages_sent = Len(response_bytes) /\ messages_sent <= RegionCount
        /\ \A i \in 1 .. messages_sent :
              /\ response_bytes[i] # Unset
              /\ i > 1 => response_bytes[i - 1] <= response_bytes[i]
        /\ response_bytes[messages_sent] = response_buf_size

(* The file and the regions of a test case whose response was observed are *)
(* those of the messages that were sent.                                   *)
KeptIsSent ==
    Observed => Messages(kl, SubSeq(NodesOf(kl), 1, messages_sent)) = wire

(* What is recorded of an execution is what happened in it.                *)
RecordsTrue == AnnotationDefined /\ KeptIsSent
=============================================================================
