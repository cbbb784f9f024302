----------------------------- MODULE Extraction ------------------------------
(***************************************************************************)
(* The two kinds of extractors side by side, one of them at a time: those  *)
(* of messages (Requests) on a buffer, and those of response codes         *)
(* (Responses) on a response that grows.  running says which.              *)
(***************************************************************************)
EXTENDS Requests

CONSTANTS
    Running,                \* a subset of {"requests", "responses"}
    ResponseExtractors,     \* of Responses, as are the next three
    Alphabet, MaxResponse, Width

VARIABLES
    running,
    extractor, response_buf, annotation,    \* of Responses
    scan, scanned, window, mem_count, state_sequence

Responses == INSTANCE Responses WITH
    Extractors <- ResponseExtractors, pc <- scan, byte_count <- scanned, mem <- window

\* Bytes and lengths stay below the width of the numbers that count them.
ASSUME ResponseAssumption ==
    \A e \in ResponseExtractors :
        MaxResponse[e] \in 0 .. Width /\ Alphabet[e] \subseteq 0 .. Width - 1

\* The bytes with a meaning of their own are among these numbers.
ASSUME WidthAssumption == Width \in Nat /\ Width >= 32

requestVars  == vars
responseVars == <<extractor, response_buf, annotation, scan, scanned, window, mem_count,
                  state_sequence>>
allVars      == <<running, requestVars, responseVars>>

\* Requests at rest: nothing cut, nothing loaded.
NoRequests ==
    /\ protocol = "http" /\ buf = <<>> /\ pc = "reloaded"
    /\ byte_count = 0 /\ mem = <<>> /\ cur_start = 0 /\ cur_end = 0 /\ regions = <<>>
    /\ kl_messages = <<>> /\ fpos = 0 /\ messages_sent = 0 /\ message_count = 0
    /\ file = <<>> /\ file_regions = <<>> /\ reloaded = <<>>

NoResponses ==
    /\ extractor = "none" /\ response_buf = <<>> /\ annotation = <<>> /\ scan = "none"
    /\ scanned = 0 /\ window = <<>> /\ mem_count = 0 /\ state_sequence = <<>>

ExtractionInit ==
    /\ running \in Running
    /\ \/ running = "requests" /\ Init /\ NoResponses
       \/ running = "responses" /\ Responses!Init /\ NoRequests

Cut     == running = "requests" /\ Next /\ UNCHANGED <<running, responseVars>>
Receive == running = "responses" /\ Responses!Receive /\ UNCHANGED <<running, requestVars>>
Scan    == running = "responses" /\ Responses!Scan /\ UNCHANGED <<running, requestVars>>

\* An extractor runs; whether the server sends more is up to it.
ExtractionSpec ==
    /\ ExtractionInit /\ [][Cut \/ Receive \/ Scan]_allVars
    /\ WF_allVars(Cut \/ Scan)

-----------------------------------------------------------------------------
\* The states that annotate a message begin those that annotate the next one: what the server
\* has sent so far is read again, and nothing of it is read differently.
ResponsesGrow == running = "responses" => Responses!TypeOK /\ Responses!AnnotationsGrow

\* Every extractor of either kind comes to an end, also on lengths near the largest unsigned
\* int, where sums wrap to zero.
ExtractorsEnd == (Cutting \/ Responses!Extracting) ~> ~(Cutting \/ Responses!Extracting)
=============================================================================
