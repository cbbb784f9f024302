------------------------------ MODULE AllocInl ------------------------------
(***************************************************************************)
(* alloc-inl.h, the allocator of every program here: a head with a magic   *)
(* number and the size in front of a buffer, a magic byte behind it, and,  *)
(* with DEBUG_BUILD, a list of what is allocated.  The callers are correct *)
(* ones: they free what is theirs once and write within the size.  What    *)
(* malloc and realloc bring in is whatever was there.  ck_memdup_str is    *)
(* left out: nothing calls it.  (It would not do: the terminating 0 that   *)
(* it writes lies on its own magic byte, and ck_free would take its buffer *)
(* for one written past its end.)                                          *)
(***************************************************************************)
EXTENDS Integers, Sequences, FiniteSets, FiniteSetsExt

CONSTANTS
    Addresses,          \* where a chunk may lie
    Sizes,              \* of requests
    MAX_ALLOC, ALLOC_BLK_INC

VARIABLES
    DEBUG_BUILD,
    heap,               \* by address: [magic, size, bytes], the tail behind the buffer included
    TRK,                \* one bucket: its slots, as many as its array has room for
    live,               \* history: the addresses that callers hold
    abort               \* why the program was ended

vars == <<DEBUG_BUILD, heap, TRK, live, abort>>

C1 == "used"            \* ALLOC_MAGIC_C1, and ALLOC_MAGIC_F
F  == "freed"
C2 == "tail"            \* ALLOC_MAGIC_C2
NULL == "NULL"
    \* the other bytes: "zero", "data" that a caller has written or left, and "junk"

Init ==
    /\ DEBUG_BUILD \in BOOLEAN
    /\ heap = [a \in Addresses |-> [magic |-> "junk", size |-> 0, bytes |-> <<>>]]
    /\ TRK = <<>>
    /\ live = {} /\ abort = "no"

Runs == abort = "no"

Buffer(size, byte) == [k \in 1 .. size |-> byte]

\* The head and the tail are set around what the buffer holds.
Chunk(size, buffer) == [magic |-> C1, size |-> size, bytes |-> Append(buffer, C2)]

CHECK_PTR(a) ==
    IF heap[a].magic # C1 THEN IF heap[a].magic = F THEN "use after free" ELSE "head"
    ELSE IF heap[a].bytes[heap[a].size + 1] # C2 THEN "tail" ELSE "no"

-----------------------------------------------------------------------------
(* The list of DEBUG_BUILD                                                 *)

Slots(p) == {k \in DOMAIN TRK : TRK[k] = p}

TRK_alloc_buf(list, p) ==
    LET empty == {k \in DOMAIN list : list[k] = NULL}
    IN  IF empty # {} THEN [list EXCEPT ![Min(empty)] = p] ELSE Append(list, p)

TRK_free_buf(list, p) ==
    IF \E k \in DOMAIN list : list[k] = p
      THEN [list EXCEPT ![Min({k \in DOMAIN list : list[k] = p})] = NULL] ELSE list

Track(list) == TRK' = IF DEBUG_BUILD THEN list ELSE TRK

TrackMove(p, q) == Track(TRK_alloc_buf(TRK_free_buf(TRK, p), q))

-----------------------------------------------------------------------------

Abort(why) == /\ abort' = why /\ UNCHANGED <<DEBUG_BUILD, heap, TRK, live>>

\* DFL_ck_alloc_nozero with the buffer that DFL_ck_alloc, ck_strdup and ck_memdup fill it with.
Allocate(size, byte) ==
    /\ Runs /\ size > 0         \* a request of 0 bytes gives NULL
    /\ IF size > MAX_ALLOC THEN Abort("bad request")
       ELSE \E a \in Addresses \ live :
              /\ heap' = [heap EXCEPT ![a] = Chunk(size, Buffer(size, byte))]
              /\ Track(TRK_alloc_buf(TRK, a))
              /\ live' = live \cup {a}
              /\ UNCHANGED <<DEBUG_BUILD, abort>>

ck_alloc(size) == Allocate(size, "zero")
ck_memdup(size) == Allocate(size, "data")   \* also ck_strdup, and a buffer of ck_alloc_nozero once filled

Freed(h, a) == [h EXCEPT ![a].magic = F]

ck_free(a) ==
    /\ Runs /\ a \in live
    /\ IF CHECK_PTR(a) # "no" THEN Abort(CHECK_PTR(a))
       ELSE /\ heap' = Freed(heap, a)
            /\ Track(TRK_free_buf(TRK, a))
            /\ live' = live \ {a}
            /\ UNCHANGED <<DEBUG_BUILD, abort>>

\* Mutant: the byte that was the tail is not zeroed.
GrownAfterTail(a, size) ==
    LET old_size == heap[a].size
        moved(k) == IF k <= old_size + (IF DEBUG_BUILD THEN 0 ELSE 1) THEN heap[a].bytes[k] ELSE "junk"
    IN  [k \in 1 .. size |-> IF k > old_size + 1 THEN "zero" ELSE moved(k)]

\* realloc keeps the chunk as far as it goes, the old tail included, and the copy of DEBUG_BUILD the
\* buffer; then the new part is zeroed.
Grown(a, size) ==
    LET old_size == heap[a].size
        moved(k) == IF k <= old_size + (IF DEBUG_BUILD THEN 0 ELSE 1) THEN heap[a].bytes[k] ELSE "junk"
    IN  [k \in 1 .. size |-> IF k > old_size THEN "zero" ELSE moved(k)]

\* With DEBUG_BUILD the buffer moves each time, otherwise it may; the old head says "freed".
Reallocate(a, size) ==
    IF CHECK_PTR(a) # "no" THEN Abort(CHECK_PTR(a))
    ELSE IF size > MAX_ALLOC THEN Abort("bad request")
    ELSE \E b \in IF DEBUG_BUILD THEN Addresses \ live ELSE (Addresses \ live) \cup {a} :
           /\ heap' = [Freed(heap, a) EXCEPT ![b] = Chunk(size, Grown(a, size))]
           /\ TrackMove(a, b)
           /\ live' = (live \ {a}) \cup {b}
           /\ UNCHANGED <<DEBUG_BUILD, abort>>

\* Of NULL it allocates, to 0 bytes it frees: those are steps already.
ck_realloc(a, size) == /\ Runs /\ a \in live /\ size > 0 /\ Reallocate(a, size)

\* Room to spare, but for DEBUG_BUILD; a buffer that is large enough stays.
ck_realloc_block(a, size) ==
    /\ Runs /\ a \in live /\ size > 0
    /\ IF DEBUG_BUILD THEN Reallocate(a, size)
       ELSE IF CHECK_PTR(a) # "no" THEN Abort(CHECK_PTR(a))
       ELSE /\ heap[a].size < size
            /\ Reallocate(a, size + ALLOC_BLK_INC)

\* The caller fills its buffer.
Write(a) ==
    /\ Runs /\ a \in live
    /\ heap' = [heap EXCEPT ![a].bytes = Append(Buffer(heap[a].size, "data"), C2)]
    /\ UNCHANGED <<DEBUG_BUILD, TRK, live, abort>>

Next ==
    \/ \E size \in Sizes : ck_alloc(size)
    \/ \E size \in Sizes : ck_memdup(size)
    \/ \E a \in Addresses : ck_free(a)
    \/ \E a \in Addresses, size \in Sizes : ck_realloc(a, size)
    \/ \E a \in Addresses, size \in Sizes : ck_realloc_block(a, size)
    \/ \E a \in Addresses : Write(a)

Spec == Init /\ [][Next]_vars

-----------------------------------------------------------------------------
(* A caller that is correct is never accused of having damaged the heap,   *)
(* and reads from its buffer what it has written or zeroes: never what the *)
(* memory held before, nor a guard of the size the buffer had.             *)
BuffersClean ==
    /\ abort \in {"no", "bad request"}
    /\ \A a \in live : /\ CHECK_PTR(a) = "no"
                       /\ \A k \in 1 .. heap[a].size : heap[a].bytes[k] \in {"zero", "data"}

(* With DEBUG_BUILD the report at the end names the buffers that were      *)
(* never freed, each once and no other; a buffer that is freed or moved    *)
(* leaves a slot that is used again, so that the list does not grow beyond *)
(* what was ever in use at a time.                                         *)
TrackedIsLive ==
    DEBUG_BUILD =>
      /\ \A a \in Addresses : Cardinality(Slots(a)) = IF a \in live THEN 1 ELSE 0
      /\ Len(TRK) <= Cardinality(Addresses)
=============================================================================
