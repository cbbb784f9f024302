----------------------------- MODULE Dislocator -----------------------------
(***************************************************************************)
(* libdislocator, the allocator that a target may be given.  A block ends  *)
(* at a page boundary, behind it lies a page nobody may touch, in front of *)
(* it its length and a canary; a freed block is made inaccessible and      *)
(* never used again.  The heap in use is counted per thread.  Pages,       *)
(* header and size_t are small numbers here.                               *)
(***************************************************************************)
EXTENDS Integers, FiniteSets

CONSTANTS
    Threads,
    PAGE_SIZE, Header,      \* in bytes; the header is of 8
    Sizes, Counts,          \* what may be asked for
    max_mem,                \* AFL_LD_LIMIT_MB
    SizeT,                  \* the number of values of size_t
    MaxBlocks               \* bound on the allocations

VARIABLES
    hard_fail, no_calloc_over,
    total_mem,              \* by thread, a size_t
    blocks,                 \* allocated so far: [ret, len, live, asked]
    protection,             \* of the pages mapped so far: "rw" or "none"
    answer                  \* of the last call: [what, len], "block", "NULL" or "abort"

settings == <<hard_fail, no_calloc_over>>
vars     == <<settings, total_mem, blocks, protection, answer>>

Init ==
    /\ hard_fail \in BOOLEAN /\ no_calloc_over \in BOOLEAN
    /\ total_mem = [t \in Threads |-> 0]
    /\ blocks = {} /\ protection = <<>>
    /\ answer = [what |-> "block", len |-> 0]

Live == {b \in blocks : b.live}
Runs == answer.what # "abort"

PG_COUNT(l) == (l + PAGE_SIZE - 1) \div PAGE_SIZE

Pages(first, n) == first .. first + n - 1

\* The pages of a block, from its address and the length in front of it.
PagesOf(b) ==
    LET n == PG_COUNT(b.len + Header)
    IN  Pages((b.ret - PAGE_SIZE * n + b.len) \div PAGE_SIZE, n)

-----------------------------------------------------------------------------
(* __dislocator_alloc and its callers                                      *)

TooMuch(t, len) ==
    LET total == (total_mem[t] + len) % SizeT
    IN  total > max_mem \/ total < total_mem[t]

Refuse(len) ==
    /\ answer' = [what |-> IF hard_fail THEN "abort" ELSE "NULL", len |-> len]
    /\ UNCHANGED <<total_mem, blocks, protection>>

\* The pages are those that the kernel gives, here the next ones.
NewBlock(len, asked) ==
    LET n    == PG_COUNT(len + Header)
        base == Cardinality(DOMAIN protection)
    IN  [ret |-> PAGE_SIZE * (base + n) - len, len |-> len, live |-> TRUE, asked |-> asked]

Mapped(len) ==
    LET n    == PG_COUNT(len + Header)
        base == Cardinality(DOMAIN protection)
    IN  [p \in 0 .. base + n |-> IF p < base THEN protection[p]
                                 ELSE IF p < base + n THEN "rw" ELSE "none"]

Alloc(t, len, asked) ==
    /\ Runs /\ Cardinality(blocks) < MaxBlocks
    /\ IF TooMuch(t, len)
         THEN Refuse(len)
         ELSE /\ blocks' = blocks \cup {NewBlock(len, asked)}
              /\ protection' = Mapped(len)
              /\ total_mem' = [total_mem EXCEPT ![t] = (@ + len) % SizeT]
              /\ answer' = [what |-> "block", len |-> 0]
    /\ UNCHANGED settings

malloc(t, len) == Alloc(t, len, len)

Overflows(elem_len, elem_cnt) ==
    /\ elem_cnt # 0
    /\ ((elem_len * elem_cnt) % SizeT) \div elem_cnt # elem_len

calloc(t, elem_len, elem_cnt) ==
    /\ Runs
    /\ IF Overflows(elem_len, elem_cnt)
         THEN /\ answer' = [what |-> IF no_calloc_over THEN "NULL" ELSE "abort",
                            len |-> elem_len * elem_cnt]
              /\ UNCHANGED <<settings, total_mem, blocks, protection>>
         ELSE Alloc(t, (elem_len * elem_cnt) % SizeT, elem_len * elem_cnt)

\* Any thread may free the block of another.
free(t, b) ==
    /\ Runs /\ b \in Live
    /\ blocks' = (blocks \ {b}) \cup {[b EXCEPT !.live = FALSE]}
    /\ protection' = [p \in DOMAIN protection |-> IF p \in PagesOf(b) THEN "none" ELSE protection[p]]
    /\ total_mem' = [total_mem EXCEPT ![t] = (@ - b.len) % SizeT]
    /\ answer' = [what |-> "block", len |-> 0]
    /\ UNCHANGED settings

\* A new block always; the old one is left alone when there is none to be had.
realloc(t, b, len) ==
    /\ Runs /\ b \in Live /\ Cardinality(blocks) < MaxBlocks
    /\ IF TooMuch(t, len)
         THEN Refuse(len)
         ELSE /\ blocks' = (blocks \ {b}) \cup {[b EXCEPT !.live = FALSE], NewBlock(len, len)}
              /\ protection' = [p \in DOMAIN Mapped(len) |->
                                  IF p \in PagesOf(b) THEN "none" ELSE Mapped(len)[p]]
              /\ total_mem' = [total_mem EXCEPT ![t] = (@ + len - b.len) % SizeT]
              /\ answer' = [what |-> "block", len |-> 0]
    /\ UNCHANGED settings

Next ==
    \E t \in Threads :
      \/ \E len \in Sizes : malloc(t, len)
      \/ \E elem_len \in Sizes, elem_cnt \in Counts : calloc(t, elem_len, elem_cnt)
      \/ \E b \in blocks : free(t, b)
      \/ \E b \in blocks, len \in Sizes : realloc(t, b, len)

Spec == Init /\ [][Next]_vars

-----------------------------------------------------------------------------
(* A block in use has the size that was asked for, lies with its header in *)
(* accessible pages of its own and ends where an inaccessible page begins; *)
(* no page of a freed block is accessible, and none but those that a block *)
(* in use has for itself.  free finds the pages from the length it reads   *)
(* in front of the block.                                                  *)
Fenced ==
    /\ \A b \in Live :
         /\ b.len = b.asked
         /\ \A a \in b.ret - Header .. b.ret + b.len - 1 : protection[a \div PAGE_SIZE] = "rw"
         /\ (b.ret + b.len) % PAGE_SIZE = 0
         /\ protection[(b.ret + b.len) \div PAGE_SIZE] = "none"
    /\ \A b \in blocks \ Live : \A a \in b.ret - Header .. b.ret + b.len :
         protection[a \div PAGE_SIZE] = "none"
    /\ \A p \in DOMAIN protection : protection[p] = "rw" =>
         \E b \in Live : \A c \in Live : p \in PagesOf(c) <=> c = b
=============================================================================
