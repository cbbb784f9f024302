------------------------------ MODULE Analyzer ------------------------------
(***************************************************************************)
(* afl-analyze: every byte of a file is changed in four ways, the target   *)
(* is run with each, the four checksums give the byte a type and tell it   *)
(* from the byte before it, and runs of bytes that answer alike are        *)
(* reported under one name.  What the target answers is free.              *)
(***************************************************************************)
EXTENDS Integers, Sequences, FiniteSetsExt

CONSTANTS
    InFiles,            \* what the file may hold
    Answers,            \* the checksums four changes of a byte may bring: <<xor_ff, xor_01, sub_10, add_10>>
    orig_cksum,         \* that of the dry run; 0 is the answer of a hang
    MAX_AUTO_EXTRA

VARIABLES
    in_data, i,
    b_data,             \* [type, seq] of the bytes done; seq is the most significant bit
    prev,               \* prev_xff, prev_x01, prev_s10, prev_a10
    report,             \* what dump_hex has shown: [at, rlen, rtype]
    original, tried     \* history: the file read, and the files run for the last byte

vars == <<in_data, i, b_data, prev, report, original, tried>>

RESP_NONE     == 0
RESP_MINOR    == 1
RESP_VARIABLE == 2
RESP_FIXED    == 3
RESP_LEN      == 4
RESP_CKSUM    == 5
RESP_SUSPECT  == 6

Init ==
    /\ in_data \in InFiles /\ original = in_data
    /\ i = 0 /\ b_data = <<>> /\ prev = <<0, 0, 0, 0>>
    /\ report = <<>> /\ tried = <<>>

-----------------------------------------------------------------------------
(* analyze                                                                 *)

Byte(n) == n % 256

\* x ^ 0xff and x ^ 0x01 of a byte.
xor_ff(x) == 255 - x
xor_01(x) == IF x % 2 = 0 THEN x + 1 ELSE x - 1

\* Mutant: the difference is not taken back before the subtraction.
UnmendedValues(x) ==
    LET xff == xor_ff(x)
        x01 == xor_01(xor_ff(xff))      \* ^ 0xfe
        s10 == Byte(x01 - 16)
        a10 == Byte(s10 + 32)
    IN  [tried |-> <<xff, x01, s10, a10>>, left |-> Byte(a10 - 16)]

\* The values one byte takes, each computed from the one before, and what is left in the end.
Values(x) ==
    LET xff == xor_ff(x)
        x01 == xor_01(xor_ff(xff))      \* ^ 0xfe
        s10 == Byte(xor_01(x01) - 16)
        a10 == Byte(s10 + 32)
    IN  [tried |-> <<xff, x01, s10, a10>>, left |-> Byte(a10 - 16)]

TypeOf(cksum) ==
    IF \A k \in 1 .. 4 : cksum[k] = orig_cksum THEN RESP_NONE
    ELSE IF \E k \in 1 .. 4 : cksum[k] = orig_cksum THEN RESP_MINOR
    ELSE IF \A k \in 1 .. 4 : cksum[k] = cksum[1] THEN RESP_FIXED
    ELSE RESP_VARIABLE

AnalyzeByte ==
    /\ i < Len(in_data)
    /\ \E cksum \in Answers :
         LET values  == Values(in_data[i + 1])
             seq     == IF i = 0 THEN 0 ELSE b_data[i].seq
             changed == \A k \in 1 .. 4 : prev[k] # cksum[k]
         IN  /\ tried' = [k \in 1 .. 4 |-> [in_data EXCEPT ![i + 1] = values.tried[k]]]
             /\ in_data' = [in_data EXCEPT ![i + 1] = values.left]
             /\ b_data' = Append(b_data, [type |-> TypeOf(cksum), seq |-> IF changed THEN 1 - seq ELSE seq])
             /\ prev' = cksum
    /\ i' = i + 1
    /\ UNCHANGED <<report, original>>

-----------------------------------------------------------------------------
(* dump_hex                                                                *)

\* The run that begins at a byte: as long as the most significant bit stays.
RunLength(at) ==
    Max({n \in 1 .. Len(b_data) - at + 1 :
           \A k \in at .. at + n - 1 : b_data[k].seq = b_data[at].seq})

StrongestType(at, rlen) == Max({b_data[k].type : k \in at .. at + rlen - 1})

\* The integer in rlen bytes, the least significant first, is not above the length of the file
\* (of less than 2^16 bytes here).
AtMostLength(bytes) ==
    /\ \A k \in 3 .. Len(bytes) : bytes[k] = 0
    /\ bytes[1] + 256 * bytes[2] <= Len(in_data)

Reversed(bytes) == [k \in DOMAIN bytes |-> bytes[Len(bytes) + 1 - k]]

MayBeLength(bytes) ==
    /\ \E k \in DOMAIN bytes : bytes[k] # 0
    /\ AtMostLength(bytes) \/ AtMostLength(Reversed(bytes))

Distance(a, b) == IF a > b THEN a - b ELSE b - a

MayBeChecksum(bytes) ==
    /\ \E k \in DOMAIN bytes : bytes[k] # 0
    /\ IF Len(bytes) = 2 THEN Distance(bytes[1], bytes[2]) > 32
                         ELSE \E k \in 2 .. 4 : bytes[1] \div 128 # bytes[k] \div 128

FixedType(at, rlen) ==
    LET bytes == SubSeq(in_data, at, at + rlen - 1)
    IN  IF rlen \in {2, 4}
          THEN IF MayBeLength(bytes) THEN RESP_LEN
               ELSE IF MayBeChecksum(bytes) THEN RESP_CKSUM ELSE RESP_FIXED
          ELSE IF rlen \in {1, 3} \cup (5 .. MAX_AUTO_EXTRA - 1) THEN RESP_FIXED ELSE RESP_SUSPECT

Shown == IF report = <<>> THEN 0 ELSE report[Len(report)].at + report[Len(report)].rlen - 1

ShowRun ==
    /\ i = Len(in_data) /\ Shown < Len(in_data)
    /\ LET at    == Shown + 1
           rlen  == RunLength(at)
           rtype == StrongestType(at, rlen)
       IN  report' = Append(report, [at |-> at, rlen |-> rlen,
                                     rtype |-> IF rtype = RESP_FIXED THEN FixedType(at, rlen) ELSE rtype])
    /\ UNCHANGED <<in_data, i, b_data, prev, original, tried>>

Next == AnalyzeByte \/ ShowRun

Spec == Init /\ [][Next]_vars

-----------------------------------------------------------------------------
(* The four files tried for a byte differ from the original in that byte   *)
(* and nowhere else, and from each other; afterwards the file is again the *)
(* original.  The values are made from one another, with wrap-around.      *)
PerturbsOneByte ==
    /\ in_data = original
    /\ \A k \in DOMAIN tried :
         /\ \A n \in DOMAIN original : n = i <=> tried[k][n] # original[n]
         /\ \A l \in 1 .. k - 1 : tried[l] # tried[k]

(* The runs shown make up the file, and no byte is shown as less than it   *)
(* is: a block called a no-op holds only bytes whose every change went     *)
(* unnoticed, and a superficial one only bytes with a change that did.     *)
AnnotationsSound ==
    /\ \A n \in 1 .. Len(report) :
         report[n].at = IF n = 1 THEN 1 ELSE report[n - 1].at + report[n - 1].rlen
    /\ \A n \in DOMAIN report : \A k \in report[n].at .. report[n].at + report[n].rlen - 1 :
         /\ k \in DOMAIN original
         /\ report[n].rtype \in {RESP_NONE, RESP_MINOR} => b_data[k].type <= report[n].rtype
=============================================================================
