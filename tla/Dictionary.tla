----------------------------- MODULE Dictionary -----------------------------
(***************************************************************************)
(* The two dictionaries of the fuzzer: extras, read from files the user    *)
(* gives, and a_extras, tokens found while the bits of a message are       *)
(* flipped, saved in files and loaded again when a session is resumed.     *)
(* A token is the sequence of its bytes.                                   *)
(***************************************************************************)
EXTENDS Integers, Sequences, FiniteSets, SequencesExt

CONSTANTS
    Bits,                       \* in a byte, 8 in the code
    MIN_AUTO_EXTRA, MAX_AUTO_EXTRA, USE_AUTO_EXTRAS, MAX_AUTO_EXTRAS, MAX_DICT_FILE,
    interesting_16, interesting_32,   \* sequences of signed numbers
    tolower                     \* of a byte

Byte == 0..2^Bits - 1

Shorter(m, n) == IF m < n THEN m ELSE n

\* Number of a little-endian word, and the word of a number, negative ones too.
Value(word) ==
    FoldLeft(LAMBDA sum, k : sum + word[k] * 2^(Bits * (k - 1)), 0, [k \in DOMAIN word |-> k])

Word(v, width) == [k \in 1..width |-> ((v % 2^(Bits * width)) \div 2^(Bits * (k - 1))) % 2^Bits]

(***************************************************************************)
(* User dictionaries.  A line is what its parts make of it: a token, with  *)
(* a level behind its name, or something load_extras_file skips or refuses.*)
(* Refused is no dictionary at all: the fuzzer stops.                      *)
(***************************************************************************)
Refused == {}

TooDeep(line, dict_level) == line.level > dict_level

\* The tokens of the whole file by their lines, or nothing if one of the lines is malformed
\* or its token is too long.
load_extras_file(lines, dict_level) ==
    LET used == {n \in DOMAIN lines : ~lines[n].blank /\ ~TooDeep(lines[n], dict_level)}
    IN IF \/ \E n \in DOMAIN lines : ~lines[n].blank /\ ~lines[n].closed
          \/ \E n \in used : \/ ~lines[n].opened
                             \/ lines[n].token = <<>> \/ Len(lines[n].token) > MAX_DICT_FILE
       THEN Refused
       ELSE {[n \in used |-> lines[n].token]}

\* qsort leaves equal elements in any order: it may make any of these that is sorted.
Arrangements(s) ==
    {[k \in 1..Cardinality(DOMAIN s) |-> s[p[k]]] : p \in SetToSeqs(DOMAIN s)}

Ordered(list) == \A j, k \in DOMAIN list : j < k => Len(list[j]) <= Len(list[k])

load_extras(d) ==
    {s \in UNION {Arrangements(r) : r \in load_extras_file(d.lines, d.level)} :
        s # <<>> /\ Ordered(s)}

(***************************************************************************)
(* Automatic extras: records of data and hit_cnt                           *)
(***************************************************************************)
memcmp_nocase(m1, m2) == [k \in DOMAIN m1 |-> tolower[m1[k]]] # [k \in DOMAIN m2 |-> tolower[m2[k]]]

IsRun(mem) == \A k \in DOMAIN mem : mem[k] = mem[1]

\* As the bytes compare: a negative 16-bit number is equal to no two bytes, which are
\* promoted without a sign; swapped it is.
Builtin(mem) ==
    \/ /\ Len(mem) = 2
       /\ \E v \in ToSet(interesting_16) :
            Value(mem) = v \/ mem = Reverse(Word(v, 2))
    \/ /\ Len(mem) = 4
       /\ \E v \in ToSet(interesting_32) : mem \in {Word(v, 4), Reverse(Word(v, 4))}

Same(data, mem) == Len(data) = Len(mem) /\ ~memcmp_nocase(data, mem)

Token(mem) == [data |-> mem, hit_cnt |-> 0]

\* Mutant: any token may go.
EvictAny == 1..MAX_AUTO_EXTRAS

\* The places an eviction may take.
BottomHalf == (MAX_AUTO_EXTRAS \div 2) + 1..MAX_AUTO_EXTRAS

\* The list with mem counted, appended or in the place of another.
Counted(list, mem) ==
    LET found == {k \in DOMAIN list : Same(list[k].data, mem)} IN
    IF found # {}
    THEN LET k == CHOOSE k \in found : \A j \in found : k <= j
         IN {[list EXCEPT ![k].hit_cnt = @ + 1]}
    ELSE IF Len(list) < MAX_AUTO_EXTRAS THEN {Append(list, Token(mem))}
    ELSE {[list EXCEPT ![k] = Token(mem)] : k \in BottomHalf}

MostUsedFirst(list) ==
    \A j, k \in DOMAIN list : j < k => list[j].hit_cnt >= list[k].hit_cnt

\* The tokens in use: save_auto writes them and the last stage tries them.
Saved(list) == [k \in 1..Shorter(USE_AUTO_EXTRAS, Len(list)) |-> list[k].data]

\* By use, and then the part that is used by length.
SortTokens(list) ==
    LET top == Shorter(USE_AUTO_EXTRAS, Len(list)) IN
    UNION {{head \o SubSeq(byUse, top + 1, Len(list)) :
              head \in {h \in Arrangements(SubSeq(byUse, 1, top)) : Ordered(Saved(h))}} :
             byUse \in {l \in Arrangements(list) : MostUsedFirst(l)}}

\* What becomes of the list; {list} if mem is not worth a place in it.
maybe_add_auto(list, extras, mem) ==
    IF MAX_AUTO_EXTRAS = 0 \/ USE_AUTO_EXTRAS = 0 \/ IsRun(mem) \/ Builtin(mem)
       \/ \E k \in DOMAIN extras : Same(extras[k], mem)
    THEN {list}
    ELSE UNION {SortTokens(l) : l \in Counted(list, mem)}

\* Found or read, a token of no other length comes to the list.
Readable(mem) == Len(mem) >= MIN_AUTO_EXTRA /\ Len(mem) <= MAX_AUTO_EXTRA

AddedToEach(lists, extras, mem) ==
    IF Readable(mem) THEN UNION {maybe_add_auto(l, extras, mem) : l \in lists} ELSE lists

\* What becomes of one of lists when the tokens of mems come to it one after the other.
AddedInTurn(lists, extras, mems) ==
    LET after[n \in 0..Len(mems)] ==
          IF n = 0 THEN lists ELSE AddedToEach(after[n - 1], extras, mems[n])
    IN after[Len(mems)]

\* The files are read before the user's dictionary is.
load_auto(files) ==
    AddedInTurn({<<>>}, <<>>, SubSeq(files, 1, Shorter(USE_AUTO_EXTRAS, Len(files))))
=============================================================================
