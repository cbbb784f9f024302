--------------------------- MODULE Session_proofs ---------------------------
(***************************************************************************)
(* Proofs about Session, for any number of fuzzers, cases, sessions and    *)
(* kills: what is on disk is what the process and its marks say of it      *)
(* (DiskIsTrue), no case that was written is lost (CasesAlwaysSurvive),    *)
(* and a scan takes all of another fuzzer's queue and each case once       *)
(* (ImportsAreSound).                                                      *)
(*                                                                         *)
(* All three follow from one inductive invariant, SessionsInv.  It says of *)
(* each fuzzer, at every label, how far its queue is laid out (Laid), what *)
(* the marks and the entries are worth (MarksTrue, EntriesTrue), in which  *)
(* of the two directories the cases are (Survival), what its scan has      *)
(* executed (OnceEach) and what is still to come (OwedToCome).  A step of  *)
(* a fuzzer touches its own part only, except that a scan looks at a queue *)
(* which its owner goes on changing: QueueOnward is all that it may do.    *)
(***************************************************************************)
EXTENDS Session, FiniteSetTheorems, SequenceTheorems, TLAPS

(***************************************************************************)
(* The inductive invariant: what one process and its directory are, at     *)
(* each point of a session (SessionInv), what its scan has done (ScanInv), *)
(* and what it has still to do (OwedToCome).                               *)
(***************************************************************************)

Content == Cases \cup {Empty}

CaseEntries == [data : Cases, passed_det : BOOLEAN]
AnyEntries  == [data : Content, passed_det : BOOLEAN]

IsDirectory(dir) ==
    /\ IsFiniteSet(DOMAIN dir) /\ DOMAIN dir \subseteq Nat
    /\ dir \in [DOMAIN dir -> Content]

\* A directory, or none.
Slot(dir) == dir # Missing => IsDirectory(dir)

\* The marks of the entries in .state, or none.
Marks(done) == done # Missing => done \subseteq Nat

Cleaning == {"clean", "clean_queue", "clean_crashes", "clean_rest", "dirs"}
Filling  == {"read", "pivot", "copy", "pivot_det", "nuke"}
Nuked    == {"nuke_queue", "dry_run"}
Running  == {"fuzz", "stats", "write_stats", "last_stats", "save", "scan", "reopen", "import"}
Scanning == {"scan", "reopen", "import"}

\* Every variable has a value for every fuzzer.
Domains ==
    /\ DOMAIN queue = Fuzzers /\ DOMAIN deterministic_done = Fuzzers
    /\ DOMAIN resume = Fuzzers /\ DOMAIN resume_done = Fuzzers
    /\ DOMAIN crashes = Fuzzers /\ DOMAIN backups = Fuzzers
    /\ DOMAIN fuzzer_stats = Fuzzers /\ DOMAIN synced = Fuzzers
    /\ DOMAIN pc = Fuzzers /\ DOMAIN in_place_resume = Fuzzers
    /\ DOMAIN entries = Fuzzers /\ DOMAIN pos = Fuzzers /\ DOMAIN known = Fuzzers
    /\ DOMAIN mem = Fuzzers /\ DOMAIN age = Fuzzers /\ DOMAIN party = Fuzzers
    /\ DOMAIN min_accept = Fuzzers /\ DOMAIN next_min_accept = Fuzzers
    /\ DOMAIN handle = Fuzzers /\ DOMAIN listed = Fuzzers /\ DOMAIN returned = Fuzzers
    /\ DOMAIN dirent = Fuzzers /\ DOMAIN starts = Fuzzers /\ DOMAIN kills = Fuzzers
    /\ DOMAIN made = Fuzzers /\ DOMAIN saved = Fuzzers /\ DOMAIN mixed = Fuzzers
    /\ DOMAIN finished = Fuzzers /\ DOMAIN accepted = Fuzzers /\ DOMAIN owed = Fuzzers

\* The types that TypeOK leaves open.
DiskTyped(f) ==
    /\ Slot(queue[f]) /\ Slot(resume[f])
    /\ Marks(deterministic_done[f]) /\ Marks(resume_done[f])
    /\ crashes[f] # Missing => crashes[f] \subseteq {Crash}
    /\ backups[f] \subseteq {Crash}
    /\ fuzzer_stats[f] \notin {Missing, Empty} => fuzzer_stats[f] \in 0..MaxAge[f]

Typed(f) ==
    /\ pc[f] \in {"down"} \cup Cleaning \cup Filling \cup Nuked \cup Running
    /\ entries[f] \in Seq(AnyEntries)
    /\ pos[f] \in Nat /\ starts[f] \in Nat
    /\ age[f] \in 0..MaxAge[f]
    /\ known[f] \subseteq Cases \cup {Crash} /\ saved[f] \subseteq Cases \cup {Crash}
    /\ At(f, {"save", "reopen", "import"}) => mem[f] \in Cases

\* A mark says of a file that is there, and whose case has been through the stages; the
\* marks are deleted before the files.
MarksTrue(f) ==
    /\ finished[f] \subseteq Cases
    /\ At(f, {"clean_queue", "clean_crashes", "clean_rest", "dirs"}) =>
         deterministic_done[f] = Missing
    /\ deterministic_done[f] # Missing =>
         \A n \in deterministic_done[f] :
           n \in Files(queue[f]) /\ queue[f][n] \in finished[f]
    /\ resume_done[f] # Missing =>
         \A n \in resume_done[f] : n \in Files(resume[f]) /\ resume[f][n] \in finished[f]

\* How many entries have their file, and whether another file is open and still empty.
Whole(f) ==
    IF At(f, {"read"}) THEN 0
    ELSE IF At(f, {"pivot", "copy"}) THEN pos[f] - 1
    ELSE IF At(f, {"pivot_det"}) THEN pos[f]
    ELSE Len(entries[f])

Opened(f) == IF At(f, {"copy", "save"}) THEN 1 ELSE 0

\* From the making of the directories on, the files are the entries that have been
\* written, in their order.
Laid(f) ==
    At(f, Filling \cup Nuked \cup Running) =>
      /\ queue[f] # Missing /\ deterministic_done[f] # Missing /\ crashes[f] # Missing
      /\ Files(queue[f]) = 0..Whole(f) + Opened(f) - 1
      /\ \A i \in 1..Whole(f) : queue[f][i - 1] = entries[f][i].data
      /\ Opened(f) = 1 => queue[f][Whole(f)] = Empty

\* The entries of a queue that is being filled are those of _resume, and their marks
\* are theirs.
EntriesTrue(f) ==
    /\ At(f, {"pivot"}) => pos[f] \in 1..Len(entries[f]) + 1
    /\ At(f, {"copy", "pivot_det"}) => pos[f] \in 1..Len(entries[f])
    /\ At(f, {"pivot_det"}) => entries[f][pos[f]].passed_det
    /\ At(f, {"pivot", "copy", "pivot_det", "nuke", "nuke_queue", "dry_run"}) =>
         \A i \in 1..Len(entries[f]) : entries[f][i].data \in Cases
    /\ At(f, (Filling \ {"read"}) \cup Nuked \cup Running) =>
         \A i \in 1..Len(entries[f]) :
           entries[f][i].passed_det => entries[f][i].data \in finished[f]
    /\ At(f, {"pivot", "copy", "pivot_det", "nuke"}) /\ in_place_resume[f] =>
         \A c \in Contents(resume[f]) : \E i \in 1..Len(entries[f]) : entries[f][i].data = c
    /\ At(f, {"nuke", "nuke_queue"}) => in_place_resume[f]

\* Where the crashes that were found are.
CrashesKept(f) == backups[f] \cup (IF crashes[f] = Missing THEN {} ELSE crashes[f])

\* Where the cases are: in _resume while there is one to go back to, in the queue again
\* when all of it has been written anew.
Survival(f) ==
    /\ starts[f] = 0 =>
         /\ At(f, {"down"}) /\ queue[f] = Missing /\ resume[f] = Missing
         /\ deterministic_done[f] = Missing /\ resume_done[f] = Missing /\ crashes[f] = Missing
    /\ At(f, {"clean_rest", "dirs"}) => crashes[f] = Missing
    /\ resume[f] = Missing => resume_done[f] = Missing
    /\ At(f, {"nuke_queue"}) => resume_done[f] = Missing
    /\ ~mixed[f] =>
         /\ At(f, Cleaning \cup Filling) /\ ~in_place_resume[f] =>
              resume[f] = Missing /\ saved[f] = {}
         /\ At(f, Cleaning \cup Filling) => saved[f] \subseteq Contents(resume[f]) \cup CrashesKept(f)
         /\ At(f, {"nuke"} \cup Nuked \cup Running) =>
              saved[f] \subseteq Contents(queue[f]) \cup CrashesKept(f)
         /\ At(f, {"dry_run"} \cup Running) => resume[f] = Missing
         /\ At(f, {"down"}) =>
              /\ saved[f] \subseteq Contents(queue[f]) \cup Contents(resume[f]) \cup CrashesKept(f)
              /\ Files(resume[f]) # {} \/ resume_done[f] # Missing =>
                   saved[f] \subseteq Contents(resume[f]) \cup CrashesKept(f)

SessionInv(f) ==
    /\ DiskTyped(f) /\ Typed(f) /\ MarksTrue(f) /\ Laid(f) /\ EntriesTrue(f) /\ Survival(f)

(***************************************************************************)
(* A scan                                                                  *)
(***************************************************************************)

\* Of the directory that is being scanned: where the scan is.
ScanTyped(f) ==
    /\ DOMAIN synced[f] = Parties[f] /\ DOMAIN accepted[f] = Parties[f]
    /\ made[f] \in Nat
    /\ \A p \in Parties[f] : synced[f][p] \in Nat
    /\ min_accept[f] \in Nat /\ next_min_accept[f] \in Nat
    /\ min_accept[f] <= next_min_accept[f]
    /\ listed[f] \subseteq Nat /\ returned[f] \subseteq Nat
    /\ party[f] \in Parties[f] \cup {f}
    /\ At(f, Scanning) => party[f] \in Parties[f]
    /\ party[f] # f => At(f, Scanning \cup {"save", "last_stats"})
    /\ party[f] # f => handle[f] \in Nat /\ handle[f] <= made[party[f]]
    /\ At(f, {"reopen", "import"}) => dirent[f] \in Nat

\* A number is executed once: what was executed is behind the numbers of .synced, or,
\* of the party at hand, was returned by this scan.
OnceEach(f) ==
    /\ At(f, {"down"} \cup Cleaning \cup Filling \cup Nuked) =>
         party[f] = f /\ \A p \in Parties[f] : accepted[f][p] = {}
    /\ \A p \in Parties[f] \ {party[f]} : \A n \in accepted[f][p] : n \in Nat /\ n < synced[f][p]
    /\ party[f] # f =>
         /\ \A n \in accepted[f][party[f]] :
              n \in Nat /\ n < next_min_accept[f] /\ (n < min_accept[f] \/ n \in returned[f])
         /\ listed[f] \cap returned[f] = {}
         /\ At(f, {"reopen", "import"}) =>
              /\ dirent[f] \notin accepted[f][party[f]] /\ dirent[f] \in returned[f]
              /\ dirent[f] < next_min_accept[f]

\* The directory of a process is being filled, or is the one it works with.
InUse(f) == At(f, Filling \cup Nuked \cup Running)

\* What is owed is still to come, and has not become empty; and while the party goes on
\* with its directory, all of it is there.
OwedToCome(f) ==
    party[f] # f /\ ~At(f, {"last_stats"}) /\ Current(f) =>
      /\ \A n \in owed[f] \cap Files(Theirs(f)) :
           /\ n >= min_accept[f] /\ Theirs(f)[n] # Empty
           /\ n \in listed[f] \/ (At(f, {"reopen", "import"}) /\ n = dirent[f])
      /\ InUse(party[f]) => owed[f] \subseteq Files(Theirs(f))

\* What holds of a scan of f.
ScanInv(f) == ScanTyped(f) /\ OnceEach(f)

\* The inductive invariant.
SessionsInv ==
    /\ Domains
    /\ \A f \in Fuzzers : SessionInv(f)
    /\ \A f \in Fuzzers : ScanInv(f)
    /\ \A f \in Fuzzers : OwedToCome(f)

(***************************************************************************)
(* Directories                                                             *)
(***************************************************************************)

\* What MissingIsApart is used for: a directory, marks and crashes are not Missing.
LEMMA NoneIsMissing ==
    ASSUME MissingIsApart(Nat)
    PROVE  /\ \A dir : IsDirectory(dir) => dir # Missing
           /\ \A S : S \subseteq Nat => S # Missing
           /\ \A S : S \subseteq {Crash} => S # Missing
<1>1. ASSUME NEW dir, IsDirectory(dir) PROVE dir # Missing
  BY <1>1 DEF IsDirectory, MissingIsApart, Content
<1>2. ASSUME NEW S, S \subseteq Nat PROVE S # Missing
  <2>1. S \in SUBSET Nat
    BY <1>2
  <2> QED BY <2>1 DEF MissingIsApart
<1>3. ASSUME NEW S, S \subseteq {Crash} PROVE S # Missing
  <2>1. S \in SUBSET {Crash}
    BY <1>3
  <2> QED BY <2>1 DEF MissingIsApart
<1> QED BY <1>1, <1>2, <1>3

\* A directory with no file.
LEMMA EmptyDirIs ==
    /\ IsDirectory(EmptyDir) /\ DOMAIN EmptyDir = {}
    /\ Files(EmptyDir) = {}
<1>1. DOMAIN EmptyDir = {} /\ EmptyDir \in [{} -> Content]
  BY DEF EmptyDir
<1>2. IsFiniteSet({})
  BY FS_EmptySet
<1> HIDE DEF EmptyDir
<1>3. IsDirectory(EmptyDir)
  BY <1>1, <1>2 DEF IsDirectory
<1> QED BY <1>1, <1>3 DEF Files

\* Writing a file: it is there, with what was written, and the others are as they were.
LEMMA PutIs ==
    ASSUME MissingIsApart(Nat),
           NEW dir, IsDirectory(dir), NEW n \in Nat, NEW data \in Content
    PROVE  /\ IsDirectory(Put(dir, n, data))
           /\ Files(Put(dir, n, data)) = Files(dir) \cup {n}
           /\ Put(dir, n, data)[n] = data
           /\ \A m \in Files(dir) : m # n => Put(dir, n, data)[m] = dir[m]
<1> DEFINE d == Put(dir, n, data)
<1>1. Files(dir) = DOMAIN dir /\ DOMAIN dir \subseteq Nat /\ IsFiniteSet(DOMAIN dir)
      /\ \A m \in DOMAIN dir : dir[m] \in Content
  BY NoneIsMissing DEF Files, IsDirectory
<1>2. /\ DOMAIN d = Files(dir) \cup {n}
      /\ d = [m \in Files(dir) \cup {n} |-> IF m = n THEN data ELSE dir[m]]
  BY DEF Put
<1>3. IsFiniteSet(Files(dir) \cup {n})
  BY <1>1, FS_AddElement
<1>4. \A m \in Files(dir) \cup {n} : d[m] = IF m = n THEN data ELSE dir[m]
  BY <1>2
<1>5. d \in [Files(dir) \cup {n} -> Content]
  BY <1>1, <1>2
<1> HIDE DEF d
<1>6. IsDirectory(d)
  BY <1>1, <1>2, <1>3, <1>5 DEF IsDirectory
<1>7. Files(d) = Files(dir) \cup {n}
  BY <1>2, <1>6, NoneIsMissing DEF Files
<1>8. d[n] = data /\ \A m \in Files(dir) : m # n => d[m] = dir[m]
  BY <1>4
<1> QED BY <1>6, <1>7, <1>8 DEF d

\* Deleting one: the others are as they were.
LEMMA UnlinkIs ==
    ASSUME MissingIsApart(Nat), NEW dir, IsDirectory(dir), NEW n
    PROVE  /\ IsDirectory(Unlink(dir, n))
           /\ Files(Unlink(dir, n)) = Files(dir) \ {n}
           /\ \A m \in Files(dir) : m # n => Unlink(dir, n)[m] = dir[m]
<1> DEFINE d == Unlink(dir, n)
<1>1. Files(dir) = DOMAIN dir /\ DOMAIN dir \subseteq Nat /\ IsFiniteSet(DOMAIN dir)
      /\ \A m \in DOMAIN dir : dir[m] \in Content
  BY NoneIsMissing DEF Files, IsDirectory
<1>2. /\ DOMAIN d = DOMAIN dir \ {n}
      /\ d = [m \in DOMAIN dir \ {n} |-> dir[m]]
  BY DEF Unlink
<1>3. IsFiniteSet(DOMAIN dir \ {n})
  BY <1>1, FS_RemoveElement
<1>4. \A m \in DOMAIN dir \ {n} : d[m] = dir[m]
  BY <1>2
<1>5. d \in [DOMAIN dir \ {n} -> Content]
  BY <1>1, <1>2
<1> HIDE DEF d
<1>6. IsDirectory(d)
  BY <1>1, <1>2, <1>3, <1>5 DEF IsDirectory
<1>7. Files(d) = Files(dir) \ {n}
  BY <1>1, <1>2, <1>6, NoneIsMissing DEF Files
<1>8. \A m \in Files(dir) : m # n => d[m] = dir[m]
  BY <1>1, <1>4
<1> QED BY <1>6, <1>7, <1>8 DEF d

\* A file with a number that is free, or that was empty, loses no content.
LEMMA PutKeeps ==
    ASSUME MissingIsApart(Nat),
           NEW dir, IsDirectory(dir), NEW n \in Nat, NEW data \in Content,
           n \in Files(dir) => dir[n] = Empty
    PROVE  Contents(Put(dir, n, data)) = Contents(dir) \cup ({data} \ {Empty})
<1> DEFINE d == Put(dir, n, data)
<1>1. /\ Files(d) = Files(dir) \cup {n} /\ d[n] = data
      /\ \A m \in Files(dir) : m # n => d[m] = dir[m]
  BY PutIs
<1> HIDE DEF d
<1>2. ASSUME NEW c \in Contents(d) PROVE c \in Contents(dir) \cup ({data} \ {Empty})
  BY <1>1, <1>2 DEF Contents
<1>3. ASSUME NEW c \in Contents(dir) PROVE c \in Contents(d)
  BY <1>1, <1>3 DEF Contents
<1>4. ASSUME data # Empty PROVE data \in Contents(d)
  BY <1>1, <1>4 DEF Contents
<1> QED BY <1>2, <1>3, <1>4 DEF d

\* What is in a slot, and what is not.
LEMMA SlotContents ==
    ASSUME NEW dir, Slot(dir)
    PROVE  /\ Contents(dir) \subseteq Cases
           /\ Files(dir) \subseteq Nat /\ IsFiniteSet(Files(dir))
           /\ \A n \in Files(dir) : dir[n] \in Content
           /\ Files(dir) = {} => Contents(dir) = {}
<1>1. /\ Files(dir) \subseteq Nat /\ IsFiniteSet(Files(dir))
      /\ \A n \in Files(dir) : dir[n] \in Content
  <2>1. CASE dir = Missing
    BY <2>1, FS_EmptySet DEF Files
  <2>2. CASE dir # Missing
    BY <2>2 DEF Slot, IsDirectory, Files
  <2> QED BY <2>1, <2>2
<1> QED BY <1>1 DEF Contents, Content

(***************************************************************************)
(* The i-th number of a set                                                *)
(***************************************************************************)

\* How many of S are not above n.
Rank(S, n) == Cardinality({m \in S : m <= n})

\* Every one of S has a rank of its own, and every rank up to the size of S is taken.
LEMMA RanksAreNumbers ==
    ASSUME NEW S \in SUBSET Nat, IsFiniteSet(S)
    PROVE  /\ Cardinality(S) \in Nat
           /\ \A n \in S : Rank(S, n) \in 1..Cardinality(S)
           /\ \A m, n \in S : m < n => Rank(S, m) < Rank(S, n)
<1> DEFINE Below(n) == {m \in S : m <= n}
<1>1. Cardinality(S) \in Nat
  BY FS_CardinalityType
<1>2. \A n \in S : IsFiniteSet(Below(n)) /\ Cardinality(Below(n)) \in Nat
                     /\ Cardinality(Below(n)) <= Cardinality(S)
  <2> TAKE n \in S
  <2>1. Below(n) \subseteq S
    OBVIOUS
  <2> HIDE DEF Below
  <2> QED BY <2>1, FS_Subset, FS_CardinalityType
<1>3. \A n \in S : Cardinality(Below(n)) # 0
  <2> TAKE n \in S
  <2>1. n \in Below(n)
    OBVIOUS
  <2> HIDE DEF Below
  <2> QED BY <1>2, <2>1, FS_EmptySet
<1>4. ASSUME NEW m \in S, NEW n \in S, m < n PROVE Rank(S, m) < Rank(S, n)
  <2>0. m \in Nat /\ n \in Nat /\ \A k \in S : k \in Nat
    OBVIOUS
  <2>1. Below(m) \subseteq Below(n)
    <3> SUFFICES ASSUME NEW k \in S, k <= m PROVE k <= n
      OBVIOUS
    <3> QED BY <1>4, <2>0
  <2>2. n \in Below(n) /\ n \notin Below(m)
    BY <1>4, <2>0
  <2>3. Below(m) # Below(n) /\ IsFiniteSet(Below(n))
    BY <1>2, <2>2
  <2>4. Cardinality(Below(m)) <= Cardinality(Below(n))
        /\ Cardinality(Below(m)) # Cardinality(Below(n))
    <3> HIDE DEF Below
    <3> QED BY <2>1, <2>3, FS_Subset
  <2>5. Rank(S, m) = Cardinality(Below(m)) /\ Rank(S, n) = Cardinality(Below(n))
    BY DEF Rank
  <2>6. Cardinality(Below(m)) \in Nat /\ Cardinality(Below(n)) \in Nat
    BY <1>2
  <2> HIDE DEF Below
  <2> QED BY <2>4, <2>5, <2>6
<1>5. \A n \in S : Rank(S, n) = Cardinality(Below(n))
  BY DEF Rank
<1>6. \A n \in S : Rank(S, n) \in 1..Cardinality(S)
  <2> HIDE DEF Below
  <2> QED BY <1>1, <1>2, <1>3, <1>5
<1> QED BY <1>1, <1>4, <1>6

\* Nth is the inverse of Rank: from 1 to the size of S, every number has its member, and
\* every member is met.
LEMMA NthIs ==
    ASSUME NEW S \in SUBSET Nat, IsFiniteSet(S)
    PROVE  /\ Cardinality(S) \in Nat
           /\ \A i \in 1..Cardinality(S) : Nth(S, i) \in S
           /\ \A n \in S : \E i \in 1..Cardinality(S) : Nth(S, i) = n
<1>1. /\ Cardinality(S) \in Nat
      /\ \A n \in S : Rank(S, n) \in 1..Cardinality(S)
      /\ \A m, n \in S : m < n => Rank(S, m) < Rank(S, n)
  BY RanksAreNumbers
<1> DEFINE c == Cardinality(S)
           r == [n \in S |-> Rank(S, n)]
<1>2. \A m, n \in S : r[m] = r[n] => m = n
  <2> SUFFICES ASSUME NEW m \in S, NEW n \in S, m # n PROVE r[m] # r[n]
    OBVIOUS
  <2>1. m \in Nat /\ n \in Nat /\ r[m] = Rank(S, m) /\ r[n] = Rank(S, n)
        /\ Rank(S, m) \in Nat /\ Rank(S, n) \in Nat
    BY <1>1
  <2>2. m < n \/ n < m
    BY <2>1
  <2> QED BY <1>1, <2>1, <2>2
<1>3. r \in [S -> 1..c]
  BY <1>1
<1>4. r \in Injection(S, 1..c)
  BY <1>2, <1>3 DEF Injection, IsInjective
<1>5. IsFiniteSet(1..c) /\ Cardinality(1..c) = c
  <2>1. c \in Int /\ 1 \in Int /\ c >= 0
    BY <1>1
  <2> HIDE DEF c
  <2>2. IsFiniteSet(1..c) /\ Cardinality(1..c) = IF 1 > c THEN 0 ELSE c - 1 + 1
    BY <2>1, FS_Interval
  <2> QED BY <2>1, <2>2
<1>6. r \in Surjection(S, 1..c)
  <2>1. Cardinality(S) = Cardinality(1..c)
    BY <1>5
  <2> HIDE DEF r, c
  <2> QED BY <1>4, <1>5, <2>1, FS_Injection
<1>7. \A i \in 1..c : \E n \in S : r[n] = i
  BY <1>6 DEF Surjection
<1>8. \A i \in 1..c : Nth(S, i) \in S /\ r[Nth(S, i)] = i
  <2> TAKE i \in 1..c
  <2>1. \E n \in S : Cardinality({m \in S : m <= n}) = i
    BY <1>7 DEF Rank
  <2>2. Nth(S, i) \in S /\ Cardinality({m \in S : m <= Nth(S, i)}) = i
    BY <2>1 DEF Nth
  <2> QED BY <2>2 DEF Rank
<1>9. ASSUME NEW n \in S PROVE \E i \in 1..c : Nth(S, i) = n
  <2>1. r[n] \in 1..c
    BY <1>3
  <2>2. Nth(S, r[n]) \in S /\ r[Nth(S, r[n])] = r[n]
    BY <1>8, <2>1
  <2>3. Nth(S, r[n]) = n
    BY <1>2, <2>2
  <2> QED BY <2>1, <2>3
<1> QED BY <1>1, <1>8, <1>9

\* The entries of a directory: a case of it each, every case of it, and what their marks
\* say.
LEMMA EntriesOfDirectory ==
    ASSUME NEW dir, Slot(dir), NEW done
    PROVE  \A E : E = UsableEntries(dir, done) =>
             /\ E \in Seq(CaseEntries)
             /\ \A c \in Contents(dir) : \E i \in 1..Len(E) : E[i].data = c
             /\ \A i \in 1..Len(E) : E[i].passed_det =>
                  done # Missing /\ \E n \in done : n \in Files(dir) /\ dir[n] = E[i].data
<1> DEFINE S == Usable(dir)
           k == Cardinality(S)
           E == UsableEntries(dir, done)
<1>1. S \in SUBSET Nat /\ IsFiniteSet(S)
  <2>1. Files(dir) \subseteq Nat /\ IsFiniteSet(Files(dir)) /\ S \subseteq Files(dir)
    BY SlotContents DEF Usable
  <2> HIDE DEF S
  <2> QED BY <2>1, FS_Subset
<1>2. \A n \in S : n \in Files(dir) /\ dir[n] \in Cases
  BY SlotContents DEF Usable, Content
<1>3. /\ k \in Nat
      /\ \A i \in 1..k : Nth(S, i) \in S
      /\ \A n \in S : \E i \in 1..k : Nth(S, i) = n
  <2> HIDE DEF S
  <2> QED BY <1>1, NthIs
<1>4. E = [i \in 1..k |-> [data |-> dir[Nth(S, i)],
                           passed_det |-> done # Missing /\ Nth(S, i) \in done]]
  BY DEF UsableEntries, Entry
<1> HIDE DEF S, E, k
<1>5. \A i \in 1..k : /\ E[i].data = dir[Nth(S, i)]
                       /\ E[i].passed_det = (done # Missing /\ Nth(S, i) \in done)
  BY <1>4
<1>6. \A i \in 1..k : E[i] \in CaseEntries
  <2> TAKE i \in 1..k
  <2>1. dir[Nth(S, i)] \in Cases
    BY <1>2, <1>3
  <2>2. E[i] = [data |-> dir[Nth(S, i)], passed_det |-> done # Missing /\ Nth(S, i) \in done]
    BY <1>4
  <2> QED BY <2>1, <2>2 DEF CaseEntries
<1>7. E \in [1..k -> CaseEntries]
  BY <1>4, <1>6
<1>8. E \in Seq(CaseEntries) /\ Len(E) = k
  BY <1>3, <1>7
<1>9. ASSUME NEW c \in Contents(dir) PROVE \E i \in 1..k : E[i].data = c
  <2>1. PICK n \in S : dir[n] = c
    BY <1>9 DEF S, Usable, Contents
  <2>2. PICK i \in 1..k : Nth(S, i) = n
    BY <1>3
  <2> QED BY <1>5, <2>1, <2>2
<1>10. ASSUME NEW i \in 1..k, E[i].passed_det
       PROVE  done # Missing /\ \E n \in done : n \in Files(dir) /\ dir[n] = E[i].data
  BY <1>2, <1>3, <1>5, <1>10
<1>11. /\ E \in Seq(CaseEntries)
       /\ \A c \in Contents(dir) : \E i \in 1..Len(E) : E[i].data = c
       /\ \A i \in 1..Len(E) : E[i].passed_det =>
            done # Missing /\ \E n \in done : n \in Files(dir) /\ dir[n] = E[i].data
  BY <1>8, <1>9, <1>10
<1> QED BY <1>11 DEF E

(***************************************************************************)
(* A step of one fuzzer leaves the others and their directories alone.     *)
(***************************************************************************)

OthersSame(f) ==
    \A g \in Fuzzers \ {f} :
      /\ queue'[g] = queue[g] /\ deterministic_done'[g] = deterministic_done[g]
      /\ resume'[g] = resume[g] /\ resume_done'[g] = resume_done[g]
      /\ crashes'[g] = crashes[g] /\ backups'[g] = backups[g]
      /\ fuzzer_stats'[g] = fuzzer_stats[g] /\ synced'[g] = synced[g]
      /\ pc'[g] = pc[g] /\ in_place_resume'[g] = in_place_resume[g]
      /\ entries'[g] = entries[g] /\ pos'[g] = pos[g]
      /\ known'[g] = known[g] /\ mem'[g] = mem[g]
      /\ age'[g] = age[g] /\ party'[g] = party[g]
      /\ min_accept'[g] = min_accept[g] /\ next_min_accept'[g] = next_min_accept[g]
      /\ handle'[g] = handle[g] /\ listed'[g] = listed[g]
      /\ returned'[g] = returned[g] /\ dirent'[g] = dirent[g]
      /\ starts'[g] = starts[g] /\ kills'[g] = kills[g]
      /\ made'[g] = made[g] /\ saved'[g] = saved[g]
      /\ mixed'[g] = mixed[g] /\ finished'[g] = finished[g]
      /\ accepted'[g] = accepted[g] /\ owed'[g] = owed[g]

\* Every step is an assignment at its fuzzer.
LEMMA StepIsLocal ==
    ASSUME Domains, NEW f \in Fuzzers,
           StartStep(f) \/ FuzzStep(f) \/ SyncStep(f) \/ Kill(f)
    PROVE  Domains' /\ OthersSame(f)
<1>1. CASE StartFresh(f)
  BY <1>1 DEF StartFresh, Begin, Goto, Domains, OthersSame, diskVars, scanVars, coreVars,
          history
<1>2. CASE StartResume(f)
  BY <1>2 DEF StartResume, Begin, Goto, Domains, OthersSame, diskVars, scanVars, coreVars,
          history
<1>3. CASE CleanMetadata(f)
  BY <1>3 DEF CleanMetadata, Goto, Domains, OthersSame, diskVars, scanVars, coreVars,
          history
<1>4. CASE CleanQueueFile(f)
  BY <1>4 DEF CleanQueueFile, Domains, OthersSame, diskVars, scanVars, coreVars, history
<1>5. CASE QueueCleaned(f)
  BY <1>5 DEF QueueCleaned, Goto, Domains, OthersSame, diskVars, scanVars, coreVars, history
<1>6. CASE CleanCrashes(f)
  BY <1>6 DEF CleanCrashes, Goto, Domains, OthersSame, diskVars, scanVars, coreVars, history
<1>7. CASE CleanRest(f)
  BY <1>7 DEF CleanRest, Goto, Domains, OthersSame, diskVars, scanVars, coreVars, history
<1>8. CASE MakeDirs(f)
  BY <1>8 DEF MakeDirs, Goto, Domains, OthersSame, diskVars, scanVars, coreVars, history
<1>9. CASE ReadTestcases(f)
  BY <1>9 DEF ReadTestcases, Exit, ClearMemory, Goto, Domains, OthersSame, diskVars,
          scanVars, coreVars, history
<1>10. CASE LinkInput(f)
  BY <1>10 DEF LinkInput, WriteInput, NextEntry, Goto, Domains, OthersSame, diskVars,
          scanVars, coreVars, history
<1>11. CASE CreateCopy(f)
  BY <1>11 DEF CreateCopy, WriteInput, Goto, Domains, OthersSame, diskVars, scanVars,
          coreVars, history
<1>12. CASE WriteCopy(f)
  BY <1>12 DEF WriteCopy, WriteInput, NextEntry, Goto, Domains, OthersSame, diskVars,
          scanVars, coreVars, history
<1>13. CASE PivotDetDone(f)
  BY <1>13 DEF PivotDetDone, Goto, Domains, OthersSame, diskVars, scanVars, coreVars,
          history
<1>14. CASE PivotDone(f)
  BY <1>14 DEF PivotDone, Goto, Domains, OthersSame, diskVars, scanVars, coreVars, history
<1>15. CASE NukeMetadata(f)
  BY <1>15 DEF NukeMetadata, Goto, Domains, OthersSame, diskVars, scanVars, coreVars,
          history
<1>16. CASE NukeFile(f)
  BY <1>16 DEF NukeFile, Domains, OthersSame, diskVars, scanVars, coreVars, history
<1>17. CASE NukeDone(f)
  BY <1>17 DEF NukeDone, Goto, Domains, OthersSame, diskVars, scanVars, coreVars, history
<1>18. CASE DryRun(f)
  BY <1>18 DEF DryRun, Exit, ClearMemory, Goto, Domains, OthersSame, diskVars, scanVars,
          coreVars, history
<1>19. CASE OpenStats(f)
  BY <1>19 DEF OpenStats, Goto, Domains, OthersSame, diskVars, scanVars, coreVars, history
<1>20. CASE WriteStats(f)
  BY <1>20 DEF WriteStats, ClearMemory, Goto, Domains, OthersSame, diskVars, scanVars,
          coreVars, history
<1>21. CASE Discover(f)
  BY <1>21 DEF Discover, CreateCase, Goto, Domains, OthersSame, diskVars, scanVars,
          coreVars, history
<1>22. CASE FinishSave(f)
  <2>1. PICK data \in {mem[f], Empty} : SaveCase(f, data)
    BY <1>22 DEF FinishSave
  <2> QED BY <1>22, <2>1 DEF FinishSave, SaveCase, Goto, Domains, OthersSame, diskVars,
          scanVars, coreVars, history
<1>23. CASE DiscoverCrash(f)
  BY <1>23 DEF DiscoverCrash, Domains, OthersSame, diskVars, scanVars, coreVars, history
<1>24. CASE MarkAsDetDone(f)
  BY <1>24 DEF MarkAsDetDone, Domains, OthersSame, diskVars, scanVars, coreVars, history
<1>25. CASE BeginScan(f)
  BY <1>25 DEF BeginScan, Goto, Domains, OthersSame, diskVars, scanVars, coreVars, history
<1>26. CASE ReadDirent(f)
  BY <1>26 DEF ReadDirent, Goto, Domains, OthersSame, diskVars, scanVars, coreVars, history
<1>27. CASE ReopenCase(f)
  BY <1>27 DEF ReopenCase, Exit, ClearMemory, Goto, Domains, OthersSame, diskVars,
          scanVars, coreVars, history
<1>28. CASE ImportCase(f)
  BY <1>28 DEF ImportCase, CreateCase, Goto, Domains, OthersSame, diskVars, scanVars,
          coreVars, history
<1>29. CASE EndScan(f)
  BY <1>29 DEF EndScan, Goto, Domains, OthersSame, diskVars, scanVars, coreVars, history
<1>30. CASE Kill(f)
  BY <1>30 DEF Kill, ClearMemory, Goto, Domains, OthersSame, diskVars, scanVars, coreVars,
          history
<1> QED BY <1>1, <1>2, <1>3, <1>4, <1>5, <1>6, <1>7, <1>8, <1>9, <1>10, <1>11, <1>12,
           <1>13, <1>14, <1>15, <1>16, <1>17, <1>18, <1>19, <1>20, <1>21, <1>22, <1>23,
           <1>24, <1>25, <1>26, <1>27, <1>28, <1>29, <1>30
        DEF StartStep, FuzzStep, SyncStep

(***************************************************************************)
(* SessionInv is kept, action by action.                                   *)
(***************************************************************************)

\* What a step of another fuzzer finds, it leaves.
LEMMA OthersKeepSession ==
    ASSUME NEW f \in Fuzzers, OthersSame(f), NEW g \in Fuzzers \ {f}, SessionInv(g)
    PROVE  SessionInv(g)'
<1>1. /\ queue'[g] = queue[g] /\ deterministic_done'[g] = deterministic_done[g]
      /\ resume'[g] = resume[g] /\ resume_done'[g] = resume_done[g]
      /\ crashes'[g] = crashes[g] /\ backups'[g] = backups[g]
      /\ fuzzer_stats'[g] = fuzzer_stats[g]
      /\ pc'[g] = pc[g] /\ in_place_resume'[g] = in_place_resume[g]
      /\ entries'[g] = entries[g] /\ pos'[g] = pos[g] /\ known'[g] = known[g]
      /\ mem'[g] = mem[g] /\ age'[g] = age[g] /\ starts'[g] = starts[g]
      /\ saved'[g] = saved[g] /\ mixed'[g] = mixed[g] /\ finished'[g] = finished[g]
  BY DEF OthersSame
<1>2. DiskTyped(g)'
  BY <1>1 DEF SessionInv, DiskTyped
<1>3. Typed(g)'
  BY <1>1 DEF SessionInv, Typed, At
<1>4. MarksTrue(g)'
  BY <1>1 DEF SessionInv, MarksTrue, At
<1>5. Laid(g)'
  BY <1>1 DEF SessionInv, Laid, Whole, Opened, At
<1>6. EntriesTrue(g)'
  BY <1>1 DEF SessionInv, EntriesTrue, At
<1>7. Survival(g)'
  BY <1>1 DEF SessionInv, Survival, CrashesKept, At
<1> QED BY <1>2, <1>3, <1>4, <1>5, <1>6, <1>7 DEF SessionInv

\* A process that ends or is killed leaves a directory from which the next session can go
\* on, unless it was in the middle of the deletion of _resume.
LEMMA EndKeepsSession ==
    ASSUME MissingIsApart(Nat), Domains, NEW f \in Fuzzers, SessionInv(f), ~At(f, {"down"}),
           ClearMemory(f),
           UNCHANGED <<queue, deterministic_done, resume, resume_done, crashes, backups,
                       starts, saved, finished>>,
           fuzzer_stats'[f] \notin {Missing, Empty} => fuzzer_stats'[f] \in 0..MaxAge[f],
           ~mixed'[f] => ~mixed[f] /\ (At(f, {"nuke_queue"}) => ~HalfDeleted(f))
    PROVE  SessionInv(f)'
<1>1. /\ queue'[f] = queue[f] /\ deterministic_done'[f] = deterministic_done[f]
      /\ resume'[f] = resume[f] /\ resume_done'[f] = resume_done[f]
      /\ crashes'[f] = crashes[f] /\ backups'[f] = backups[f]
      /\ starts'[f] = starts[f] /\ saved'[f] = saved[f] /\ finished'[f] = finished[f]
  OBVIOUS
<1>2. /\ pc'[f] = "down" /\ entries'[f] = <<>> /\ pos'[f] = 0 /\ known'[f] = {}
      /\ age'[f] = 0
  BY DEF ClearMemory, Goto, Domains
<1>3. DiskTyped(f)'
  BY <1>1 DEF SessionInv, DiskTyped
<1>4. Typed(f)'
  <2>1. MaxAge[f] \in Nat
    BY SessionAssumption
  <2>2. entries'[f] \in Seq(AnyEntries)
    BY <1>2
  <2>3. pc'[f] \in {"down"} \cup Cleaning \cup Filling \cup Nuked \cup Running
    BY <1>2
  <2>4. starts'[f] \in Nat /\ saved'[f] \subseteq Cases \cup {Crash}
    BY <1>1 DEF SessionInv, Typed
  <2> QED BY <1>2, <2>1, <2>2, <2>3, <2>4 DEF Typed, At
<1>5. MarksTrue(f)'
  BY <1>1, <1>2 DEF SessionInv, MarksTrue, At
<1>6. Laid(f)'
  BY <1>2 DEF Laid, At, Filling, Nuked, Running
<1>7. EntriesTrue(f)'
  BY <1>2 DEF EntriesTrue, At, Filling, Nuked, Running
<1>8. Survival(f)'
  <2>1. starts[f] # 0 /\ (resume[f] = Missing => resume_done[f] = Missing)
    BY DEF SessionInv, Survival
  <2>2. ASSUME ~mixed[f], At(f, {"nuke_queue"}) => ~HalfDeleted(f)
        PROVE  /\ saved[f] \subseteq Contents(queue[f]) \cup Contents(resume[f]) \cup CrashesKept(f)
               /\ Files(resume[f]) # {} \/ resume_done[f] # Missing =>
                    saved[f] \subseteq Contents(resume[f]) \cup CrashesKept(f)
    <3>1. CASE At(f, Cleaning \cup Filling)
      BY <2>2, <3>1 DEF SessionInv, Survival
    <3>2. CASE At(f, {"nuke_queue"})
      <4>1. resume_done[f] = Missing /\ saved[f] \subseteq Contents(queue[f]) \cup CrashesKept(f)
        BY <2>2, <3>2 DEF SessionInv, Survival, Nuked, At
      <4>2. ASSUME Files(resume[f]) # {}
            PROVE  saved[f] \subseteq Contents(resume[f]) \cup CrashesKept(f)
        <5>1. saved[f] \subseteq Contents(resume[f]) \cup {Crash}
          BY <2>2, <3>2, <4>2 DEF HalfDeleted
        <5>2. Crash \notin Contents(queue[f])
          BY SlotContents, SessionAssumption DEF SessionInv, DiskTyped
        <5> QED BY <4>1, <5>1, <5>2
      <4> QED BY <4>1, <4>2
    <3>3. CASE At(f, {"dry_run"} \cup Running)
      <4>1. resume[f] = Missing /\ saved[f] \subseteq Contents(queue[f]) \cup CrashesKept(f)
        BY <2>2, <3>3 DEF SessionInv, Survival, Nuked, At
      <4> QED BY <2>1, <4>1 DEF Files
    <3> QED BY <3>1, <3>2, <3>3 DEF SessionInv, Typed, At, Nuked
  <2>3. CrashesKept(f)' = CrashesKept(f)
    BY <1>1 DEF CrashesKept
  <2>4. ASSUME ~mixed'[f]
        PROVE  /\ saved'[f] \subseteq Contents(queue'[f]) \cup Contents(resume'[f]) \cup CrashesKept(f)'
               /\ Files(resume'[f]) # {} \/ resume_done'[f] # Missing =>
                    saved'[f] \subseteq Contents(resume'[f]) \cup CrashesKept(f)'
    BY <1>1, <2>2, <2>3, <2>4
  <2> QED BY <1>1, <1>2, <2>1, <2>4 DEF Survival, At, Cleaning, Filling, Nuked, Running
<1> QED BY <1>3, <1>4, <1>5, <1>6, <1>7, <1>8 DEF SessionInv

\* Nothing of the process but its place in the program and its kind changes.
MemorySame(f) ==
    /\ entries'[f] = entries[f] /\ pos'[f] = pos[f] /\ known'[f] = known[f]
    /\ mem'[f] = mem[f] /\ age'[f] = age[f]

\* A session from the input directory has nothing to lose: what was found before is no
\* longer counted.
LEMMA StartFreshKeeps ==
    ASSUME Domains, NEW f \in Fuzzers, SessionInv(f), StartFresh(f)
    PROVE  SessionInv(f)'
<1>1. /\ queue'[f] = queue[f] /\ deterministic_done'[f] = deterministic_done[f]
      /\ resume'[f] = resume[f] /\ resume_done'[f] = resume_done[f]
      /\ crashes'[f] = crashes[f] /\ backups'[f] = backups[f]
      /\ fuzzer_stats'[f] = fuzzer_stats[f] /\ finished'[f] = finished[f]
      /\ saved'[f] = {} /\ in_place_resume'[f] = FALSE
      /\ mixed'[f] = (resume[f] # Missing)
      /\ starts'[f] = starts[f] + 1
      /\ MemorySame(f)
  BY DEF StartFresh, Begin, Domains, MemorySame, scanVars
<1>2. pc'[f] = IF starts[f] = 0 THEN "dirs" ELSE "clean"
  BY DEF StartFresh, Goto, Domains
<1>3. DiskTyped(f)'
  BY <1>1 DEF SessionInv, DiskTyped
<1>4. Typed(f)'
  BY <1>1, <1>2 DEF SessionInv, Typed, At, Cleaning, MemorySame
<1>5. MarksTrue(f)'
  <2>1. starts[f] = 0 => deterministic_done[f] = Missing
    BY DEF SessionInv, Survival
  <2> QED BY <1>1, <1>2, <2>1 DEF SessionInv, MarksTrue, At
<1>6. Laid(f)' /\ EntriesTrue(f)'
  BY <1>2 DEF Laid, EntriesTrue, At, Filling, Nuked, Running
<1>7. Survival(f)'
  <2>1. starts[f] \in Nat /\ (starts[f] = 0 => crashes[f] = Missing)
        /\ (resume[f] = Missing => resume_done[f] = Missing)
    BY DEF SessionInv, Typed, Survival
  <2>2. starts'[f] # 0
    BY <1>1, <2>1
  <2>3. pc'[f] = "dirs" => crashes'[f] = Missing
    BY <1>1, <1>2, <2>1
  <2>4. ~mixed'[f] => resume'[f] = Missing
    BY <1>1
  <2> QED BY <1>1, <1>2, <2>1, <2>2, <2>3, <2>4
          DEF Survival, At, Cleaning, Filling, Nuked, Running
<1> QED BY <1>3, <1>4, <1>5, <1>6, <1>7 DEF SessionInv

\* A resumed session moves the queue with its marks, or finds in _resume what it has to go
\* back to.
LEMMA StartResumeKeeps ==
    ASSUME MissingIsApart(Nat), Domains, NEW f \in Fuzzers, SessionInv(f), StartResume(f)
    PROVE  SessionInv(f)'
<1>1. /\ crashes'[f] = crashes[f] /\ backups'[f] = backups[f]
      /\ fuzzer_stats'[f] = fuzzer_stats[f] /\ finished'[f] = finished[f]
      /\ saved'[f] = saved[f] /\ in_place_resume'[f] = TRUE
      /\ mixed'[f] = mixed[f] /\ starts'[f] = starts[f] + 1
      /\ MemorySame(f) /\ pc[f] = "down"
  BY DEF StartResume, Begin, Domains, MemorySame, scanVars, At
<1>2. pc'[f] = "clean"
  BY DEF StartResume, Goto, Domains
<1> DEFINE Moved == queue[f] # Missing /\ Files(resume[f]) = {} /\ resume_done[f] = Missing
<1>3. CASE Moved
  <2>1. /\ queue'[f] = Missing /\ deterministic_done'[f] = Missing
        /\ resume'[f] = queue[f] /\ resume_done'[f] = deterministic_done[f]
    BY <1>3 DEF StartResume, Domains
  <2>2. DiskTyped(f)'
    BY <1>1, <2>1 DEF SessionInv, DiskTyped, Slot, Marks
  <2>3. Typed(f)'
    BY <1>1, <1>2 DEF SessionInv, Typed, At, Cleaning, MemorySame
  <2>4. MarksTrue(f)'
    BY <1>1, <1>2, <2>1 DEF SessionInv, MarksTrue, At
  <2>5. Laid(f)' /\ EntriesTrue(f)'
    BY <1>2 DEF Laid, EntriesTrue, At, Filling, Nuked, Running
  <2>6. Survival(f)'
    <3>1. starts'[f] # 0
      BY <1>1 DEF SessionInv, Typed
    <3>2. resume'[f] # Missing
      BY <1>3, <2>1
    <3>3. CrashesKept(f)' = CrashesKept(f)
      BY <1>1 DEF CrashesKept
    <3>4. Contents(resume[f]) = {}
      BY <1>3, SlotContents DEF SessionInv, DiskTyped
    <3>5. ~mixed'[f] => saved'[f] \subseteq Contents(resume'[f]) \cup CrashesKept(f)'
      BY <1>1, <2>1, <3>3, <3>4 DEF SessionInv, Survival, At
    <3> QED BY <1>1, <1>2, <3>1, <3>2, <3>5
            DEF Survival, At, Cleaning, Filling, Nuked, Running
  <2> QED BY <2>2, <2>3, <2>4, <2>5, <2>6 DEF SessionInv
<1>4. CASE ~Moved
  <2>1. /\ queue'[f] = queue[f] /\ deterministic_done'[f] = deterministic_done[f]
        /\ resume'[f] = resume[f] /\ resume_done'[f] = resume_done[f]
    BY <1>4 DEF StartResume
  <2>2. DiskTyped(f)'
    BY <1>1, <2>1 DEF SessionInv, DiskTyped
  <2>3. Typed(f)'
    BY <1>1, <1>2 DEF SessionInv, Typed, At, Cleaning, MemorySame
  <2>4. MarksTrue(f)'
    BY <1>1, <1>2, <2>1 DEF SessionInv, MarksTrue, At
  <2>5. Laid(f)' /\ EntriesTrue(f)'
    BY <1>2 DEF Laid, EntriesTrue, At, Filling, Nuked, Running
  <2>6. Survival(f)'
    <3>1. starts'[f] # 0 /\ (resume'[f] = Missing => resume_done'[f] = Missing)
      BY <1>1, <2>1 DEF SessionInv, Typed, Survival
    <3>2. CrashesKept(f)' = CrashesKept(f)
      BY <1>1 DEF CrashesKept
    <3>3. queue[f] = Missing => Contents(queue[f]) = {}
      BY DEF Contents, Files
    <3>4. ~mixed'[f] => saved'[f] \subseteq Contents(resume'[f]) \cup CrashesKept(f)'
      BY <1>1, <1>4, <2>1, <3>2, <3>3 DEF SessionInv, Survival, At
    <3> QED BY <1>1, <1>2, <3>1, <3>4 DEF Survival, At, Cleaning, Filling, Nuked, Running
  <2> QED BY <2>2, <2>3, <2>4, <2>5, <2>6 DEF SessionInv
<1> QED BY <1>3, <1>4

\* What a step of the cleaning leaves of the process.
LEMMA CleaningTyped ==
    ASSUME NEW f \in Fuzzers, SessionInv(f), MemorySame(f),
           saved'[f] = saved[f], starts'[f] = starts[f], pc'[f] \in Cleaning
    PROVE  Typed(f)' /\ Laid(f)' /\ EntriesTrue(f)'
<1>1. Typed(f)'
  BY DEF SessionInv, Typed, At, Cleaning, MemorySame
<1>2. Laid(f)' /\ EntriesTrue(f)'
  BY DEF Laid, EntriesTrue, At, Cleaning, Filling, Nuked, Running
<1> QED BY <1>1, <1>2

\* The survival of what a step of the cleaning does not touch.
LEMMA CleaningSurvival ==
    ASSUME NEW f \in Fuzzers, SessionInv(f), pc[f] \in Cleaning, pc'[f] \in Cleaning,
           resume'[f] = resume[f], resume_done'[f] = resume_done[f],
           saved'[f] = saved[f], starts'[f] = starts[f], mixed'[f] = mixed[f],
           in_place_resume'[f] = in_place_resume[f],
           in_place_resume[f] => CrashesKept(f) \subseteq CrashesKept(f)',
           pc'[f] \in {"clean_rest", "dirs"} => crashes'[f] = Missing
    PROVE  Survival(f)'
<1>1. starts[f] # 0 /\ (resume[f] = Missing => resume_done[f] = Missing)
  BY DEF SessionInv, Survival, At, Cleaning
<1>2. ASSUME ~mixed[f]
      PROVE  /\ ~in_place_resume[f] => resume[f] = Missing /\ saved[f] = {}
             /\ saved[f] \subseteq Contents(resume[f]) \cup CrashesKept(f)
  BY <1>2 DEF SessionInv, Survival, At
<1>3. ~mixed'[f] => saved'[f] \subseteq Contents(resume'[f]) \cup CrashesKept(f)'
  BY <1>2
<1>4. ~mixed'[f] /\ ~in_place_resume'[f] => resume'[f] = Missing /\ saved'[f] = {}
  BY <1>2
<1> QED BY <1>1, <1>3, <1>4 DEF Survival, At, Cleaning, Filling, Nuked, Running

\* The marks go before the files they are about.
LEMMA CleanMetadataKeeps ==
    ASSUME Domains, NEW f \in Fuzzers, SessionInv(f), CleanMetadata(f)
    PROVE  SessionInv(f)'
<1>1. /\ queue'[f] = queue[f] /\ deterministic_done'[f] = Missing
      /\ resume'[f] = resume[f] /\ resume_done'[f] = resume_done[f]
      /\ crashes'[f] = crashes[f] /\ backups'[f] = backups[f]
      /\ fuzzer_stats'[f] = fuzzer_stats[f]
      /\ saved'[f] = saved[f] /\ in_place_resume'[f] = in_place_resume[f]
      /\ mixed'[f] = mixed[f] /\ starts'[f] = starts[f]
      /\ MemorySame(f)
  BY DEF CleanMetadata, Domains, MemorySame, scanVars, coreVars
<1>2. pc[f] = "clean" /\ pc'[f] = "clean_queue"
  BY DEF CleanMetadata, Goto, Domains, At
<1>3. in_place_resume[f] \/ mixed[f] => finished'[f] = finished[f]
  BY DEF CleanMetadata
<1>4. DiskTyped(f)'
  BY <1>1 DEF SessionInv, DiskTyped, Marks
<1>5. MarksTrue(f)'
  <2>1. CASE in_place_resume[f] \/ mixed[f]
    BY <1>1, <1>3, <2>1 DEF SessionInv, MarksTrue, At
  <2>2. CASE ~in_place_resume[f] /\ ~mixed[f]
    <3>1. resume_done[f] = Missing
      BY <1>2, <2>2 DEF SessionInv, Survival, At, Cleaning
    <3>2. finished'[f] = {}
      BY <2>2 DEF CleanMetadata, Domains
    <3> QED BY <1>1, <3>1, <3>2 DEF MarksTrue
  <2> QED BY <2>1, <2>2
<1>6. CrashesKept(f)' = CrashesKept(f)
  BY <1>1 DEF CrashesKept
<1>7. Survival(f)'
  BY <1>1, <1>2, <1>6, CleaningSurvival DEF Cleaning
<1>8. Typed(f)' /\ Laid(f)' /\ EntriesTrue(f)'
  BY <1>1, <1>2, CleaningTyped DEF Cleaning
<1> QED BY <1>4, <1>5, <1>7, <1>8 DEF SessionInv

\* Files go one by one; a session that goes on has its cases in _resume.
LEMMA CleanQueueKeeps ==
    ASSUME MissingIsApart(Nat), Domains, NEW f \in Fuzzers, SessionInv(f),
           CleanQueueFile(f) \/ QueueCleaned(f)
    PROVE  SessionInv(f)'
<1>1. /\ deterministic_done'[f] = deterministic_done[f]
      /\ resume'[f] = resume[f] /\ resume_done'[f] = resume_done[f]
      /\ crashes'[f] = crashes[f] /\ backups'[f] = backups[f]
      /\ fuzzer_stats'[f] = fuzzer_stats[f] /\ finished'[f] = finished[f]
      /\ saved'[f] = saved[f] /\ in_place_resume'[f] = in_place_resume[f]
      /\ mixed'[f] = mixed[f] /\ starts'[f] = starts[f]
      /\ MemorySame(f)
  BY DEF CleanQueueFile, QueueCleaned, MemorySame, scanVars, coreVars, history
<1>2. pc[f] = "clean_queue" /\ pc'[f] \in {"clean_queue", "clean_crashes"}
  BY DEF CleanQueueFile, QueueCleaned, Goto, Domains, At
<1>3. Slot(queue'[f])
  <2>1. CASE CleanQueueFile(f)
    <3>1. PICK n \in Files(queue[f]) : queue'[f] = Unlink(queue[f], n)
      BY <2>1 DEF CleanQueueFile, Domains
    <3>2. IsDirectory(queue[f])
      BY <3>1 DEF SessionInv, DiskTyped, Slot, Files
    <3> QED BY <3>1, <3>2, UnlinkIs DEF Slot
  <2>2. CASE QueueCleaned(f)
    BY <2>2 DEF QueueCleaned, Domains, Slot
  <2> QED BY <2>1, <2>2
<1>4. DiskTyped(f)'
  BY <1>1, <1>3 DEF SessionInv, DiskTyped
<1>5. MarksTrue(f)'
  BY <1>1, <1>2 DEF SessionInv, MarksTrue, At
<1>6. CrashesKept(f)' = CrashesKept(f)
  BY <1>1 DEF CrashesKept
<1>7. Survival(f)'
  BY <1>1, <1>2, <1>6, CleaningSurvival DEF Cleaning
<1>8. Typed(f)' /\ Laid(f)' /\ EntriesTrue(f)'
  BY <1>1, <1>2, CleaningTyped DEF Cleaning
<1> QED BY <1>4, <1>5, <1>7, <1>8 DEF SessionInv

\* The crashes of a session that goes on are set aside.
LEMMA CleanCrashesKeeps ==
    ASSUME Domains, NEW f \in Fuzzers, SessionInv(f), CleanCrashes(f) \/ CleanRest(f)
    PROVE  SessionInv(f)'
<1>1. /\ queue'[f] = queue[f] /\ deterministic_done'[f] = deterministic_done[f]
      /\ resume'[f] = resume[f] /\ resume_done'[f] = resume_done[f]
      /\ finished'[f] = finished[f]
      /\ saved'[f] = saved[f] /\ in_place_resume'[f] = in_place_resume[f]
      /\ mixed'[f] = mixed[f] /\ starts'[f] = starts[f]
      /\ MemorySame(f)
  BY DEF CleanCrashes, CleanRest, MemorySame, scanVars, coreVars, history
<1>2. \/ pc[f] = "clean_crashes" /\ pc'[f] = "clean_rest"
      \/ pc[f] = "clean_rest" /\ pc'[f] = "dirs"
  BY DEF CleanCrashes, CleanRest, Goto, Domains, At
<1>3. /\ crashes'[f] # Missing => crashes'[f] \subseteq {Crash}
      /\ backups'[f] \subseteq {Crash}
      /\ in_place_resume[f] => CrashesKept(f) \subseteq CrashesKept(f)'
      /\ crashes'[f] = Missing
  <2>1. CASE CleanCrashes(f)
    BY <2>1 DEF CleanCrashes, Domains, CrashesKept, SessionInv, DiskTyped
  <2>2. CASE CleanRest(f)
    <3>1. crashes[f] = Missing
      BY <2>2 DEF CleanRest, SessionInv, Survival, At
    <3> QED BY <2>2, <3>1 DEF CleanRest, CrashesKept, SessionInv, DiskTyped
  <2> QED BY <2>1, <2>2
<1>4. DiskTyped(f)'
  <2>1. fuzzer_stats'[f] \in {Missing, fuzzer_stats[f]}
    BY DEF CleanCrashes, CleanRest, Domains
  <2> QED BY <1>1, <1>3, <2>1 DEF SessionInv, DiskTyped
<1>5. MarksTrue(f)'
  BY <1>1, <1>2 DEF SessionInv, MarksTrue, At
<1>6. Survival(f)'
  BY <1>1, <1>2, <1>3, CleaningSurvival DEF Cleaning
<1>7. Typed(f)' /\ Laid(f)' /\ EntriesTrue(f)'
  BY <1>1, <1>2, CleaningTyped DEF Cleaning
<1> QED BY <1>4, <1>5, <1>6, <1>7 DEF SessionInv

\* The directories are made; there are no marks and no crashes yet.
LEMMA MakeDirsKeeps ==
    ASSUME MissingIsApart(Nat), Domains, NEW f \in Fuzzers, SessionInv(f), MakeDirs(f)
    PROVE  SessionInv(f)'
<1>1. /\ queue'[f] = EmptyDir /\ deterministic_done'[f] = {} /\ crashes'[f] = {}
      /\ resume'[f] = resume[f] /\ resume_done'[f] = resume_done[f]
      /\ backups'[f] = backups[f]
      /\ fuzzer_stats'[f] = fuzzer_stats[f] /\ finished'[f] = finished[f]
      /\ saved'[f] = saved[f] /\ in_place_resume'[f] = in_place_resume[f]
      /\ mixed'[f] = mixed[f] /\ starts'[f] = starts[f]
      /\ MemorySame(f)
  BY DEF MakeDirs, Domains, MemorySame, scanVars, coreVars
<1>2. pc[f] = "dirs" /\ pc'[f] = "read"
  BY DEF MakeDirs, Goto, Domains, At
<1>3. /\ IsDirectory(EmptyDir) /\ Files(EmptyDir) = {} /\ EmptyDir # Missing
      /\ {} # Missing
  BY EmptyDirIs, NoneIsMissing
<1>4. DiskTyped(f)'
  BY <1>1, <1>3 DEF SessionInv, DiskTyped, Slot, Marks
<1>5. Typed(f)'
  BY <1>1, <1>2 DEF SessionInv, Typed, At, Filling, MemorySame
<1>6. MarksTrue(f)'
  BY <1>1, <1>2 DEF SessionInv, MarksTrue, At
<1>7. Laid(f)'
  <2>1. Whole(f)' = 0 /\ Opened(f)' = 0
    BY <1>2 DEF Whole, Opened, At
  <2> QED BY <1>1, <1>3, <2>1 DEF Laid
<1>8. Survival(f)'
  <2>1. crashes[f] = Missing /\ starts[f] # 0
        /\ (resume[f] = Missing => resume_done[f] = Missing)
    BY <1>2 DEF SessionInv, Survival, At
  <2>2. CrashesKept(f)' = CrashesKept(f)
    BY <1>1, <1>3, <2>1 DEF CrashesKept
  <2>3. ~mixed[f] =>
          /\ ~in_place_resume[f] => resume[f] = Missing /\ saved[f] = {}
          /\ saved[f] \subseteq Contents(resume[f]) \cup CrashesKept(f)
    BY <1>2 DEF SessionInv, Survival, At, Cleaning
  <2> QED BY <1>1, <1>2, <2>1, <2>2, <2>3 DEF Survival, At, Cleaning, Filling, Nuked, Running
<1>9. EntriesTrue(f)'
  BY <1>2 DEF EntriesTrue, At, Filling, Nuked, Running
<1> QED BY <1>4, <1>5, <1>6, <1>7, <1>8, <1>9 DEF SessionInv

\* What read_testcases finds: entries with a case each, all of _resume, and marked only if
\* their case has been through the deterministic stages.
LEMMA ScannedIs ==
    ASSUME NEW f \in Fuzzers, SessionInv(f)
    PROVE  /\ Scanned(f) \in Seq(CaseEntries)
           /\ \A i \in 1..Len(Scanned(f)) :
                Scanned(f)[i].passed_det => Scanned(f)[i].data \in finished[f]
           /\ in_place_resume[f] => \A c \in Contents(resume[f]) :
                \E i \in 1..Len(Scanned(f)) : Scanned(f)[i].data = c
<1> DEFINE E == UsableEntries(resume[f], resume_done[f])
<1>1. /\ E \in Seq(CaseEntries)
      /\ \A c \in Contents(resume[f]) : \E i \in 1..Len(E) : E[i].data = c
      /\ \A i \in 1..Len(E) : E[i].passed_det =>
           /\ resume_done[f] # Missing
           /\ \E n \in resume_done[f] : n \in Files(resume[f]) /\ resume[f][n] = E[i].data
  <2>1. Slot(resume[f])
    BY DEF SessionInv, DiskTyped
  <2> QED BY <2>1, EntriesOfDirectory
<1>2. resume_done[f] # Missing =>
        \A n \in resume_done[f] : n \in Files(resume[f]) /\ resume[f][n] \in finished[f]
  BY DEF SessionInv, MarksTrue
<1>3. CASE in_place_resume[f]
  <2>1. Scanned(f) = E
    BY <1>3 DEF Scanned
  <2> HIDE DEF E
  <2>2. \A i \in 1..Len(E) : E[i].passed_det => E[i].data \in finished[f]
    BY <1>1, <1>2
  <2> QED BY <1>1, <2>1, <2>2
<1>4. CASE ~in_place_resume[f]
  <2> DEFINE k == Len(InDir)
             S == Scanned(f)
  <2>1. InDir \in Seq(Cases) /\ k \in Nat /\ \A i \in 1..k : InDir[i] \in Cases
    BY SessionAssumption
  <2>2. S = [i \in 1..k |-> [data |-> InDir[i], passed_det |-> FALSE]]
    BY <1>4 DEF Scanned, Entry
  <2>3. \A i \in 1..k : [data |-> InDir[i], passed_det |-> FALSE] \in CaseEntries
    BY <2>1 DEF CaseEntries
  <2>4. \A i \in 1..k : S[i].passed_det = FALSE
    BY <2>2
  <2> HIDE DEF S, k
  <2>5. S \in [1..k -> CaseEntries]
    BY <2>2, <2>3
  <2>6. S \in Seq(CaseEntries) /\ Len(S) = k
    BY <2>1, <2>5
  <2>7. /\ S \in Seq(CaseEntries)
        /\ \A i \in 1..Len(S) : S[i].passed_det = FALSE
    BY <2>4, <2>6
  <2> QED BY <1>4, <2>7 DEF S
<1> QED BY <1>3, <1>4

\* The survival of what a step of the filling does not touch: _resume is whole until the
\* queue is.
LEMMA FillingSurvival ==
    ASSUME NEW f \in Fuzzers, SessionInv(f),
           pc[f] \in Cleaning \cup Filling, pc'[f] \in Filling \ {"nuke"},
           resume'[f] = resume[f], resume_done'[f] = resume_done[f],
           saved'[f] = saved[f], starts'[f] = starts[f], mixed'[f] = mixed[f],
           in_place_resume'[f] = in_place_resume[f],
           crashes'[f] = crashes[f], backups'[f] = backups[f]
    PROVE  Survival(f)'
<1>1. starts[f] # 0 /\ (resume[f] = Missing => resume_done[f] = Missing)
  BY DEF SessionInv, Survival, At, Cleaning, Filling
<1>2. ASSUME ~mixed[f]
      PROVE  /\ ~in_place_resume[f] => resume[f] = Missing /\ saved[f] = {}
             /\ saved[f] \subseteq Contents(resume[f]) \cup CrashesKept(f)
  BY <1>2 DEF SessionInv, Survival, At
<1>3. CrashesKept(f)' = CrashesKept(f)
  BY DEF CrashesKept
<1>4. ~mixed'[f] => saved'[f] \subseteq Contents(resume'[f]) \cup CrashesKept(f)'
  BY <1>2, <1>3
<1>5. ~mixed'[f] /\ ~in_place_resume'[f] => resume'[f] = Missing /\ saved'[f] = {}
  BY <1>2
<1> QED BY <1>1, <1>4, <1>5 DEF Survival, At, Cleaning, Filling, Nuked, Running

\* The queue in memory is that of the input directory or of _resume, or there is none.
LEMMA ReadTestcasesKeeps ==
    ASSUME MissingIsApart(Nat), Domains, NEW f \in Fuzzers, SessionInv(f), ReadTestcases(f)
    PROVE  SessionInv(f)'
<1>1. CASE Scanned(f) = <<>>
  <2>1. Exit(f) /\ pc[f] = "read"
    BY <1>1 DEF ReadTestcases, At
  <2>2. ClearMemory(f) /\ UNCHANGED <<queue, deterministic_done, resume, resume_done,
                              crashes, backups, starts, saved, finished, fuzzer_stats, mixed>>
    BY <2>1 DEF Exit, diskVars, history
  <2>3. ~At(f, {"down"}) /\ ~At(f, {"nuke_queue"})
    BY <2>1 DEF At
  <2>4. fuzzer_stats'[f] \notin {Missing, Empty} => fuzzer_stats'[f] \in 0..MaxAge[f]
    BY <2>2 DEF SessionInv, DiskTyped
  <2> QED BY <2>2, <2>3, <2>4, EndKeepsSession
<1>2. CASE Scanned(f) # <<>>
  <2>1. /\ queue'[f] = queue[f] /\ deterministic_done'[f] = deterministic_done[f]
        /\ resume'[f] = resume[f] /\ resume_done'[f] = resume_done[f]
        /\ crashes'[f] = crashes[f] /\ backups'[f] = backups[f]
        /\ fuzzer_stats'[f] = fuzzer_stats[f] /\ finished'[f] = finished[f]
        /\ saved'[f] = saved[f] /\ in_place_resume'[f] = in_place_resume[f]
        /\ mixed'[f] = mixed[f] /\ starts'[f] = starts[f]
        /\ known'[f] = known[f] /\ mem'[f] = mem[f] /\ age'[f] = age[f]
    BY <1>2 DEF ReadTestcases, diskVars, history
  <2>2. /\ pc[f] = "read" /\ pc'[f] = "pivot" /\ pos'[f] = 1
        /\ entries'[f] = Scanned(f)
    BY <1>2 DEF ReadTestcases, Goto, Domains, At
  <2> DEFINE S == Scanned(f)
  <2>3. /\ S \in Seq(CaseEntries)
        /\ \A i \in 1..Len(S) : S[i].passed_det => S[i].data \in finished[f]
        /\ in_place_resume[f] =>
             \A c \in Contents(resume[f]) : \E i \in 1..Len(S) : S[i].data = c
    BY ScannedIs
  <2> HIDE DEF S
  <2>4. /\ S \in Seq(AnyEntries)
        /\ \A i \in 1..Len(S) : S[i].data \in Cases
        /\ Len(S) \in Nat
    <3>1. CaseEntries \subseteq AnyEntries /\ \A e \in CaseEntries : e.data \in Cases
      BY DEF CaseEntries, AnyEntries, Content
    <3>2. Len(S) \in Nat /\ \A i \in 1..Len(S) : S[i] \in CaseEntries
      BY <2>3
    <3>3. S \in Seq(AnyEntries)
      BY <2>3, <3>1, <3>2
    <3>4. \A i \in 1..Len(S) : S[i].data \in Cases
      BY <3>1, <3>2
    <3> QED BY <3>2, <3>3, <3>4
  <2>5. DiskTyped(f)'
    BY <2>1 DEF SessionInv, DiskTyped
  <2>6. Typed(f)'
    BY <2>1, <2>2, <2>4 DEF S, SessionInv, Typed, At, Filling
  <2>7. MarksTrue(f)'
    BY <2>1, <2>2 DEF SessionInv, MarksTrue, At
  <2>8. Laid(f)'
    <3>1. Whole(f) = 0 /\ Opened(f) = 0 /\ Whole(f)' = 0 /\ Opened(f)' = 0
      BY <2>2 DEF Whole, Opened, At
    <3>2. /\ queue[f] # Missing /\ deterministic_done[f] # Missing /\ crashes[f] # Missing
          /\ Files(queue[f]) = 0..Whole(f) + Opened(f) - 1
      BY <2>2 DEF SessionInv, Laid, At, Filling
    <3> QED BY <2>1, <3>1, <3>2 DEF Laid
  <2>9. EntriesTrue(f)'
    <3>1. entries'[f] = S /\ pos'[f] \in 1..Len(S) + 1
      BY <2>2, <2>4 DEF S
    <3>2. \A i \in 1..Len(S) : S[i].passed_det => S[i].data \in finished'[f]
      BY <2>1, <2>3
    <3>3. in_place_resume'[f] =>
            \A c \in Contents(resume'[f]) : \E i \in 1..Len(S) : S[i].data = c
      BY <2>1, <2>3
    <3> QED BY <2>2, <2>4, <3>1, <3>2, <3>3 DEF EntriesTrue, At
  <2>10. Survival(f)'
    BY <2>1, <2>2, FillingSurvival DEF Filling
  <2> QED BY <2>5, <2>6, <2>7, <2>8, <2>9, <2>10 DEF SessionInv
<1> QED BY <1>1, <1>2

\* An entry gets its file, or the second half of it: the number is the next one, so no other
\* file changes and every mark stays true.
LEMMA EntryWritten ==
    ASSUME MissingIsApart(Nat), Domains, NEW f \in Fuzzers, SessionInv(f),
           At(f, {"pivot", "copy"}), pos[f] \in 1..Len(entries[f]),
           WriteInput(f, entries[f][pos[f]].data), NextEntry(f)
    PROVE  SessionInv(f)'
<1> DEFINE n    == pos[f] - 1
           data == entries[f][pos[f]].data
           Q    == queue[f]
           L    == Len(entries[f])
<1>1. /\ deterministic_done'[f] = deterministic_done[f]
      /\ resume'[f] = resume[f] /\ resume_done'[f] = resume_done[f]
      /\ crashes'[f] = crashes[f] /\ backups'[f] = backups[f]
      /\ fuzzer_stats'[f] = fuzzer_stats[f] /\ finished'[f] = finished[f]
      /\ saved'[f] = saved[f] /\ in_place_resume'[f] = in_place_resume[f]
      /\ mixed'[f] = mixed[f] /\ starts'[f] = starts[f]
      /\ entries'[f] = entries[f] /\ known'[f] = known[f] /\ age'[f] = age[f]
  BY DEF WriteInput, scanVars, history
<1>2. /\ pc[f] \in {"pivot", "copy"}
      /\ \/ pc'[f] = "pivot_det" /\ pos'[f] = pos[f] /\ entries[f][pos[f]].passed_det
         \/ pc'[f] = "pivot" /\ pos'[f] = pos[f] + 1
  BY DEF NextEntry, Goto, Domains, At
<1>3. queue'[f] = Put(Q, n, data)
  BY DEF WriteInput, PivotNumber, Domains
<1>4. /\ entries[f] \in Seq(AnyEntries) /\ L \in Nat
      /\ pos[f] \in Nat /\ pos[f] >= 1 /\ pos[f] <= L /\ n \in Nat
      /\ \A i \in 1..L : entries[f][i].data \in Cases
      /\ data \in Cases
  <2>1. entries[f] \in Seq(AnyEntries) /\ pos[f] \in Nat
    BY DEF SessionInv, Typed
  <2>2. \A i \in 1..L : entries[f][i].data \in Cases
    BY <1>2 DEF SessionInv, EntriesTrue, At
  <2> QED BY <2>1, <2>2
<1>5. /\ IsDirectory(Q) /\ deterministic_done[f] # Missing /\ crashes[f] # Missing
      /\ Files(Q) = 0..n - 1 \/ (Files(Q) = 0..n /\ Q[n] = Empty)
      /\ \A i \in 1..n : Q[i - 1] = entries[f][i].data
  <2>1. /\ queue[f] # Missing /\ deterministic_done[f] # Missing /\ crashes[f] # Missing
        /\ Files(queue[f]) = 0..Whole(f) + Opened(f) - 1
        /\ \A i \in 1..Whole(f) : queue[f][i - 1] = entries[f][i].data
        /\ Opened(f) = 1 => queue[f][Whole(f)] = Empty
    BY <1>2 DEF SessionInv, Laid, At, Filling
  <2>2. IsDirectory(Q)
    BY <2>1 DEF SessionInv, DiskTyped, Slot
  <2>3. Whole(f) = n /\ (Opened(f) = 0 \/ Opened(f) = 1)
    BY <1>2 DEF Whole, Opened, At
  <2>4. Opened(f) = 0 => Files(Q) = 0..n - 1
    BY <1>4, <2>1, <2>3
  <2>5. Opened(f) = 1 => Files(Q) = 0..n /\ Q[n] = Empty
    BY <1>4, <2>1, <2>3
  <2> QED BY <2>1, <2>2, <2>3, <2>4, <2>5
<1> DEFINE P == Put(Q, n, data)
<1>6. /\ IsDirectory(P) /\ P # Missing /\ Files(P) = Files(Q) \cup {n} /\ P[n] = data
      /\ \A m \in Files(Q) : m # n => P[m] = Q[m]
  <2>1. data \in Content /\ n \in Nat /\ IsDirectory(Q)
    BY <1>4, <1>5 DEF Content
  <2> HIDE DEF n, data, Q
  <2>2. /\ IsDirectory(P) /\ Files(P) = Files(Q) \cup {n} /\ P[n] = data
        /\ \A m \in Files(Q) : m # n => P[m] = Q[m]
    BY <2>1, PutIs
  <2> HIDE DEF P
  <2>3. P # Missing
    BY <2>2, NoneIsMissing
  <2> QED BY <2>2, <2>3
<1> HIDE DEF n, data, Q, L, P
<1>7. Files(P) = 0..n
  BY <1>4, <1>5, <1>6
<1>8. \A i \in 1..n + 1 : P[i - 1] = entries[f][i].data
  <2> SUFFICES ASSUME NEW i \in 1..n + 1 PROVE P[i - 1] = entries[f][i].data
    OBVIOUS
  <2>1. CASE i = n + 1
    <3>1. i - 1 = n /\ i = pos[f]
      BY <1>4, <2>1 DEF n
    <3> QED BY <1>6, <3>1 DEF data
  <2>2. CASE i # n + 1
    <3>1. i \in 1..n /\ i - 1 \in 0..n - 1 /\ i - 1 # n
      BY <1>4, <2>2
    <3>2. i - 1 \in Files(Q)
      BY <1>4, <1>5, <3>1
    <3> QED BY <1>5, <1>6, <3>1, <3>2
  <2> QED BY <2>1, <2>2
<1>9. queue'[f] = P /\ pos[f] = n + 1
  BY <1>3, <1>4 DEF P, n, Q, data
<1>10. DiskTyped(f)'
  BY <1>1, <1>6, <1>9 DEF SessionInv, DiskTyped, Slot
<1>11. Typed(f)'
  <2>1. pos'[f] \in Nat
    BY <1>2, <1>4
  <2> QED BY <1>1, <1>2, <2>1 DEF SessionInv, Typed, At, Filling
<1>12. MarksTrue(f)'
  <2>1. /\ \A m \in deterministic_done[f] : m \in Files(Q) /\ Q[m] \in finished[f]
        /\ finished[f] \subseteq Cases
    BY <1>5 DEF SessionInv, MarksTrue, Q
  <2>2. Empty \notin finished[f]
    BY <2>1, SessionAssumption
  <2>3. \A m \in deterministic_done[f] : m # n
    <3>1. Files(Q) = 0..n - 1 => n \notin Files(Q)
      BY <1>4
    <3> QED BY <1>5, <2>1, <2>2, <3>1
  <2>4. \A m \in deterministic_done[f] : m \in Files(P) /\ P[m] \in finished[f]
    BY <1>6, <2>1, <2>3
  <2> QED BY <1>1, <1>2, <1>9, <2>4 DEF SessionInv, MarksTrue, At
<1>13. Laid(f)'
  <2>1. Whole(f)' = n + 1 /\ Opened(f)' = 0
    BY <1>2, <1>4, <1>9 DEF Whole, Opened, At
  <2>2. Files(P) = 0..(n + 1) + 0 - 1
    BY <1>4, <1>7
  <2> QED BY <1>1, <1>5, <1>6, <1>8, <1>9, <2>1, <2>2 DEF Laid
<1>14. EntriesTrue(f)'
  <2>1. /\ \A i \in 1..Len(entries[f]) : entries[f][i].data \in Cases
        /\ \A i \in 1..Len(entries[f]) :
             entries[f][i].passed_det => entries[f][i].data \in finished[f]
        /\ in_place_resume[f] => \A c \in Contents(resume[f]) :
             \E i \in 1..Len(entries[f]) : entries[f][i].data = c
    BY <1>2 DEF SessionInv, EntriesTrue, At, Filling
  <2>2. pc'[f] = "pivot" => pos'[f] \in 1..Len(entries[f]) + 1
    BY <1>2, <1>4 DEF L
  <2>3. pc'[f] = "pivot_det" => pos'[f] \in 1..Len(entries[f]) /\ entries[f][pos'[f]].passed_det
    BY <1>2, <1>4 DEF L
  <2>4. pc'[f] \in {"pivot", "pivot_det"}
    BY <1>2
  <2> QED BY <1>1, <2>1, <2>2, <2>3, <2>4 DEF EntriesTrue, At
<1>15. Survival(f)'
  BY <1>1, <1>2, FillingSurvival DEF Filling
<1> QED BY <1>10, <1>11, <1>12, <1>13, <1>14, <1>15 DEF SessionInv

\* A hard link, or the end of a copy.
LEMMA LinkInputKeeps ==
    ASSUME MissingIsApart(Nat), Domains, NEW f \in Fuzzers, SessionInv(f),
           LinkInput(f) \/ WriteCopy(f)
    PROVE  SessionInv(f)'
<1>1. CASE LinkInput(f)
  <2>1. At(f, {"pivot"}) /\ pos[f] <= Len(entries[f])
    BY <1>1 DEF LinkInput, queued_paths
  <2>2. entries[f] \in Seq(AnyEntries)
    BY DEF SessionInv, Typed
  <2>3. pos[f] \in 1..Len(entries[f]) + 1
    BY <2>1 DEF SessionInv, EntriesTrue
  <2>4. pos[f] \in 1..Len(entries[f])
    BY <2>1, <2>2, <2>3
  <2> QED BY <1>1, <2>1, <2>4, EntryWritten DEF LinkInput, At
<1>2. CASE WriteCopy(f)
  <2>1. pos[f] \in 1..Len(entries[f])
    BY <1>2 DEF WriteCopy, SessionInv, EntriesTrue, At
  <2> QED BY <1>2, <2>1, EntryWritten DEF WriteCopy, At
<1> QED BY <1>1, <1>2

\* The empty file of a copy takes the next number.
LEMMA CreateCopyKeeps ==
    ASSUME MissingIsApart(Nat), Domains, NEW f \in Fuzzers, SessionInv(f), CreateCopy(f)
    PROVE  SessionInv(f)'
<1> DEFINE n == pos[f] - 1
           Q == queue[f]
           P == Put(Q, n, Empty)
<1>1. /\ deterministic_done'[f] = deterministic_done[f]
      /\ resume'[f] = resume[f] /\ resume_done'[f] = resume_done[f]
      /\ crashes'[f] = crashes[f] /\ backups'[f] = backups[f]
      /\ fuzzer_stats'[f] = fuzzer_stats[f] /\ finished'[f] = finished[f]
      /\ saved'[f] = saved[f] /\ in_place_resume'[f] = in_place_resume[f]
      /\ mixed'[f] = mixed[f] /\ starts'[f] = starts[f] /\ pos'[f] = pos[f]
      /\ entries'[f] = entries[f] /\ known'[f] = known[f] /\ age'[f] = age[f]
  BY DEF CreateCopy, WriteInput, scanVars, history
<1>2. pc[f] = "pivot" /\ pc'[f] = "copy" /\ queue'[f] = P
  BY DEF CreateCopy, WriteInput, PivotNumber, Goto, Domains, At
<1>3. pos[f] \in 1..Len(entries[f]) /\ n \in Nat
  <2>1. entries[f] \in Seq(AnyEntries)
    BY DEF SessionInv, Typed
  <2>2. pos[f] \in 1..Len(entries[f]) + 1 /\ pos[f] <= Len(entries[f])
    BY <1>2 DEF CreateCopy, queued_paths, SessionInv, EntriesTrue, At
  <2> QED BY <2>1, <2>2
<1>4. /\ IsDirectory(Q) /\ deterministic_done[f] # Missing /\ crashes[f] # Missing
      /\ Files(Q) = 0..n - 1
      /\ \A i \in 1..n : Q[i - 1] = entries[f][i].data
  <2>1. Whole(f) = n /\ Opened(f) = 0
    BY <1>2 DEF Whole, Opened, At
  <2>2. /\ queue[f] # Missing /\ deterministic_done[f] # Missing /\ crashes[f] # Missing
        /\ Files(queue[f]) = 0..n + 0 - 1
        /\ \A i \in 1..n : queue[f][i - 1] = entries[f][i].data
    BY <1>2, <2>1 DEF SessionInv, Laid, At, Filling
  <2>3. IsDirectory(Q)
    BY <2>2 DEF SessionInv, DiskTyped, Slot
  <2>4. 0..n + 0 - 1 = 0..n - 1
    BY <1>3
  <2> QED BY <2>2, <2>3, <2>4
<1>5. /\ IsDirectory(P) /\ P # Missing /\ Files(P) = Files(Q) \cup {n} /\ P[n] = Empty
      /\ \A m \in Files(Q) : m # n => P[m] = Q[m]
  <2>1. Empty \in Content /\ n \in Nat /\ IsDirectory(Q)
    BY <1>3, <1>4 DEF Content
  <2> HIDE DEF n, Q
  <2>2. /\ IsDirectory(P) /\ Files(P) = Files(Q) \cup {n} /\ P[n] = Empty
        /\ \A m \in Files(Q) : m # n => P[m] = Q[m]
    BY <2>1, PutIs
  <2> HIDE DEF P
  <2>3. P # Missing
    BY <2>2, NoneIsMissing
  <2> QED BY <2>2, <2>3
<1> HIDE DEF P, Q
<1>6. DiskTyped(f)'
  BY <1>1, <1>2, <1>5 DEF SessionInv, DiskTyped, Slot
<1>7. Typed(f)'
  BY <1>1, <1>2 DEF SessionInv, Typed, At, Filling
<1>8. MarksTrue(f)'
  <2>1. \A m \in deterministic_done[f] : m \in Files(Q) /\ Q[m] \in finished[f]
    BY <1>4 DEF SessionInv, MarksTrue, Q
  <2>2. n \notin Files(Q)
    BY <1>3, <1>4
  <2>3. \A m \in deterministic_done[f] : m \in Files(P) /\ P[m] \in finished[f]
    BY <1>5, <2>1, <2>2
  <2> QED BY <1>1, <1>2, <2>3 DEF SessionInv, MarksTrue, At
<1>9. Laid(f)'
  <2>1. Whole(f)' = n /\ Opened(f)' = 1
    BY <1>1, <1>2 DEF Whole, Opened, At
  <2>2. Files(P) = 0..n + 1 - 1
    BY <1>3, <1>4, <1>5
  <2>3. \A i \in 1..n : P[i - 1] = entries[f][i].data
    <3> SUFFICES ASSUME NEW i \in 1..n PROVE P[i - 1] = entries[f][i].data
      OBVIOUS
    <3>1. i - 1 \in 0..n - 1 /\ i - 1 # n
      BY <1>3
    <3> QED BY <1>4, <1>5, <3>1
  <2> HIDE DEF n
  <2> QED BY <1>1, <1>2, <1>4, <1>5, <2>1, <2>2, <2>3 DEF Laid
<1>10. EntriesTrue(f)'
  BY <1>1, <1>2, <1>3 DEF SessionInv, EntriesTrue, At, Filling
<1>11. Survival(f)'
  BY <1>1, <1>2, FillingSurvival DEF Filling
<1> QED BY <1>6, <1>7, <1>8, <1>9, <1>10, <1>11 DEF SessionInv

\* The mark of an entry is made when its file is complete.
LEMMA PivotDetDoneKeeps ==
    ASSUME MissingIsApart(Nat), Domains, NEW f \in Fuzzers, SessionInv(f), PivotDetDone(f)
    PROVE  SessionInv(f)'
<1> DEFINE n == pos[f] - 1
           D == deterministic_done[f] \cup {n}
<1>1. /\ queue'[f] = queue[f]
      /\ resume'[f] = resume[f] /\ resume_done'[f] = resume_done[f]
      /\ crashes'[f] = crashes[f] /\ backups'[f] = backups[f]
      /\ fuzzer_stats'[f] = fuzzer_stats[f] /\ finished'[f] = finished[f]
      /\ saved'[f] = saved[f] /\ in_place_resume'[f] = in_place_resume[f]
      /\ mixed'[f] = mixed[f] /\ starts'[f] = starts[f]
      /\ entries'[f] = entries[f] /\ known'[f] = known[f] /\ age'[f] = age[f]
  BY DEF PivotDetDone, scanVars, history
<1>2. /\ pc[f] = "pivot_det" /\ pc'[f] = "pivot" /\ pos'[f] = pos[f] + 1
      /\ deterministic_done'[f] = D
  BY DEF PivotDetDone, PivotNumber, Goto, Domains, At
<1>3. pos[f] \in 1..Len(entries[f]) /\ entries[f][pos[f]].passed_det
      /\ entries[f][pos[f]].data \in finished[f]
  BY <1>2 DEF SessionInv, EntriesTrue, At, Filling
<1>4. Len(entries[f]) \in Nat /\ n \in Nat
  <2>1. entries[f] \in Seq(AnyEntries)
    BY DEF SessionInv, Typed
  <2> QED BY <1>3, <2>1
<1>5. /\ queue[f] # Missing /\ deterministic_done[f] # Missing /\ crashes[f] # Missing
      /\ Files(queue[f]) = 0..pos[f] + 0 - 1
      /\ \A i \in 1..pos[f] : queue[f][i - 1] = entries[f][i].data
  <2>1. Whole(f) = pos[f] /\ Opened(f) = 0
    BY <1>2 DEF Whole, Opened, At
  <2> QED BY <1>2, <2>1 DEF SessionInv, Laid, At, Filling
<1>6. D \subseteq Nat /\ D # Missing
  <2>1. D \subseteq Nat
    BY <1>4, <1>5 DEF SessionInv, DiskTyped, Marks
  <2> QED BY <2>1, NoneIsMissing
<1>7. n \in Files(queue[f]) /\ queue[f][n] \in finished[f]
  BY <1>3, <1>4, <1>5
<1> HIDE DEF D
<1>8. DiskTyped(f)'
  BY <1>1, <1>2, <1>6 DEF SessionInv, DiskTyped, Marks
<1>9. Typed(f)'
  BY <1>1, <1>2, <1>3, <1>4 DEF SessionInv, Typed, At, Filling
<1>10. MarksTrue(f)'
  <2>1. \A m \in D : m \in Files(queue[f]) /\ queue[f][m] \in finished[f]
    BY <1>5, <1>7 DEF SessionInv, MarksTrue, D
  <2> QED BY <1>1, <1>2, <2>1 DEF SessionInv, MarksTrue, At
<1>11. Laid(f)'
  <2>1. Whole(f)' = pos[f] /\ Opened(f)' = 0
    BY <1>2, <1>3 DEF Whole, Opened, At
  <2> QED BY <1>1, <1>2, <1>5, <1>6, <2>1 DEF Laid
<1>12. EntriesTrue(f)'
  <2>1. pos'[f] \in 1..Len(entries[f]) + 1
    BY <1>2, <1>3, <1>4
  <2> QED BY <1>1, <1>2, <2>1 DEF SessionInv, EntriesTrue, At, Filling
<1>13. Survival(f)'
  BY <1>1, <1>2, FillingSurvival DEF Filling
<1> QED BY <1>8, <1>9, <1>10, <1>11, <1>12, <1>13 DEF SessionInv

\* The queue is whole: what was in _resume is in it, and _resume may go.
LEMMA PivotDoneKeeps ==
    ASSUME Domains, NEW f \in Fuzzers, SessionInv(f), PivotDone(f)
    PROVE  SessionInv(f)'
<1>1. /\ queue'[f] = queue[f] /\ deterministic_done'[f] = deterministic_done[f]
      /\ resume'[f] = resume[f] /\ resume_done'[f] = resume_done[f]
      /\ crashes'[f] = crashes[f] /\ backups'[f] = backups[f]
      /\ fuzzer_stats'[f] = fuzzer_stats[f] /\ finished'[f] = finished[f]
      /\ saved'[f] = saved[f] /\ in_place_resume'[f] = in_place_resume[f]
      /\ mixed'[f] = mixed[f] /\ starts'[f] = starts[f] /\ pos'[f] = pos[f]
      /\ entries'[f] = entries[f] /\ known'[f] = known[f] /\ age'[f] = age[f]
  BY DEF PivotDone, diskVars, coreVars, history
<1>2. /\ pc[f] = "pivot" /\ pos[f] > Len(entries[f])
      /\ pc'[f] = IF in_place_resume[f] THEN "nuke" ELSE "dry_run"
  BY DEF PivotDone, queued_paths, Goto, Domains, At
<1>3. Len(entries[f]) \in Nat /\ pos[f] - 1 = Len(entries[f])
  <2>1. entries[f] \in Seq(AnyEntries) /\ pos[f] \in 1..Len(entries[f]) + 1
    BY <1>2 DEF SessionInv, Typed, EntriesTrue, At
  <2> QED BY <1>2, <2>1
<1>4. /\ queue[f] # Missing /\ deterministic_done[f] # Missing /\ crashes[f] # Missing
      /\ Files(queue[f]) = 0..Len(entries[f]) + 0 - 1
      /\ \A i \in 1..Len(entries[f]) : queue[f][i - 1] = entries[f][i].data
  <2>1. Whole(f) = Len(entries[f]) /\ Opened(f) = 0
    BY <1>2, <1>3 DEF Whole, Opened, At
  <2> QED BY <1>2, <2>1 DEF SessionInv, Laid, At, Filling
<1>5. DiskTyped(f)'
  BY <1>1 DEF SessionInv, DiskTyped
<1>6. Typed(f)'
  BY <1>1, <1>2 DEF SessionInv, Typed, At, Filling, Nuked
<1>7. MarksTrue(f)'
  BY <1>1, <1>2 DEF SessionInv, MarksTrue, At
<1>8. Laid(f)'
  <2>1. Whole(f)' = Len(entries[f]) /\ Opened(f)' = 0
    BY <1>1, <1>2 DEF Whole, Opened, At
  <2> QED BY <1>1, <1>4, <2>1 DEF Laid
<1>9. EntriesTrue(f)'
  BY <1>1, <1>2 DEF SessionInv, EntriesTrue, At, Filling
<1>10. Survival(f)'
  <2>1. starts[f] # 0 /\ (resume[f] = Missing => resume_done[f] = Missing)
    BY <1>2 DEF SessionInv, Survival, At
  <2>2. ASSUME ~mixed[f]
        PROVE  /\ ~in_place_resume[f] => resume[f] = Missing /\ saved[f] = {}
               /\ saved[f] \subseteq Contents(resume[f]) \cup CrashesKept(f)
    BY <1>2, <2>2 DEF SessionInv, Survival, At, Filling
  <2>3. CrashesKept(f)' = CrashesKept(f)
    BY <1>1 DEF CrashesKept
  <2>4. ASSUME in_place_resume[f], NEW c \in Contents(resume[f]) PROVE c \in Contents(queue[f])
    <3>1. PICK i \in 1..Len(entries[f]) : entries[f][i].data = c
      BY <1>2, <2>4 DEF SessionInv, EntriesTrue, At
    <3>2. i - 1 \in Files(queue[f]) /\ queue[f][i - 1] = c /\ c # Empty
      BY <1>3, <1>4, <2>4, <3>1 DEF Contents
    <3> QED BY <3>2 DEF Contents
  <2>5. ~mixed'[f] => saved'[f] \subseteq Contents(queue'[f]) \cup CrashesKept(f)'
    BY <1>1, <2>2, <2>3, <2>4
  <2>6. CASE in_place_resume[f]
    BY <1>1, <1>2, <2>1, <2>2, <2>3, <2>5, <2>6
       DEF Survival, At, Cleaning, Filling, Nuked, Running
  <2>7. CASE ~in_place_resume[f]
    BY <1>1, <1>2, <2>1, <2>2, <2>3, <2>5, <2>7
       DEF Survival, At, Cleaning, Filling, Nuked, Running
  <2> QED BY <2>6, <2>7
<1> QED BY <1>5, <1>6, <1>7, <1>8, <1>9, <1>10 DEF SessionInv

\* The queue is whole and no other file is open.
WholeAt == {"nuke"} \cup Nuked \cup (Running \ {"save"})

\* What a step keeps that does not touch the queue, when it is whole.
LEMMA QueueStands ==
    ASSUME NEW f \in Fuzzers, SessionInv(f), pc[f] \in WholeAt, pc'[f] \in WholeAt,
           pc'[f] \in {"nuke", "nuke_queue", "dry_run"} => pc[f] \in {"nuke", "nuke_queue"},
           pc'[f] # "nuke",
           in_place_resume'[f] = in_place_resume[f], finished'[f] = finished[f],
           queue'[f] = queue[f], deterministic_done'[f] = deterministic_done[f],
           entries'[f] = entries[f], crashes'[f] # Missing
    PROVE  Laid(f)' /\ EntriesTrue(f)'
<1>1. /\ queue[f] # Missing /\ deterministic_done[f] # Missing
      /\ Files(queue[f]) = 0..Len(entries[f]) + 0 - 1
      /\ \A i \in 1..Len(entries[f]) : queue[f][i - 1] = entries[f][i].data
  <2>1. Whole(f) = Len(entries[f]) /\ Opened(f) = 0
    BY DEF Whole, Opened, At, WholeAt, Nuked, Running
  <2> QED BY <2>1 DEF SessionInv, Laid, At, WholeAt, Filling, Nuked, Running
<1>2. Whole(f)' = Len(entries[f]) /\ Opened(f)' = 0
  BY DEF Whole, Opened, At, WholeAt, Nuked, Running
<1>3. Laid(f)'
  BY <1>1, <1>2 DEF Laid
<1>4. \A i \in 1..Len(entries[f]) : entries[f][i].passed_det => entries[f][i].data \in finished[f]
  BY DEF SessionInv, EntriesTrue, At, WholeAt, Filling, Nuked, Running
<1>5. pc'[f] \in {"nuke_queue", "dry_run"} =>
        /\ \A i \in 1..Len(entries[f]) : entries[f][i].data \in Cases
        /\ in_place_resume[f]
  BY DEF SessionInv, EntriesTrue, At
<1>6. EntriesTrue(f)'
  BY <1>4, <1>5 DEF EntriesTrue, At, WholeAt, Nuked, Running
<1> QED BY <1>3, <1>6

\* The survival in a session that runs: what is saved is in the queue.
LEMMA RunningSurvival ==
    ASSUME NEW f \in Fuzzers, SessionInv(f),
           pc[f] \in {"nuke"} \cup Nuked \cup Running, pc'[f] \in Nuked \cup Running,
           pc'[f] \in {"dry_run"} \cup Running => pc[f] \in {"dry_run"} \cup Running \/ resume'[f] = Missing,
           resume'[f] = resume[f] \/ resume'[f] = Missing \/ pc'[f] = "nuke_queue",
           resume'[f] = Missing \/ pc'[f] = "nuke_queue" => resume_done'[f] = Missing,
           resume_done'[f] = resume_done[f] \/ resume_done'[f] = Missing,
           starts'[f] = starts[f], mixed'[f] = mixed[f],
           Contents(queue[f]) \subseteq Contents(queue'[f]),
           CrashesKept(f) \subseteq CrashesKept(f)',
           saved'[f] \subseteq saved[f] \cup Contents(queue'[f]) \cup CrashesKept(f)'
    PROVE  Survival(f)'
<1>1. starts[f] # 0 /\ (resume[f] = Missing => resume_done[f] = Missing)
  BY DEF SessionInv, Survival, At, Nuked, Running
<1>2. ~mixed[f] => saved[f] \subseteq Contents(queue[f]) \cup CrashesKept(f)
  BY DEF SessionInv, Survival, At
<1>3. ~mixed'[f] => saved'[f] \subseteq Contents(queue'[f]) \cup CrashesKept(f)'
  BY <1>2
<1>4. ~mixed'[f] /\ pc'[f] \in {"dry_run"} \cup Running => resume'[f] = Missing
  <2>1. ~mixed[f] /\ pc[f] \in {"dry_run"} \cup Running => resume[f] = Missing
    BY DEF SessionInv, Survival, At
  <2> QED BY <2>1 DEF Running
<1>5. resume'[f] = Missing => resume_done'[f] = Missing
  BY <1>1
<1>6. starts'[f] # 0
  BY <1>1
<1>7. pc'[f] \notin Cleaning \cup Filling \cup {"down"}
  BY DEF Cleaning, Filling, Nuked, Running
<1> QED BY <1>3, <1>4, <1>5, <1>6, <1>7 DEF Survival, At, Cleaning, Filling, Nuked, Running

\* _resume goes: first the marks, then one file after the other.
LEMMA NukeKeeps ==
    ASSUME MissingIsApart(Nat), Domains, NEW f \in Fuzzers, SessionInv(f),
           NukeMetadata(f) \/ NukeFile(f) \/ NukeDone(f)
    PROVE  SessionInv(f)'
<1>1. /\ queue'[f] = queue[f] /\ deterministic_done'[f] = deterministic_done[f]
      /\ crashes'[f] = crashes[f] /\ backups'[f] = backups[f]
      /\ fuzzer_stats'[f] = fuzzer_stats[f] /\ finished'[f] = finished[f]
      /\ saved'[f] = saved[f] /\ in_place_resume'[f] = in_place_resume[f]
      /\ mixed'[f] = mixed[f] /\ starts'[f] = starts[f] /\ pos'[f] = pos[f]
      /\ entries'[f] = entries[f] /\ known'[f] = known[f] /\ age'[f] = age[f]
  BY DEF NukeMetadata, NukeFile, NukeDone, scanVars, coreVars, history
<1>2. \/ /\ pc[f] = "nuke" /\ pc'[f] = "nuke_queue"
         /\ resume'[f] = resume[f] /\ resume_done'[f] = Missing
      \/ /\ pc[f] = "nuke_queue" /\ pc'[f] = "nuke_queue" /\ resume_done'[f] = resume_done[f]
         /\ \E n \in Files(resume[f]) : resume'[f] = Unlink(resume[f], n)
      \/ /\ pc[f] = "nuke_queue" /\ pc'[f] = "dry_run" /\ resume_done'[f] = resume_done[f]
         /\ resume'[f] = Missing
  BY DEF NukeMetadata, NukeFile, NukeDone, Goto, Domains, At
<1>3. pc[f] = "nuke_queue" => resume_done[f] = Missing
  BY DEF SessionInv, Survival, At
<1>4. resume_done'[f] = Missing
  BY <1>2, <1>3
<1>5. Slot(resume'[f])
  <2>1. ASSUME NEW n \in Files(resume[f]), resume'[f] = Unlink(resume[f], n)
        PROVE  Slot(resume'[f])
    <3>1. IsDirectory(resume[f])
      BY <2>1 DEF SessionInv, DiskTyped, Slot, Files
    <3> QED BY <2>1, <3>1, UnlinkIs DEF Slot
  <2>2. Slot(resume[f]) /\ Slot(Missing)
    BY DEF SessionInv, DiskTyped, Slot
  <2> QED BY <1>2, <2>1, <2>2
<1>6. DiskTyped(f)'
  BY <1>1, <1>4, <1>5 DEF SessionInv, DiskTyped, Marks
<1>7. Typed(f)'
  BY <1>1, <1>2 DEF SessionInv, Typed, At, Filling, Nuked
<1>8. MarksTrue(f)'
  BY <1>1, <1>2, <1>4 DEF SessionInv, MarksTrue, At
<1>9. crashes[f] # Missing
  BY <1>2 DEF SessionInv, Laid, At, Filling, Nuked
<1>10. Laid(f)' /\ EntriesTrue(f)'
  BY <1>1, <1>2, <1>9, QueueStands DEF WholeAt, Nuked
<1>11. CrashesKept(f)' = CrashesKept(f)
  BY <1>1 DEF CrashesKept
<1>12. Survival(f)'
  BY <1>1, <1>2, <1>4, <1>11, RunningSurvival DEF Nuked, Running
<1> QED BY <1>6, <1>7, <1>8, <1>10, <1>12 DEF SessionInv

\* The dry run.
LEMMA DryRunKeeps ==
    ASSUME MissingIsApart(Nat), Domains, NEW f \in Fuzzers, SessionInv(f), DryRun(f)
    PROVE  SessionInv(f)'
<1>1. pc[f] = "dry_run"
  BY DEF DryRun, At
<1>2. CASE Exit(f)
  <2>1. ClearMemory(f) /\ UNCHANGED <<queue, deterministic_done, resume, resume_done,
                              crashes, backups, starts, saved, finished, fuzzer_stats, mixed>>
    BY <1>2 DEF Exit, diskVars, history
  <2>2. ~At(f, {"down"}) /\ ~At(f, {"nuke_queue"})
    BY <1>1 DEF At
  <2>3. fuzzer_stats'[f] \notin {Missing, Empty} => fuzzer_stats'[f] \in 0..MaxAge[f]
    BY <2>1 DEF SessionInv, DiskTyped
  <2> QED BY <2>1, <2>2, <2>3, EndKeepsSession
<1>3. CASE ~Exit(f)
  <2>1. /\ queue'[f] = queue[f] /\ deterministic_done'[f] = deterministic_done[f]
        /\ resume'[f] = resume[f] /\ resume_done'[f] = resume_done[f]
        /\ crashes'[f] = crashes[f] /\ backups'[f] = backups[f]
        /\ fuzzer_stats'[f] = fuzzer_stats[f] /\ finished'[f] = finished[f]
        /\ saved'[f] = saved[f] /\ in_place_resume'[f] = in_place_resume[f]
        /\ mixed'[f] = mixed[f] /\ starts'[f] = starts[f]
        /\ entries'[f] = entries[f] /\ age'[f] = age[f]
    BY <1>3 DEF DryRun, diskVars, history
  <2>2. /\ pc'[f] = "stats" /\ pos'[f] = 0
        /\ known'[f] = {e.data : e \in ToSet(entries[f])}
    BY <1>3 DEF DryRun, Goto, Domains
  <2>3. known'[f] \subseteq Cases
    <3>1. \A i \in 1..Len(entries[f]) : entries[f][i].data \in Cases
      BY <1>1 DEF SessionInv, EntriesTrue, At
    <3>2. entries[f] \in Seq(AnyEntries)
      BY DEF SessionInv, Typed
    <3>3. ToSet(entries[f]) = {entries[f][i] : i \in 1..Len(entries[f])}
      BY <3>2 DEF ToSet
    <3> QED BY <2>2, <3>1, <3>3
  <2>4. DiskTyped(f)'
    BY <2>1 DEF SessionInv, DiskTyped
  <2>5. Typed(f)'
    BY <2>1, <2>2, <2>3 DEF SessionInv, Typed, At, Running
  <2>6. MarksTrue(f)'
    BY <2>1, <2>2 DEF SessionInv, MarksTrue, At
  <2>7. crashes[f] # Missing
    BY <1>1 DEF SessionInv, Laid, At, Nuked
  <2>8. Laid(f)' /\ EntriesTrue(f)'
    BY <1>1, <2>1, <2>2, <2>7, QueueStands DEF WholeAt, Nuked, Running
  <2>9. CrashesKept(f)' = CrashesKept(f)
    BY <2>1 DEF CrashesKept
  <2>10. resume[f] = Missing => resume_done[f] = Missing
    BY DEF SessionInv, Survival
  <2>11. Survival(f)'
    BY <1>1, <2>1, <2>2, <2>9, <2>10, RunningSurvival DEF Nuked, Running
  <2> QED BY <2>4, <2>5, <2>6, <2>8, <2>11 DEF SessionInv
<1> QED BY <1>2, <1>3

\* A step of a running session that saves nothing keeps all of it.
LEMMA RunningKeeps ==
    ASSUME NEW f \in Fuzzers, SessionInv(f), pc[f] \in Running \ {"save"},
           pc'[f] \in Running \ {"save"},
           queue'[f] = queue[f], deterministic_done'[f] = deterministic_done[f],
           resume'[f] = resume[f], resume_done'[f] = resume_done[f],
           crashes'[f] = crashes[f], backups'[f] = backups[f],
           finished'[f] = finished[f], saved'[f] = saved[f],
           in_place_resume'[f] = in_place_resume[f], mixed'[f] = mixed[f],
           starts'[f] = starts[f], pos'[f] = pos[f], entries'[f] = entries[f],
           known'[f] = known[f], age'[f] \in 0..MaxAge[f],
           fuzzer_stats'[f] \notin {Missing, Empty} => fuzzer_stats'[f] \in 0..MaxAge[f],
           At(f, {"reopen", "import"})' => mem'[f] \in Cases
    PROVE  SessionInv(f)'
<1>1. DiskTyped(f)'
  BY DEF SessionInv, DiskTyped
<1>2. Typed(f)'
  BY DEF SessionInv, Typed, At, Running
<1>3. MarksTrue(f)'
  BY DEF SessionInv, MarksTrue, At, Running
<1>4. crashes[f] # Missing
  BY DEF SessionInv, Laid, At
<1>5. Laid(f)' /\ EntriesTrue(f)'
  BY <1>4, QueueStands DEF WholeAt, Running
<1>6. CrashesKept(f)' = CrashesKept(f)
  BY DEF CrashesKept
<1>7. resume[f] = Missing => resume_done[f] = Missing
  BY DEF SessionInv, Survival
<1>8. Survival(f)'
  BY <1>6, <1>7, RunningSurvival DEF Running
<1> QED BY <1>1, <1>2, <1>3, <1>5, <1>8 DEF SessionInv

\* The statistics are the only file that is rewritten.
LEMMA StatsKeep ==
    ASSUME MissingIsApart(Nat), Domains, NEW f \in Fuzzers, SessionInv(f),
           OpenStats(f) \/ WriteStats(f)
    PROVE  SessionInv(f)'
<1>0. age[f] \in 0..MaxAge[f] /\ MaxAge[f] \in Nat
  BY SessionAssumption DEF SessionInv, Typed
<1>1. CASE OpenStats(f)
  <2>1. /\ queue'[f] = queue[f] /\ deterministic_done'[f] = deterministic_done[f]
        /\ resume'[f] = resume[f] /\ resume_done'[f] = resume_done[f]
        /\ crashes'[f] = crashes[f] /\ backups'[f] = backups[f]
        /\ finished'[f] = finished[f] /\ saved'[f] = saved[f]
        /\ in_place_resume'[f] = in_place_resume[f] /\ mixed'[f] = mixed[f]
        /\ starts'[f] = starts[f] /\ pos'[f] = pos[f] /\ entries'[f] = entries[f]
        /\ known'[f] = known[f] /\ age'[f] = age[f]
    BY <1>1 DEF OpenStats, scanVars, coreVars, history
  <2>2. pc[f] \in {"stats", "fuzz", "import"} /\ pc'[f] \in {"write_stats", "last_stats"}
        /\ fuzzer_stats'[f] = Empty
    BY <1>1 DEF OpenStats, Goto, Domains, At
  <2> QED BY <1>0, <2>1, <2>2, RunningKeeps DEF Running, At
<1>2. CASE WriteStats(f)
  <2>1. PICK now \in age[f]..MaxAge[f] :
          /\ fuzzer_stats'[f] = now
          /\ IF At(f, {"last_stats"})
             THEN ClearMemory(f)
             ELSE /\ age' = [age EXCEPT ![f] = now] /\ Goto(f, "fuzz")
                  /\ UNCHANGED <<scanVars, entries, pos, known, mem, in_place_resume>>
    BY <1>2 DEF WriteStats, Domains
  <2>2. now \in 0..MaxAge[f]
    BY <1>0, <2>1
  <2>3. /\ UNCHANGED <<queue, deterministic_done, resume, resume_done, crashes, backups,
                       starts, saved, finished, mixed>>
        /\ pc[f] \in {"write_stats", "last_stats"}
    BY <1>2 DEF WriteStats, history, At
  <2>4. CASE At(f, {"last_stats"})
    <3>1. ClearMemory(f) /\ ~At(f, {"down"}) /\ ~At(f, {"nuke_queue"})
      BY <2>1, <2>4 DEF At
    <3> QED BY <2>1, <2>2, <2>3, <3>1, EndKeepsSession
  <2>5. CASE ~At(f, {"last_stats"})
    <3>1. /\ age'[f] = now /\ pc'[f] = "fuzz"
          /\ UNCHANGED <<entries, pos, known, mem, in_place_resume>>
      BY <2>1, <2>5 DEF Goto, Domains
    <3> QED BY <2>1, <2>2, <2>3, <3>1, RunningKeeps DEF Running, At
  <2> QED BY <2>4, <2>5
<1> QED BY <1>1, <1>2

\* A new case is opened under the next number.
LEMMA CaseCreated ==
    ASSUME MissingIsApart(Nat), Domains, NEW f \in Fuzzers, SessionInv(f),
           pc[f] \in {"fuzz", "import"}, NEW c \in Cases, CreateCase(f, c),
           deterministic_done'[f] = deterministic_done[f],
           resume'[f] = resume[f], resume_done'[f] = resume_done[f],
           crashes'[f] = crashes[f], backups'[f] = backups[f],
           finished'[f] = finished[f], saved'[f] = saved[f],
           in_place_resume'[f] = in_place_resume[f], mixed'[f] = mixed[f],
           starts'[f] = starts[f], pos'[f] = pos[f], entries'[f] = entries[f],
           age'[f] = age[f], fuzzer_stats'[f] = fuzzer_stats[f]
    PROVE  SessionInv(f)'
<1> DEFINE n == Len(entries[f])
           Q == queue[f]
           P == Put(Q, n, Empty)
<1>1. /\ queue'[f] = P /\ pc'[f] = "save" /\ mem'[f] = c
      /\ known'[f] = known[f] \cup {c}
  BY DEF CreateCase, queued_paths, Goto, Domains
<1>2. n \in Nat
  BY DEF SessionInv, Typed
<1>3. /\ IsDirectory(Q) /\ deterministic_done[f] # Missing /\ crashes[f] # Missing
      /\ Files(Q) = 0..n - 1
      /\ \A i \in 1..n : Q[i - 1] = entries[f][i].data
  <2>1. Whole(f) = n /\ Opened(f) = 0
    BY DEF Whole, Opened, At
  <2>2. /\ queue[f] # Missing /\ deterministic_done[f] # Missing /\ crashes[f] # Missing
        /\ Files(queue[f]) = 0..n + 0 - 1
        /\ \A i \in 1..n : queue[f][i - 1] = entries[f][i].data
    BY <2>1 DEF SessionInv, Laid, At, Running
  <2>3. IsDirectory(Q)
    BY <2>2 DEF SessionInv, DiskTyped, Slot
  <2>4. 0..n + 0 - 1 = 0..n - 1
    BY <1>2
  <2> QED BY <2>2, <2>3, <2>4
<1>4. /\ IsDirectory(P) /\ P # Missing /\ Files(P) = Files(Q) \cup {n} /\ P[n] = Empty
      /\ \A m \in Files(Q) : m # n => P[m] = Q[m]
      /\ n \notin Files(Q)
  <2>1. n \notin Files(Q)
    <3>1. n \notin 0..n - 1
      BY <1>2
    <3> QED BY <1>3, <3>1
  <2>2. Empty \in Content /\ n \in Nat /\ IsDirectory(Q)
    BY <1>2, <1>3 DEF Content
  <2> HIDE DEF n, Q
  <2>3. /\ IsDirectory(P) /\ Files(P) = Files(Q) \cup {n} /\ P[n] = Empty
        /\ \A m \in Files(Q) : m # n => P[m] = Q[m]
    BY <2>2, PutIs
  <2> HIDE DEF P
  <2>4. P # Missing
    BY <2>3, NoneIsMissing
  <2> QED BY <2>1, <2>3, <2>4
<1>5. Contents(P) = Contents(Q)
  <2>1. Contents(P) = Contents(Q) \cup ({Empty} \ {Empty})
    BY <1>2, <1>3, <1>4, PutKeeps DEF Content
  <2> QED BY <2>1
<1> HIDE DEF P, Q
<1>6. DiskTyped(f)'
  BY <1>1, <1>4 DEF SessionInv, DiskTyped, Slot
<1>7. Typed(f)'
  BY <1>1 DEF SessionInv, Typed, At, Running
<1>8. MarksTrue(f)'
  <2>1. \A m \in deterministic_done[f] : m \in Files(Q) /\ Q[m] \in finished[f]
    BY <1>3 DEF SessionInv, MarksTrue, Q
  <2>2. \A m \in deterministic_done[f] : m \in Files(P) /\ P[m] \in finished[f]
    BY <1>4, <2>1
  <2> QED BY <1>1, <2>2 DEF SessionInv, MarksTrue, At
<1>9. Laid(f)'
  <2>1. Whole(f)' = n /\ Opened(f)' = 1
    BY <1>1 DEF Whole, Opened, At
  <2>2. Files(P) = 0..n + 1 - 1
    BY <1>2, <1>3, <1>4
  <2>3. \A i \in 1..n : P[i - 1] = entries[f][i].data
    <3> SUFFICES ASSUME NEW i \in 1..n PROVE P[i - 1] = entries[f][i].data
      OBVIOUS
    <3>1. i - 1 \in 0..n - 1 /\ i - 1 # n
      BY <1>2
    <3> QED BY <1>3, <1>4, <3>1
  <2> HIDE DEF n
  <2> QED BY <1>1, <1>3, <1>4, <2>1, <2>2, <2>3 DEF Laid
<1>10. EntriesTrue(f)'
  BY <1>1 DEF SessionInv, EntriesTrue, At, Filling, Nuked, Running
<1>11. Survival(f)'
  <2>1. CrashesKept(f)' = CrashesKept(f)
    BY DEF CrashesKept
  <2>2. resume[f] = Missing => resume_done[f] = Missing
    BY DEF SessionInv, Survival
  <2>3. Contents(queue'[f]) = Contents(queue[f])
    BY <1>1, <1>5 DEF Q
  <2> QED BY <1>1, <2>1, <2>2, <2>3, RunningSurvival DEF Nuked, Running
<1> QED BY <1>6, <1>7, <1>8, <1>9, <1>10, <1>11 DEF SessionInv

\* Mutation comes upon something new.
LEMMA DiscoverKeeps ==
    ASSUME MissingIsApart(Nat), Domains, NEW f \in Fuzzers, SessionInv(f), Discover(f)
    PROVE  SessionInv(f)'
<1>1. PICK c \in Discoverable[f] \ (known[f] \cup {Crash}) : CreateCase(f, c)
  BY DEF Discover
<1>2. c \in Cases
  BY SessionAssumption
<1>3. /\ deterministic_done'[f] = deterministic_done[f]
      /\ resume'[f] = resume[f] /\ resume_done'[f] = resume_done[f]
      /\ crashes'[f] = crashes[f] /\ backups'[f] = backups[f]
      /\ finished'[f] = finished[f] /\ saved'[f] = saved[f]
      /\ in_place_resume'[f] = in_place_resume[f] /\ mixed'[f] = mixed[f]
      /\ starts'[f] = starts[f] /\ pos'[f] = pos[f] /\ entries'[f] = entries[f]
      /\ age'[f] = age[f] /\ fuzzer_stats'[f] = fuzzer_stats[f]
      /\ pc[f] \in {"fuzz", "import"}
  BY DEF Discover, history, At
<1> QED BY <1>1, <1>2, <1>3, CaseCreated

\* The case is written into the file that was opened, and gets its entry.
LEMMA FinishSaveKeeps ==
    ASSUME MissingIsApart(Nat), Domains, NEW f \in Fuzzers, SessionInv(f), FinishSave(f)
    PROVE  SessionInv(f)'
<1>1. PICK data \in {mem[f], Empty} : SaveCase(f, data)
  BY DEF FinishSave
<1> DEFINE n == Len(entries[f])
           Q == queue[f]
           P == Put(Q, n, data)
           E == Append(entries[f], Entry(data, FALSE))
<1>2. /\ queue'[f] = P /\ entries'[f] = E /\ saved'[f] = saved[f] \cup ({data} \ {Empty})
      /\ pc[f] = "save" /\ pc'[f] \in {"fuzz", "scan"}
  BY <1>1 DEF FinishSave, SaveCase, queued_paths, Goto, Domains, At
<1>3. /\ deterministic_done'[f] = deterministic_done[f]
      /\ resume'[f] = resume[f] /\ resume_done'[f] = resume_done[f]
      /\ crashes'[f] = crashes[f] /\ backups'[f] = backups[f]
      /\ fuzzer_stats'[f] = fuzzer_stats[f] /\ finished'[f] = finished[f]
      /\ in_place_resume'[f] = in_place_resume[f] /\ mixed'[f] = mixed[f]
      /\ starts'[f] = starts[f] /\ pos'[f] = pos[f]
      /\ known'[f] = known[f] /\ age'[f] = age[f]
  BY DEF FinishSave
<1>4. entries[f] \in Seq(AnyEntries) /\ n \in Nat /\ data \in Content
      /\ (data # Empty => data \in Cases)
  <2>1. mem[f] \in Cases
    BY <1>2 DEF SessionInv, Typed, At
  <2> QED BY <2>1 DEF SessionInv, Typed, Content
<1>5. /\ IsDirectory(Q) /\ deterministic_done[f] # Missing /\ crashes[f] # Missing
      /\ Files(Q) = 0..n /\ Q[n] = Empty
      /\ \A i \in 1..n : Q[i - 1] = entries[f][i].data
  <2>1. Whole(f) = n /\ Opened(f) = 1
    BY <1>2 DEF Whole, Opened, At
  <2>2. /\ queue[f] # Missing /\ deterministic_done[f] # Missing /\ crashes[f] # Missing
        /\ Files(queue[f]) = 0..n + 1 - 1
        /\ \A i \in 1..n : queue[f][i - 1] = entries[f][i].data
        /\ queue[f][n] = Empty
    BY <1>2, <2>1 DEF SessionInv, Laid, At, Running
  <2>3. IsDirectory(Q)
    BY <2>2 DEF SessionInv, DiskTyped, Slot
  <2>4. 0..n + 1 - 1 = 0..n
    BY <1>4
  <2> QED BY <2>2, <2>3, <2>4
<1> HIDE DEF n, Q
<1>6. /\ IsDirectory(P) /\ P # Missing /\ Files(P) = 0..n /\ P[n] = data
      /\ \A m \in Files(Q) : m # n => P[m] = Q[m]
  <2>1. 0..n \cup {n} = 0..n
    BY <1>4
  <2>2. /\ IsDirectory(P) /\ Files(P) = Files(Q) \cup {n} /\ P[n] = data
        /\ \A m \in Files(Q) : m # n => P[m] = Q[m]
    BY <1>4, <1>5, PutIs
  <2> HIDE DEF P
  <2>3. P # Missing
    BY <2>2, NoneIsMissing
  <2> QED BY <1>5, <2>1, <2>2, <2>3
<1>7. Contents(P) = Contents(Q) \cup ({data} \ {Empty})
  BY <1>4, <1>5, PutKeeps
<1>8. /\ E \in Seq(AnyEntries) /\ Len(E) = n + 1
      /\ \A i \in 1..n : E[i] = entries[f][i]
      /\ E[n + 1].data = data /\ E[n + 1].passed_det = FALSE
  <2>1. Entry(data, FALSE) \in AnyEntries /\ Entry(data, FALSE).data = data
        /\ Entry(data, FALSE).passed_det = FALSE
    BY <1>4 DEF Entry, AnyEntries
  <2> DEFINE e == Entry(data, FALSE)
  <2> HIDE DEF e
  <2>2. E = Append(entries[f], e)
    BY DEF e
  <2> HIDE DEF E
  <2>3. e \in AnyEntries
    BY <2>1 DEF e
  <2>4. E \in Seq(AnyEntries) /\ Len(E) = n + 1 /\ E[n + 1] = e
        /\ \A i \in 1..n : E[i] = entries[f][i]
    BY <1>4, <2>2, <2>3 DEF n
  <2> QED BY <2>1, <2>4 DEF e
<1> HIDE DEF P, E
<1>9. DiskTyped(f)'
  BY <1>2, <1>3, <1>6 DEF SessionInv, DiskTyped, Slot
<1>10. Typed(f)'
  <2>1. saved'[f] \subseteq Cases \cup {Crash}
    BY <1>2, <1>4 DEF SessionInv, Typed
  <2> QED BY <1>2, <1>3, <1>8, <2>1 DEF SessionInv, Typed, At, Running
<1>11. MarksTrue(f)'
  <2>1. /\ \A m \in deterministic_done[f] : m \in Files(Q) /\ Q[m] \in finished[f]
        /\ finished[f] \subseteq Cases
    BY <1>5 DEF SessionInv, MarksTrue, Q
  <2>2. \A m \in deterministic_done[f] : m # n
    BY <1>5, <2>1, SessionAssumption
  <2>3. \A m \in deterministic_done[f] : m \in Files(P) /\ P[m] \in finished[f]
    BY <1>5, <1>6, <2>1, <2>2
  <2> QED BY <1>2, <1>3, <2>3 DEF SessionInv, MarksTrue, At
<1>12. Laid(f)'
  <2>1. Whole(f)' = n + 1 /\ Opened(f)' = 0
    BY <1>2, <1>8 DEF Whole, Opened, At
  <2>2. Files(P) = 0..(n + 1) + 0 - 1
    BY <1>4, <1>6
  <2>3. \A i \in 1..n + 1 : P[i - 1] = E[i].data
    <3> SUFFICES ASSUME NEW i \in 1..n + 1 PROVE P[i - 1] = E[i].data
      OBVIOUS
    <3>1. CASE i = n + 1
      <4>1. i - 1 = n
        BY <1>4, <3>1
      <4> QED BY <1>6, <1>8, <3>1, <4>1
    <3>2. CASE i # n + 1
      <4>1. i \in 1..n /\ i - 1 \in 0..n /\ i - 1 # n
        BY <1>4, <3>2
      <4> QED BY <1>5, <1>6, <1>8, <4>1
    <3> QED BY <3>1, <3>2
  <2> QED BY <1>2, <1>3, <1>5, <1>6, <2>1, <2>2, <2>3 DEF Laid
<1>13. EntriesTrue(f)'
  <2>1. \A i \in 1..n : entries[f][i].passed_det => entries[f][i].data \in finished[f]
    BY <1>2 DEF SessionInv, EntriesTrue, At, Running, n
  <2>2. \A i \in 1..Len(E) : E[i].passed_det => E[i].data \in finished[f]
    <3> SUFFICES ASSUME NEW i \in 1..n + 1, E[i].passed_det PROVE E[i].data \in finished[f]
      BY <1>8
    <3>1. i \in 1..n
      <4>1. i # n + 1
        BY <1>8
      <4> QED BY <1>4, <4>1
    <3> QED BY <1>8, <2>1, <3>1
  <2> QED BY <1>2, <1>3, <2>2 DEF EntriesTrue, At
<1>14. Survival(f)'
  <2>1. CrashesKept(f)' = CrashesKept(f)
    BY <1>3 DEF CrashesKept
  <2>2. resume[f] = Missing => resume_done[f] = Missing
    BY DEF SessionInv, Survival
  <2>3. Contents(queue[f]) \subseteq Contents(queue'[f])
        /\ saved'[f] \subseteq saved[f] \cup Contents(queue'[f])
    BY <1>2, <1>7 DEF Q
  <2> QED BY <1>2, <1>3, <2>1, <2>2, <2>3, RunningSurvival DEF Nuked, Running
<1> QED BY <1>9, <1>10, <1>11, <1>12, <1>13, <1>14 DEF SessionInv

\* A crash is kept beside the queue.
LEMMA DiscoverCrashKeeps ==
    ASSUME MissingIsApart(Nat), Domains, NEW f \in Fuzzers, SessionInv(f), DiscoverCrash(f)
    PROVE  SessionInv(f)'
<1>1. /\ queue'[f] = queue[f] /\ deterministic_done'[f] = deterministic_done[f]
      /\ resume'[f] = resume[f] /\ resume_done'[f] = resume_done[f]
      /\ backups'[f] = backups[f]
      /\ fuzzer_stats'[f] = fuzzer_stats[f] /\ finished'[f] = finished[f]
      /\ in_place_resume'[f] = in_place_resume[f] /\ mixed'[f] = mixed[f]
      /\ starts'[f] = starts[f] /\ pos'[f] = pos[f] /\ entries'[f] = entries[f]
      /\ age'[f] = age[f]
  BY DEF DiscoverCrash
<1>2. /\ pc[f] = "fuzz" /\ pc'[f] = "fuzz"
      /\ crashes'[f] = crashes[f] \cup {Crash} /\ saved'[f] = saved[f] \cup {Crash}
      /\ known'[f] = known[f] \cup {Crash}
  BY DEF DiscoverCrash, Domains, At
<1>3. crashes[f] # Missing /\ crashes[f] \subseteq {Crash}
  BY <1>2 DEF SessionInv, Laid, DiskTyped, At, Running
<1>4. crashes'[f] # Missing /\ crashes'[f] \subseteq {Crash}
  BY <1>2, <1>3, NoneIsMissing
<1>5. DiskTyped(f)'
  BY <1>1, <1>4 DEF SessionInv, DiskTyped
<1>6. Typed(f)'
  BY <1>1, <1>2 DEF SessionInv, Typed, At, Running
<1>7. MarksTrue(f)'
  BY <1>1, <1>2 DEF SessionInv, MarksTrue, At
<1>8. Laid(f)' /\ EntriesTrue(f)'
  BY <1>1, <1>2, <1>4, QueueStands DEF WholeAt, Running
<1>9. /\ CrashesKept(f) \subseteq CrashesKept(f)' /\ Crash \in CrashesKept(f)'
  BY <1>1, <1>2, <1>3, <1>4 DEF CrashesKept
<1>10. resume[f] = Missing => resume_done[f] = Missing
  BY DEF SessionInv, Survival
<1>11. Survival(f)'
  BY <1>1, <1>2, <1>9, <1>10, RunningSurvival DEF Running
<1> QED BY <1>5, <1>6, <1>7, <1>8, <1>11 DEF SessionInv

\* The mark says of the entry whose stages have just ended.
LEMMA MarkAsDetDoneKeeps ==
    ASSUME MissingIsApart(Nat), Domains, NEW f \in Fuzzers, SessionInv(f), MarkAsDetDone(f)
    PROVE  SessionInv(f)'
<1> DEFINE n == Len(entries[f])
<1>1. PICK i \in DOMAIN entries[f] :
        /\ entries[f][i].data # Empty /\ ~entries[f][i].passed_det
        /\ deterministic_done' = [deterministic_done EXCEPT ![f] = @ \cup {i - 1}]
        /\ entries' = [entries EXCEPT ![f][i].passed_det = TRUE]
        /\ finished' = [finished EXCEPT ![f] = @ \cup {entries[f][i].data}]
  BY DEF MarkAsDetDone
<1> DEFINE E == [entries[f] EXCEPT ![i].passed_det = TRUE]
           D == deterministic_done[f] \cup {i - 1}
<1>2. /\ entries'[f] = E /\ deterministic_done'[f] = D
      /\ finished'[f] = finished[f] \cup {entries[f][i].data}
  BY <1>1 DEF Domains
<1>3. /\ queue'[f] = queue[f]
      /\ resume'[f] = resume[f] /\ resume_done'[f] = resume_done[f]
      /\ crashes'[f] = crashes[f] /\ backups'[f] = backups[f]
      /\ fuzzer_stats'[f] = fuzzer_stats[f] /\ saved'[f] = saved[f]
      /\ in_place_resume'[f] = in_place_resume[f] /\ mixed'[f] = mixed[f]
      /\ starts'[f] = starts[f] /\ pos'[f] = pos[f]
      /\ known'[f] = known[f] /\ age'[f] = age[f]
      /\ pc'[f] = pc[f] /\ pc[f] = "fuzz"
  BY DEF MarkAsDetDone, At
<1>4. entries[f] \in Seq(AnyEntries) /\ n \in Nat /\ i \in 1..n
  <2>1. entries[f] \in Seq(AnyEntries)
    BY DEF SessionInv, Typed
  <2> QED BY <2>1
<1>5. \A j \in 1..n : entries[f][j] \in AnyEntries
  BY <1>4
<1>6. \A j \in 1..n : /\ E[j] \in AnyEntries /\ E[j].data = entries[f][j].data
                      /\ j # i => E[j] = entries[f][j]
  <2> TAKE j \in 1..n
  <2>1. CASE j # i
    BY <1>4, <1>5, <2>1
  <2>2. CASE j = i
    <3>1. E[i] = [entries[f][i] EXCEPT !.passed_det = TRUE]
      BY <1>4
    <3>2. entries[f][i] \in AnyEntries
      BY <1>4, <1>5
    <3> HIDE DEF E
    <3> QED BY <2>2, <3>1, <3>2 DEF AnyEntries
  <2> QED BY <2>1, <2>2
<1>7. E \in Seq(AnyEntries) /\ Len(E) = n
  <2>1. E \in [1..n -> AnyEntries]
    <3>1. DOMAIN entries[f] = 1..n
      BY <1>4
    <3>2. E = [j \in DOMAIN entries[f] |->
                 IF j = i THEN [entries[f][i] EXCEPT !.passed_det = TRUE] ELSE entries[f][j]]
      OBVIOUS
    <3> DEFINE S == 1..n
    <3>3. DOMAIN E = S /\ E = [j \in S |-> E[j]] /\ \A j \in S : E[j] \in AnyEntries
      BY <1>6, <3>1, <3>2
    <3> HIDE DEF E, S
    <3>4. E \in [S -> AnyEntries]
      BY <3>3
    <3> QED BY <3>4 DEF S
  <2> HIDE DEF E, n
  <2> QED BY <1>4, <2>1
<1> HIDE DEF E
<1>8. /\ queue[f] # Missing /\ deterministic_done[f] # Missing /\ crashes[f] # Missing
      /\ Files(queue[f]) = 0..n + 0 - 1
      /\ \A j \in 1..n : queue[f][j - 1] = entries[f][j].data
  <2>1. Whole(f) = n /\ Opened(f) = 0
    BY <1>3 DEF Whole, Opened, At
  <2> QED BY <1>3, <2>1 DEF SessionInv, Laid, At, Running
<1>9. D \subseteq Nat /\ D # Missing
  <2>1. i - 1 \in Nat
    BY <1>4
  <2>2. D \subseteq Nat
    BY <1>8, <2>1 DEF SessionInv, DiskTyped, Marks
  <2> QED BY <2>2, NoneIsMissing
<1>10. i - 1 \in Files(queue[f]) /\ queue[f][i - 1] = entries[f][i].data
  BY <1>4, <1>8
<1>11. entries[f][i].data \in Cases
  <2>1. entries[f][i].data \in Content
    BY <1>4, <1>5 DEF AnyEntries
  <2> QED BY <1>1, <2>1 DEF Content
<1> HIDE DEF D
<1>12. DiskTyped(f)'
  BY <1>2, <1>3, <1>9 DEF SessionInv, DiskTyped, Marks
<1>13. Typed(f)'
  BY <1>2, <1>3, <1>7 DEF SessionInv, Typed, At, Running
<1>14. MarksTrue(f)'
  <2>1. /\ \A m \in deterministic_done[f] : m \in Files(queue[f]) /\ queue[f][m] \in finished[f]
        /\ finished[f] \subseteq Cases
        /\ resume_done[f] # Missing =>
             \A m \in resume_done[f] : m \in Files(resume[f]) /\ resume[f][m] \in finished[f]
    BY <1>8 DEF SessionInv, MarksTrue
  <2>2. \A m \in D : m \in Files(queue[f]) /\ queue[f][m] \in finished'[f]
    BY <1>2, <1>10, <2>1 DEF D
  <2>3. finished'[f] \subseteq Cases /\ finished[f] \subseteq finished'[f]
    BY <1>2, <1>11, <2>1
  <2> QED BY <1>2, <1>3, <2>1, <2>2, <2>3 DEF MarksTrue, At
<1>15. Laid(f)'
  <2>1. Whole(f)' = n /\ Opened(f)' = 0
    BY <1>2, <1>3, <1>7 DEF Whole, Opened, At
  <2> QED BY <1>2, <1>3, <1>6, <1>8, <1>9, <2>1 DEF Laid
<1>16. EntriesTrue(f)'
  <2>1. \A j \in 1..n : entries[f][j].passed_det => entries[f][j].data \in finished[f]
    BY <1>3 DEF SessionInv, EntriesTrue, At, Running
  <2>2. \A j \in 1..n : E[j].passed_det => E[j].data \in finished'[f]
    BY <1>2, <1>6, <2>1
  <2> QED BY <1>2, <1>3, <1>7, <2>2 DEF EntriesTrue, At
<1>17. Survival(f)'
  <2>1. CrashesKept(f)' = CrashesKept(f)
    BY <1>3 DEF CrashesKept
  <2>2. resume[f] = Missing => resume_done[f] = Missing
    BY DEF SessionInv, Survival
  <2> QED BY <1>3, <2>1, <2>2, RunningSurvival DEF Nuked, Running
<1> QED BY <1>12, <1>13, <1>14, <1>15, <1>16, <1>17 DEF SessionInv

\* A scan reads and waits: only a case that is new opens a file of this fuzzer.
LEMMA SyncKeepsSession ==
    ASSUME MissingIsApart(Nat), Domains, NEW f \in Fuzzers,
           \A g \in Fuzzers : SessionInv(g), ScanTyped(f), SyncStep(f)
    PROVE  SessionInv(f)'
<1>0. /\ SessionInv(f) /\ age[f] \in 0..MaxAge[f]
      /\ fuzzer_stats[f] \notin {Missing, Empty} => fuzzer_stats[f] \in 0..MaxAge[f]
  BY DEF SessionInv, Typed, DiskTyped
<1>1. CASE BeginScan(f)
  <2>1. UNCHANGED <<diskVars, coreVars, history>> /\ pc[f] = "fuzz" /\ pc'[f] = "scan"
    BY <1>1 DEF BeginScan, Goto, Domains, At
  <2> QED BY <1>0, <2>1, RunningKeeps DEF Running, At, diskVars, coreVars, history
<1>2. CASE ReadDirent(f)
  <2>1. /\ UNCHANGED <<diskVars, history, entries, pos, known, age, in_place_resume>>
        /\ pc[f] = "scan"
    BY <1>2 DEF ReadDirent, At
  <2>2. PICK n \in Returnable(f) :
          IF ~SeenBefore(f, n) /\ n \in Files(Theirs(f)) /\ Theirs(f)[n] # Empty
          THEN /\ dirent' = [dirent EXCEPT ![f] = n]
               /\ mem' = [mem EXCEPT ![f] = Theirs(f)[n]]
               /\ Goto(f, "reopen")
          ELSE UNCHANGED <<dirent, mem, pc>>
    BY <1>2 DEF ReadDirent
  <2>3. Slot(Theirs(f))
    <3>1. party[f] \in Fuzzers
      BY <2>1, SessionAssumption DEF ScanTyped, At, Scanning
    <3> QED BY <3>1 DEF SessionInv, DiskTyped, Theirs
  <2>4. pc'[f] \in {"scan", "reopen"} /\ (pc'[f] = "reopen" => mem'[f] \in Cases)
    <3>1. CASE ~SeenBefore(f, n) /\ n \in Files(Theirs(f)) /\ Theirs(f)[n] # Empty
      <4>1. Theirs(f)[n] \in Cases
        BY <2>3, <3>1, SlotContents DEF Content
      <4> QED BY <2>2, <3>1, <4>1 DEF Goto, Domains
    <3>2. CASE ~(~SeenBefore(f, n) /\ n \in Files(Theirs(f)) /\ Theirs(f)[n] # Empty)
      <4>1. UNCHANGED pc
        BY <2>2, <3>2
      <4> QED BY <2>1, <4>1
    <3> QED BY <3>1, <3>2
  <2> QED BY <1>0, <2>1, <2>4, RunningKeeps DEF Running, At, diskVars, history
<1>3. CASE ReopenCase(f)
  <2>1. pc[f] = "reopen"
    BY <1>3 DEF ReopenCase, At
  <2>2. CASE dirent[f] \in Files(Theirs(f))
    <3>1. UNCHANGED <<diskVars, coreVars, history>> /\ pc'[f] = "import"
      BY <1>3, <2>2 DEF ReopenCase, Goto, Domains
    <3>2. mem[f] \in Cases
      BY <1>0, <2>1 DEF SessionInv, Typed, At
    <3> QED BY <1>0, <2>1, <3>1, <3>2, RunningKeeps DEF Running, At, diskVars, coreVars, history
  <2>3. CASE dirent[f] \notin Files(Theirs(f))
    <3>1. Exit(f)
      BY <1>3, <2>3 DEF ReopenCase
    <3>2. ClearMemory(f) /\ UNCHANGED <<queue, deterministic_done, resume, resume_done,
                              crashes, backups, starts, saved, finished, fuzzer_stats, mixed>>
      BY <3>1 DEF Exit, diskVars, history
    <3>3. ~At(f, {"down"}) /\ ~At(f, {"nuke_queue"})
      BY <2>1 DEF At
    <3> QED BY <1>0, <3>2, <3>3, EndKeepsSession
  <2> QED BY <2>2, <2>3
<1>4. CASE ImportCase(f)
  <2>1. /\ UNCHANGED <<history, entries, pos, age, in_place_resume, deterministic_done, resume,
                       resume_done, crashes, backups, fuzzer_stats, synced>>
        /\ pc[f] = "import"
    BY <1>4 DEF ImportCase, At
  <2>2. mem[f] \in Cases
    BY <1>0, <2>1 DEF SessionInv, Typed, At
  <2>3. CASE mem[f] \in known[f]
    <3>1. UNCHANGED <<known, queue>> /\ pc'[f] = "scan"
      BY <1>4, <2>3 DEF ImportCase, Goto, Domains
    <3> QED BY <1>0, <2>1, <3>1, RunningKeeps DEF Running, At, history
  <2>4. CASE mem[f] \notin known[f]
    <3>1. CreateCase(f, mem[f])
      BY <1>4, <2>4 DEF ImportCase
    <3> QED BY <1>0, <2>1, <2>2, <3>1, CaseCreated DEF history
  <2> QED BY <2>3, <2>4
<1>5. CASE EndScan(f)
  <2>1. /\ UNCHANGED <<coreVars, history, queue, deterministic_done, resume, resume_done,
                       crashes, backups, fuzzer_stats>>
        /\ pc[f] = "scan" /\ pc'[f] = "fuzz"
    BY <1>5 DEF EndScan, Goto, Domains, At
  <2> QED BY <1>0, <2>1, RunningKeeps DEF Running, At, coreVars, history
<1> QED BY <1>1, <1>2, <1>3, <1>4, <1>5 DEF SyncStep

\* A kill does what an end does.
LEMMA KillKeepsSession ==
    ASSUME MissingIsApart(Nat), Domains, NEW f \in Fuzzers, SessionInv(f), Kill(f)
    PROVE  SessionInv(f)'
<1>1. /\ ClearMemory(f) /\ ~At(f, {"down"})
      /\ UNCHANGED <<queue, deterministic_done, resume, resume_done, crashes, backups,
                     starts, saved, finished, fuzzer_stats>>
  BY DEF Kill, diskVars
<1>2. mixed'[f] = (mixed[f] \/ (At(f, {"nuke_queue"}) /\ HalfDeleted(f)))
  BY DEF Kill, Domains
<1>3. ~mixed'[f] => ~mixed[f] /\ (At(f, {"nuke_queue"}) => ~HalfDeleted(f))
  BY <1>2
<1>4. fuzzer_stats'[f] \notin {Missing, Empty} => fuzzer_stats'[f] \in 0..MaxAge[f]
  BY <1>1 DEF SessionInv, DiskTyped
<1> QED BY <1>1, <1>3, <1>4, EndKeepsSession

\* Every step keeps the session of every fuzzer.
LEMMA StepKeepsSession ==
    ASSUME MissingIsApart(Nat), Domains, NEW f \in Fuzzers,
           \A g \in Fuzzers : SessionInv(g), ScanTyped(f),
           StartStep(f) \/ FuzzStep(f) \/ SyncStep(f) \/ Kill(f)
    PROVE  \A g \in Fuzzers : SessionInv(g)'
<1>1. SessionInv(f)
  OBVIOUS
<1>2. ASSUME StartStep(f) PROVE SessionInv(f)'
  BY <1>1, <1>2, StartFreshKeeps, StartResumeKeeps, CleanMetadataKeeps, CleanQueueKeeps,
     CleanCrashesKeeps, MakeDirsKeeps, ReadTestcasesKeeps, LinkInputKeeps, CreateCopyKeeps,
     PivotDetDoneKeeps, PivotDoneKeeps, NukeKeeps, DryRunKeeps DEF StartStep
<1>3. ASSUME FuzzStep(f) PROVE SessionInv(f)'
  BY <1>1, <1>3, StatsKeep, DiscoverKeeps, FinishSaveKeeps, DiscoverCrashKeeps,
     MarkAsDetDoneKeeps DEF FuzzStep
<1>4. SessionInv(f)'
  BY <1>1, <1>2, <1>3, SyncKeepsSession, KillKeepsSession
<1>5. OthersSame(f)
  BY StepIsLocal
<1> QED BY <1>4, <1>5, OthersKeepSession

(***************************************************************************)
(* Scans                                                                   *)
(***************************************************************************)

\* The variables of a scan, and its position in .synced, are as they were.
ScanSame(f) ==
    /\ party'[f] = party[f] /\ handle'[f] = handle[f] /\ owed'[f] = owed[f]
    /\ min_accept'[f] = min_accept[f] /\ next_min_accept'[f] = next_min_accept[f]
    /\ listed'[f] = listed[f] /\ returned'[f] = returned[f] /\ dirent'[f] = dirent[f]
    /\ accepted'[f] = accepted[f] /\ synced'[f] = synced[f]

Outside == {"down"} \cup Cleaning \cup Filling \cup Nuked

\* The directories are made anew, never unmade.
MadeGrows == \A p \in Fuzzers : made'[p] \in Nat /\ made[p] <= made'[p]

\* Only MakeDirs makes a directory.
LEMMA MadeByMakeDirs ==
    ASSUME Domains, NEW f \in Fuzzers,
           StartStep(f) \/ FuzzStep(f) \/ SyncStep(f) \/ Kill(f)
    PROVE  (MakeDirs(f) /\ made'[f] = made[f] + 1) \/ (~MakeDirs(f) /\ made'[f] = made[f])
<1>1. CASE MakeDirs(f)
  BY <1>1 DEF MakeDirs, Domains
<1>2. CASE ~MakeDirs(f)
  <2>1. ASSUME StartStep(f) PROVE made'[f] = made[f]
    BY <1>2, <2>1 DEF StartStep, StartFresh, StartResume, Begin, CleanMetadata, CleanQueueFile,
            QueueCleaned, CleanCrashes, CleanRest, ReadTestcases, LinkInput, CreateCopy,
            WriteCopy, WriteInput, PivotDetDone, PivotDone, NukeMetadata, NukeFile, NukeDone,
            DryRun, Exit, history
  <2>2. ASSUME FuzzStep(f) PROVE made'[f] = made[f]
    BY <2>2 DEF FuzzStep, OpenStats, WriteStats, Discover, FinishSave, DiscoverCrash,
            MarkAsDetDone, history
  <2>3. ASSUME SyncStep(f) PROVE made'[f] = made[f]
    BY <2>3 DEF SyncStep, BeginScan, ReadDirent, ReopenCase, ImportCase, EndScan, Exit, history
  <2>4. ASSUME Kill(f) PROVE made'[f] = made[f]
    BY <2>4 DEF Kill
  <2> QED BY <1>2, <2>1, <2>2, <2>3, <2>4
<1> QED BY <1>1, <1>2

\* So every step keeps MadeGrows.
LEMMA MadeOnlyGrows ==
    ASSUME Domains, NEW f \in Fuzzers, \A g \in Fuzzers : ScanTyped(g),
           StartStep(f) \/ FuzzStep(f) \/ SyncStep(f) \/ Kill(f)
    PROVE  MadeGrows
<1>1. \A g \in Fuzzers : made[g] \in Nat
  BY DEF ScanTyped
<1>2. made'[f] = made[f] + 1 \/ made'[f] = made[f]
  BY MadeByMakeDirs
<1>3. \A g \in Fuzzers \ {f} : made'[g] = made[g]
  BY StepIsLocal DEF OthersSame
<1> SUFFICES ASSUME NEW p \in Fuzzers PROVE made'[p] \in Nat /\ made[p] <= made'[p]
  BY DEF MadeGrows
<1> QED BY <1>1, <1>2, <1>3

\* What a step keeps that is no step of a scan.
LEMMA ScanStands ==
    ASSUME NEW f \in Fuzzers, ScanInv(f), ScanSame(f), MadeGrows,
           \A g \in Fuzzers : made[g] \in Nat,
           pc'[f] \in Outside => pc[f] \in Outside,
           pc'[f] \in Scanning => party[f] # f,
           party[f] # f => pc'[f] \in Scanning \cup {"save", "last_stats"},
           pc'[f] \in {"reopen", "import"} => pc[f] \in {"reopen", "import"}
    PROVE  ScanInv(f)'
<1>1. /\ party'[f] = party[f] /\ handle'[f] = handle[f]
      /\ min_accept'[f] = min_accept[f] /\ next_min_accept'[f] = next_min_accept[f]
      /\ listed'[f] = listed[f] /\ returned'[f] = returned[f] /\ dirent'[f] = dirent[f]
      /\ accepted'[f] = accepted[f] /\ synced'[f] = synced[f]
  BY DEF ScanSame
<1>2. party[f] # f => handle[f] \in Nat /\ handle[f] <= made'[party[f]]
  <2> SUFFICES ASSUME party[f] # f PROVE handle[f] \in Nat /\ handle[f] <= made'[party[f]]
    OBVIOUS
  <2>1. handle[f] \in Nat /\ handle[f] <= made[party[f]] /\ party[f] \in Fuzzers
    BY SessionAssumption DEF ScanInv, ScanTyped
  <2>2. made[party[f]] \in Nat /\ made'[party[f]] \in Nat /\ made[party[f]] <= made'[party[f]]
    BY <2>1 DEF MadeGrows
  <2> QED BY <2>1, <2>2
<1>3. made'[f] \in Nat
  BY DEF MadeGrows
<1>4. ScanTyped(f)'
  BY <1>1, <1>2, <1>3 DEF ScanInv, ScanTyped, At
<1>5. OnceEach(f)'
  BY <1>1 DEF ScanInv, OnceEach, At, Outside
<1> QED BY <1>4, <1>5 DEF ScanInv

\* A process that ends forgets its scan.
LEMMA ScanEnds ==
    ASSUME Domains, NEW f \in Fuzzers, ScanInv(f), MadeGrows, ClearMemory(f),
           synced'[f] = synced[f]
    PROVE  ScanInv(f)'
<1>1. /\ party'[f] = f /\ pc'[f] = "down" /\ accepted'[f] = [p \in Parties[f] |-> {}]
      /\ min_accept'[f] = 0 /\ next_min_accept'[f] = 0
      /\ listed'[f] = {} /\ returned'[f] = {}
  BY DEF ClearMemory, Goto, Domains
<1>2. DOMAIN accepted'[f] = Parties[f] /\ \A p \in Parties[f] : accepted'[f][p] = {}
  BY <1>1
<1>3. made'[f] \in Nat
  BY DEF MadeGrows
<1>4. DOMAIN synced[f] = Parties[f] /\ \A p \in Parties[f] : synced[f][p] \in Nat
  BY DEF ScanInv, ScanTyped
<1>5. ScanTyped(f)'
  BY <1>1, <1>2, <1>3, <1>4 DEF ScanTyped, At, Scanning
<1>6. OnceEach(f)'
  BY <1>1, <1>2 DEF OnceEach
<1> QED BY <1>5, <1>6 DEF ScanInv

\* Of a process that sets up its directory: it scans nothing and has executed nothing.
LEMMA NoScanOutside ==
    ASSUME NEW f \in Fuzzers, ScanInv(f), pc[f] \in Outside
    PROVE  party[f] = f /\ \A p \in Parties[f] : accepted[f][p] = {}
BY DEF ScanInv, OnceEach, At, Outside

\* Setting up the directory is no scan.
LEMMA StartKeepsScan ==
    ASSUME Domains, NEW f \in Fuzzers, ScanInv(f), MadeGrows,
           \A g \in Fuzzers : made[g] \in Nat, StartStep(f)
    PROVE  ScanInv(f)'
<1>1. pc[f] \in Outside /\ party[f] = f /\ \A p \in Parties[f] : accepted[f][p] = {}
  <2>1. pc[f] \in Outside
    BY DEF StartStep, StartFresh, StartResume, Begin, CleanMetadata, CleanQueueFile,
           QueueCleaned, CleanCrashes, CleanRest, MakeDirs, ReadTestcases, LinkInput,
           CreateCopy, WriteCopy, PivotDetDone, PivotDone, NukeMetadata, NukeFile, NukeDone,
           DryRun, At, Outside, Cleaning, Filling, Nuked
  <2> QED BY <2>1, NoScanOutside
<1>2. CASE CleanMetadata(f)
  <2>1. /\ UNCHANGED scanVars /\ pc'[f] = "clean_queue"
        /\ synced'[f] = synced[f] \/ synced'[f] = [p \in Parties[f] |-> 0]
    BY <1>2 DEF CleanMetadata, Goto, Domains
  <2>2. /\ DOMAIN synced'[f] = Parties[f] /\ \A p \in Parties[f] : synced'[f][p] \in Nat
    <3>1. DOMAIN synced[f] = Parties[f] /\ \A p \in Parties[f] : synced[f][p] \in Nat
      BY DEF ScanInv, ScanTyped
    <3>2. CASE synced'[f] = synced[f]
      BY <3>1, <3>2
    <3>3. CASE synced'[f] = [p \in Parties[f] |-> 0]
      BY <3>3
    <3> QED BY <2>1, <3>2, <3>3
  <2>3. made'[f] \in Nat
    BY DEF MadeGrows
  <2>4. ScanTyped(f)'
    BY <1>1, <2>1, <2>2, <2>3 DEF ScanInv, ScanTyped, scanVars, At, Scanning
  <2>5. OnceEach(f)'
    BY <1>1, <2>1 DEF OnceEach, scanVars
  <2> QED BY <2>4, <2>5 DEF ScanInv
<1>3. CASE ClearMemory(f) /\ UNCHANGED diskVars
  BY <1>3, ScanEnds DEF diskVars
<1>4. CASE ~CleanMetadata(f) /\ ~(ClearMemory(f) /\ UNCHANGED diskVars)
  <2>1. UNCHANGED <<scanVars, synced>>
    BY <1>4 DEF StartStep, StartFresh, StartResume, Begin, CleanQueueFile,
       QueueCleaned, CleanCrashes, CleanRest, MakeDirs, ReadTestcases, LinkInput,
       CreateCopy, WriteCopy, WriteInput, PivotDetDone, PivotDone, NukeMetadata, NukeFile,
       NukeDone, DryRun, Exit, diskVars
  <2>2. pc'[f] \in Outside \cup {"stats"}
    BY <1>1, <1>4 DEF StartStep, StartFresh, StartResume, Begin, CleanQueueFile,
       QueueCleaned, CleanCrashes, CleanRest, MakeDirs, ReadTestcases, LinkInput,
       CreateCopy, WriteCopy, WriteInput, PivotDetDone, PivotDone, NukeMetadata, NukeFile,
       NukeDone, DryRun, Exit, NextEntry, Goto, Domains, Outside, Cleaning, Filling, Nuked
  <2>3. pc'[f] \notin Scanning
    BY <2>2 DEF Outside, Cleaning, Filling, Nuked, Scanning
  <2>4. ScanSame(f)
    BY <2>1 DEF ScanSame, scanVars
  <2> QED BY <1>1, <2>2, <2>3, <2>4, ScanStands DEF Scanning
<1> QED BY <1>2, <1>3, <1>4

\* Nor is fuzzing.
LEMMA FuzzKeepsScan ==
    ASSUME Domains, NEW f \in Fuzzers, ScanInv(f), MadeGrows,
           \A g \in Fuzzers : made[g] \in Nat, FuzzStep(f)
    PROVE  ScanInv(f)'
<1>1. party[f] # f => At(f, Scanning \cup {"save", "last_stats"})
  BY DEF ScanInv, ScanTyped
<1>2. pc[f] \in Running
  BY DEF FuzzStep, OpenStats, WriteStats, Discover, FinishSave, DiscoverCrash, MarkAsDetDone,
         At, Running
<1>3. CASE WriteStats(f) /\ At(f, {"last_stats"})
  <2>1. ClearMemory(f) /\ synced'[f] = synced[f]
    BY <1>3 DEF WriteStats
  <2> QED BY <2>1, ScanEnds
<1>4. CASE ~(WriteStats(f) /\ At(f, {"last_stats"}))
  <2>1. UNCHANGED <<scanVars, synced>>
    BY <1>4 DEF FuzzStep, OpenStats, WriteStats, Discover, FinishSave, DiscoverCrash,
            MarkAsDetDone
  <2>2. ScanSame(f)
    BY <2>1 DEF ScanSame, scanVars
  <2>3. CASE OpenStats(f)
    <3>1. pc'[f] \in {"write_stats", "last_stats"}
          /\ (pc'[f] = "write_stats" => pc[f] \in {"stats", "fuzz"})
      BY <2>3 DEF OpenStats, Goto, Domains, At
    <3>2. party[f] # f => pc'[f] = "last_stats"
      BY <1>1, <3>1 DEF At, Scanning
    <3> QED BY <2>2, <3>1, <3>2, ScanStands DEF Outside, Cleaning, Filling, Nuked, Scanning
  <2>4. CASE WriteStats(f)
    <3>0. pc[f] = "write_stats" /\ ~At(f, {"last_stats"})
      BY <1>4, <2>4 DEF WriteStats, At
    <3>1. pc[f] = "write_stats" /\ pc'[f] = "fuzz"
      <4>1. Goto(f, "fuzz")
        BY <2>4, <3>0 DEF WriteStats
      <4> QED BY <3>0, <4>1 DEF Goto, Domains
    <3>2. party[f] = f
      BY <1>1, <3>1 DEF At, Scanning
    <3> QED BY <2>2, <3>1, <3>2, ScanStands DEF Outside, Cleaning, Filling, Nuked, Scanning
  <2>5. CASE Discover(f)
    <3>1. pc'[f] = "save"
      BY <2>5 DEF Discover, CreateCase, Goto, Domains, At
    <3> QED BY <2>2, <3>1, ScanStands DEF Outside, Cleaning, Filling, Nuked, Scanning
  <2>6. CASE FinishSave(f)
    <3>1. pc'[f] = IF party[f] = f THEN "fuzz" ELSE "scan"
      BY <2>6 DEF FinishSave, SaveCase, Goto, Domains
    <3> QED BY <2>2, <3>1, ScanStands DEF Outside, Cleaning, Filling, Nuked, Scanning
  <2>7. CASE DiscoverCrash(f) \/ MarkAsDetDone(f)
    <3>1. pc[f] = "fuzz" /\ pc'[f] = "fuzz"
      BY <2>7 DEF DiscoverCrash, MarkAsDetDone, At
    <3>2. party[f] = f
      BY <1>1, <3>1 DEF At, Scanning
    <3> QED BY <2>2, <3>1, <3>2, ScanStands DEF Outside, Cleaning, Filling, Nuked, Scanning
  <2> QED BY <2>3, <2>4, <2>5, <2>6, <2>7 DEF FuzzStep
<1> QED BY <1>3, <1>4

\* The steps of a scan.
LEMMA SyncKeepsScan ==
    ASSUME Domains, NEW f \in Fuzzers, \A g \in Fuzzers : SessionInv(g), ScanInv(f), MadeGrows,
           \A g \in Fuzzers : made[g] \in Nat, SyncStep(f)
    PROVE  ScanInv(f)'
<1>0. /\ f \notin Parties[f] /\ Parties[f] \subseteq Fuzzers
      /\ \A p \in Parties[f] : Files(queue[p]) \subseteq Nat
  <2>1. f \notin Parties[f] /\ Parties[f] \subseteq Fuzzers
    BY SessionAssumption
  <2> QED BY <2>1, SlotContents DEF SessionInv, DiskTyped
<1>1. CASE BeginScan(f)
  <2>1. PICK p \in Parties[f] :
         /\ queue[p] # Missing
         /\ party' = [party EXCEPT ![f] = p]
         /\ min_accept' = [min_accept EXCEPT ![f] = synced[f][p]]
         /\ next_min_accept' = [next_min_accept EXCEPT ![f] = synced[f][p]]
         /\ handle' = [handle EXCEPT ![f] = made[p]]
         /\ listed' = [listed EXCEPT ![f] = {n \in Files(queue[p]) : n >= synced[f][p]}]
         /\ returned' = [returned EXCEPT ![f] = {n \in Files(queue[p]) : n < synced[f][p]}]
    BY <1>1 DEF BeginScan
  <2>2. /\ party'[f] = p /\ min_accept'[f] = synced[f][p]
        /\ next_min_accept'[f] = synced[f][p] /\ handle'[f] = made[p]
        /\ listed'[f] = {n \in Files(queue[p]) : n >= synced[f][p]}
        /\ returned'[f] = {n \in Files(queue[p]) : n < synced[f][p]}
    BY <2>1 DEF Domains
  <2>3. /\ pc[f] = "fuzz" /\ pc'[f] = "scan"
        /\ synced'[f] = synced[f] /\ accepted'[f] = accepted[f] /\ made'[f] = made[f]
        /\ made'[p] = made[p]
    BY <1>1 DEF BeginScan, Goto, Domains, At, diskVars, history
  <2>4. party[f] = f
    BY <2>3 DEF ScanInv, ScanTyped, At, Scanning
  <2>5. synced[f][p] \in Nat /\ made[p] \in Nat /\ Files(queue[p]) \subseteq Nat
        /\ made'[f] \in Nat
    BY <1>0, <2>3 DEF ScanInv, ScanTyped
  <2>6. listed'[f] \subseteq Nat /\ returned'[f] \subseteq Nat
        /\ listed'[f] \cap returned'[f] = {}
    <3> DEFINE F == Files(queue[p])
               s == synced[f][p]
    <3>1. F \subseteq Nat /\ s \in Nat
      BY <2>5
    <3>2. listed'[f] = {n \in F : n >= s} /\ returned'[f] = {n \in F : n < s}
      BY <2>2
    <3> HIDE DEF F, s
    <3>3. listed'[f] \subseteq Nat /\ returned'[f] \subseteq Nat
      BY <3>1, <3>2
    <3>4. \A n \in F : ~(n >= s /\ n < s)
      BY <3>1
    <3>5. listed'[f] \cap returned'[f] = {}
      BY <3>2, <3>4
    <3> QED BY <3>3, <3>5
  <2>7. ScanTyped(f)'
    <3>1. min_accept'[f] <= next_min_accept'[f] /\ handle'[f] <= made'[p]
      BY <2>2, <2>3, <2>5
    <3> QED BY <2>2, <2>3, <2>5, <2>6, <3>1 DEF ScanInv, ScanTyped, At, Scanning
  <2>8. \A q \in Parties[f] : \A n \in accepted[f][q] : n \in Nat /\ n < synced[f][q]
    BY <1>0, <2>4 DEF ScanInv, OnceEach
  <2>9. OnceEach(f)'
    BY <2>2, <2>3, <2>6, <2>8 DEF OnceEach, At, Cleaning, Filling, Nuked
  <2> QED BY <2>7, <2>9 DEF ScanInv
<1>2. CASE ReadDirent(f)
  <2>1. /\ pc[f] = "scan" /\ pc'[f] \in {"scan", "reopen"}
        /\ party'[f] = party[f] /\ handle'[f] = handle[f] /\ min_accept'[f] = min_accept[f]
        /\ accepted'[f] = accepted[f] /\ synced'[f] = synced[f] /\ made' = made
    BY <1>2 DEF ReadDirent, Goto, Domains, At, diskVars, history
  <2>2. PICK n \in Returnable(f) :
         /\ listed'[f] = listed[f] \ {n}
         /\ returned'[f] = returned[f] \cup {n}
         /\ next_min_accept'[f] = IF SeenBefore(f, n) THEN next_min_accept[f] ELSE Passed(f, n)
         /\ pc'[f] = "reopen" => ~SeenBefore(f, n) /\ dirent'[f] = n
    <3>1. PICK n \in Returnable(f) :
         /\ listed' = [listed EXCEPT ![f] = @ \ {n}]
         /\ returned' = [returned EXCEPT ![f] = @ \cup {n}]
         /\ next_min_accept' = [next_min_accept EXCEPT ![f] =
                                   IF SeenBefore(f, n) THEN @ ELSE Passed(f, n)]
         /\ IF ~SeenBefore(f, n) /\ n \in Files(Theirs(f)) /\ Theirs(f)[n] # Empty
            THEN /\ dirent' = [dirent EXCEPT ![f] = n]
                 /\ Goto(f, "reopen")
            ELSE UNCHANGED <<dirent, mem, pc>>
      BY <1>2 DEF ReadDirent
    <3>2. pc'[f] = "reopen" => ~SeenBefore(f, n) /\ dirent'[f] = n
      BY <2>1, <3>1 DEF Domains
    <3>3. /\ listed'[f] = listed[f] \ {n} /\ returned'[f] = returned[f] \cup {n}
          /\ next_min_accept'[f] = IF SeenBefore(f, n) THEN next_min_accept[f] ELSE Passed(f, n)
      BY <3>1 DEF Domains
    <3> QED BY <3>2, <3>3
  <2>3. /\ party[f] \in Parties[f] /\ party[f] # f
        /\ listed[f] \subseteq Nat /\ returned[f] \subseteq Nat
        /\ min_accept[f] \in Nat /\ next_min_accept[f] \in Nat
        /\ min_accept[f] <= next_min_accept[f]
        /\ listed[f] \cap returned[f] = {}
        /\ \A m \in accepted[f][party[f]] :
             m \in Nat /\ m < next_min_accept[f] /\ (m < min_accept[f] \/ m \in returned[f])
    BY <1>0, <2>1 DEF ScanInv, ScanTyped, OnceEach, At, Scanning
  <2>4. n \in Nat /\ n \notin returned[f]
    BY <1>0, <2>2, <2>3 DEF Returnable, Theirs
  <2>5. /\ next_min_accept'[f] \in Nat /\ next_min_accept[f] <= next_min_accept'[f]
        /\ (~SeenBefore(f, n) => n < next_min_accept'[f] /\ n >= min_accept[f])
    BY <2>2, <2>3, <2>4 DEF SeenBefore, Passed
  <2>6. /\ listed'[f] \subseteq Nat /\ returned'[f] \subseteq Nat
        /\ listed'[f] \cap returned'[f] = {}
    BY <2>2, <2>3, <2>4
  <2>7. ~SeenBefore(f, n) => n \notin accepted[f][party[f]]
    BY <2>3, <2>4, <2>5
  <2>8. ScanTyped(f)'
    <3>1. min_accept'[f] <= next_min_accept'[f]
      BY <2>1, <2>3, <2>5
    <3>2. /\ DOMAIN synced[f] = Parties[f] /\ DOMAIN accepted[f] = Parties[f]
          /\ made[f] \in Nat /\ \A p \in Parties[f] : synced[f][p] \in Nat
          /\ handle[f] \in Nat /\ handle[f] <= made[party[f]]
      BY <2>3 DEF ScanInv, ScanTyped
    <3>3. pc'[f] \in {"reopen", "import"} => dirent'[f] \in Nat
      BY <2>1, <2>2, <2>4
    <3> QED BY <2>1, <2>3, <2>5, <2>6, <3>1, <3>2, <3>3 DEF ScanTyped, At, Scanning
  <2>9. OnceEach(f)'
    <3>1. \A p \in Parties[f] \ {party[f]} : \A m \in accepted[f][p] : m \in Nat /\ m < synced[f][p]
      BY DEF ScanInv, OnceEach
    <3>2. \A m \in accepted[f][party[f]] :
             m \in Nat /\ m < next_min_accept'[f] /\ (m < min_accept[f] \/ m \in returned'[f])
      <4> SUFFICES ASSUME NEW m \in accepted[f][party[f]]
                   PROVE  m \in Nat /\ m < next_min_accept'[f]
                          /\ (m < min_accept[f] \/ m \in returned'[f])
        OBVIOUS
      <4>1. m \in Nat /\ m < next_min_accept[f] /\ (m < min_accept[f] \/ m \in returned[f])
        BY <2>3
      <4> QED BY <2>2, <2>3, <2>5, <4>1
    <3>3. pc'[f] \in {"reopen", "import"} =>
            /\ dirent'[f] \notin accepted[f][party[f]] /\ dirent'[f] \in returned'[f]
            /\ dirent'[f] < next_min_accept'[f]
      BY <2>1, <2>2, <2>5, <2>7
    <3> QED BY <2>1, <2>6, <3>1, <3>2, <3>3
            DEF OnceEach, At, Cleaning, Filling, Nuked
  <2> QED BY <2>8, <2>9 DEF ScanInv
<1>3. CASE ReopenCase(f)
  <2>1. pc[f] = "reopen" /\ party[f] # f
    BY <1>0, <1>3 DEF ReopenCase, At, ScanInv, ScanTyped, Scanning
  <2>2. CASE dirent[f] \in Files(Theirs(f))
    <3>1. UNCHANGED <<diskVars, scanVars>> /\ pc'[f] = "import"
      BY <1>3, <2>2 DEF ReopenCase, Goto, Domains
    <3>2. ScanSame(f)
      BY <3>1 DEF ScanSame, diskVars, scanVars
    <3> QED BY <2>1, <3>1, <3>2, ScanStands DEF Outside, Cleaning, Filling, Nuked, Scanning
  <2>3. CASE dirent[f] \notin Files(Theirs(f))
    <3>1. ClearMemory(f) /\ synced'[f] = synced[f]
      BY <1>3, <2>3 DEF ReopenCase, Exit, diskVars
    <3> QED BY <3>1, ScanEnds
  <2> QED BY <2>2, <2>3
<1>4. CASE ImportCase(f)
  <2>1. /\ pc[f] = "import" /\ pc'[f] \in {"scan", "save"}
        /\ party'[f] = party[f] /\ handle'[f] = handle[f] /\ min_accept'[f] = min_accept[f]
        /\ next_min_accept'[f] = next_min_accept[f]
        /\ listed'[f] = listed[f] /\ returned'[f] = returned[f]
        /\ synced'[f] = synced[f] /\ made' = made
    <3>1. /\ pc[f] = "import"
          /\ UNCHANGED <<party, handle, min_accept, next_min_accept, listed, returned, synced,
                         made>>
      BY <1>4 DEF ImportCase, At, history
    <3>2. Goto(f, "scan") \/ Goto(f, "save")
      BY <1>4 DEF ImportCase, CreateCase
    <3> QED BY <3>1, <3>2 DEF Goto, Domains
  <2>2. /\ party[f] \in Parties[f] /\ party[f] # f
        /\ dirent[f] \in Nat /\ dirent[f] \in returned[f] /\ dirent[f] < next_min_accept[f]
    BY <1>0, <2>1 DEF ScanInv, ScanTyped, OnceEach, At, Scanning
  <2>3. /\ DOMAIN accepted'[f] = Parties[f]
        /\ accepted'[f][party[f]] = accepted[f][party[f]] \cup {dirent[f]}
        /\ \A p \in Parties[f] \ {party[f]} : accepted'[f][p] = accepted[f][p]
    <3>1. accepted' = [accepted EXCEPT ![f][party[f]] = @ \cup {dirent[f]}]
      BY <1>4 DEF ImportCase
    <3>2. DOMAIN accepted[f] = Parties[f] /\ DOMAIN accepted = Fuzzers
      BY DEF ScanInv, ScanTyped, Domains
    <3>3. accepted'[f] = [accepted[f] EXCEPT ![party[f]] = @ \cup {dirent[f]}]
      BY <3>1, <3>2
    <3> QED BY <2>2, <3>2, <3>3
  <2>4. ScanTyped(f)'
    BY <2>1, <2>2, <2>3 DEF ScanInv, ScanTyped, At, Scanning
  <2>5. OnceEach(f)'
    <3>1. /\ \A p \in Parties[f] \ {party[f]} : \A m \in accepted[f][p] : m \in Nat /\ m < synced[f][p]
          /\ \A m \in accepted[f][party[f]] :
               m \in Nat /\ m < next_min_accept[f] /\ (m < min_accept[f] \/ m \in returned[f])
          /\ listed[f] \cap returned[f] = {}
      BY <2>2 DEF ScanInv, OnceEach
    <3>2. \A m \in accepted'[f][party[f]] :
               m \in Nat /\ m < next_min_accept[f] /\ (m < min_accept[f] \/ m \in returned[f])
      BY <2>2, <2>3, <3>1
    <3> QED BY <2>1, <2>3, <3>1, <3>2 DEF OnceEach, At, Cleaning, Filling, Nuked
  <2> QED BY <2>4, <2>5 DEF ScanInv
<1>5. CASE EndScan(f)
  <2>1. /\ pc[f] = "scan" /\ pc'[f] = "fuzz" /\ party'[f] = f
        /\ min_accept'[f] = 0 /\ next_min_accept'[f] = 0
        /\ listed'[f] = {} /\ returned'[f] = {}
        /\ accepted'[f] = accepted[f] /\ made' = made
    BY <1>5 DEF EndScan, Goto, Domains, At, history
  <2>2. /\ party[f] \in Parties[f] /\ party[f] # f /\ next_min_accept[f] \in Nat
    BY <1>0, <2>1 DEF ScanInv, ScanTyped, At, Scanning
  <2>3. /\ DOMAIN synced'[f] = Parties[f]
        /\ synced'[f][party[f]] = next_min_accept[f]
        /\ \A p \in Parties[f] \ {party[f]} : synced'[f][p] = synced[f][p]
    <3>1. synced' = [synced EXCEPT ![f][party[f]] = next_min_accept[f]]
      BY <1>5 DEF EndScan
    <3>2. DOMAIN synced[f] = Parties[f] /\ DOMAIN synced = Fuzzers
      BY DEF ScanInv, ScanTyped, Domains
    <3>3. synced'[f] = [synced[f] EXCEPT ![party[f]] = next_min_accept[f]]
      BY <3>1, <3>2
    <3> QED BY <2>2, <3>2, <3>3
  <2>4. \A p \in Parties[f] : synced'[f][p] \in Nat
    BY <2>2, <2>3 DEF ScanInv, ScanTyped
  <2>5. ScanTyped(f)'
    BY <2>1, <2>3, <2>4 DEF ScanInv, ScanTyped, At, Scanning
  <2>6. \A p \in Parties[f] : \A m \in accepted[f][p] : m \in Nat /\ m < synced'[f][p]
    <3>1. /\ \A p \in Parties[f] \ {party[f]} : \A m \in accepted[f][p] : m \in Nat /\ m < synced[f][p]
          /\ \A m \in accepted[f][party[f]] : m \in Nat /\ m < next_min_accept[f]
      BY <2>2 DEF ScanInv, OnceEach
    <3> QED BY <2>3, <3>1
  <2>7. OnceEach(f)'
    BY <2>1, <2>6 DEF OnceEach, At, Cleaning, Filling, Nuked
  <2> QED BY <2>5, <2>7 DEF ScanInv
<1> QED BY <1>1, <1>2, <1>3, <1>4, <1>5 DEF SyncStep

\* Every step keeps the scan of every fuzzer.
LEMMA StepKeepsScan ==
    ASSUME Domains, NEW f \in Fuzzers,
           \A g \in Fuzzers : SessionInv(g), \A g \in Fuzzers : ScanInv(g),
           StartStep(f) \/ FuzzStep(f) \/ SyncStep(f) \/ Kill(f)
    PROVE  \A g \in Fuzzers : ScanInv(g)'
<1>1. MadeGrows /\ \A g \in Fuzzers : made[g] \in Nat
  BY MadeOnlyGrows DEF ScanInv, ScanTyped
<1>2. ScanInv(f)'
  <2>1. ASSUME Kill(f) PROVE ScanInv(f)'
    BY <1>1, <2>1, ScanEnds DEF Kill, diskVars
  <2> QED BY <1>1, <2>1, StartKeepsScan, FuzzKeepsScan, SyncKeepsScan
<1>3. ASSUME NEW g \in Fuzzers \ {f} PROVE ScanInv(g)'
  <2>1. ScanInv(g) /\ ScanSame(g) /\ pc'[g] = pc[g]
    BY StepIsLocal DEF OthersSame, ScanSame
  <2>2. pc[g] \in Scanning => party[g] # g
    BY <2>1, SessionAssumption DEF ScanInv, ScanTyped, At
  <2>3. party[g] # g => pc[g] \in Scanning \cup {"save", "last_stats"}
    BY <2>1 DEF ScanInv, ScanTyped, At
  <2> QED BY <1>1, <2>1, <2>2, <2>3, ScanStands
<1> QED BY <1>2, <1>3

(***************************************************************************)
(* What is owed                                                            *)
(***************************************************************************)

\* What a step of f may do to its queue, as a scan of it sees it: begin another one, drop
\* it, take files away while it is not in use, or write files that are new or were empty.
QueueOnward(f) ==
    \/ made'[f] = made[f] + 1
    \/ /\ made'[f] = made[f]
       /\ queue'[f] # Missing =>
            /\ queue[f] # Missing
            /\ \A n \in Files(queue[f]) \cap Files(queue'[f]) :
                 queue[f][n] # Empty => queue'[f][n] = queue[f][n]
            /\ InUse(f) \/ Files(queue'[f]) \subseteq Files(queue[f])
            /\ InUse(f)' => InUse(f) /\ Files(queue[f]) \subseteq Files(queue'[f])

\* A step that leaves the queue alone, and does not begin to use it.
LEMMA QueueAlone ==
    ASSUME NEW f \in Fuzzers, made'[f] = made[f], queue'[f] = queue[f], InUse(f)' => InUse(f)
    PROVE  QueueOnward(f)
BY DEF QueueOnward

\* A step that writes a file of a queue that is in use.
LEMMA QueueWritten ==
    ASSUME MissingIsApart(Nat), NEW f \in Fuzzers, made'[f] = made[f], InUse(f),
           queue[f] # Missing, Slot(queue[f]), NEW n \in Nat, NEW data \in Content,
           n \in Files(queue[f]) => queue[f][n] = Empty,
           queue'[f] = Put(queue[f], n, data)
    PROVE  QueueOnward(f)
<1> DEFINE Q == queue[f]
           P == Put(Q, n, data)
<1>1. IsDirectory(Q)
  BY DEF Slot
<1>2. /\ Files(P) = Files(Q) \cup {n}
      /\ \A m \in Files(Q) : m # n => P[m] = Q[m]
  BY <1>1, PutIs
<1> HIDE DEF P
<1>3. queue'[f] = P
  BY DEF P
<1>4. \A m \in Files(Q) \cap Files(P) : Q[m] # Empty => P[m] = Q[m]
  BY <1>2
<1> QED BY <1>2, <1>3, <1>4 DEF QueueOnward

\* Every step of f is one of these.
LEMMA QueueGoesOn ==
    ASSUME MissingIsApart(Nat), Domains, NEW f \in Fuzzers, SessionInv(f),
           StartStep(f) \/ FuzzStep(f) \/ SyncStep(f) \/ Kill(f)
    PROVE  QueueOnward(f)
<1>0. Slot(queue[f]) /\ entries[f] \in Seq(AnyEntries) /\ Empty \in Content /\ Len(entries[f]) \in Nat
  BY DEF SessionInv, DiskTyped, Typed, Content
<1>1. CASE MakeDirs(f)
  BY <1>1, MadeByMakeDirs DEF QueueOnward
<1>2. CASE ~MakeDirs(f)
  <2>0. made'[f] = made[f]
    BY <1>2, MadeByMakeDirs
  <2>1. CASE StartFresh(f) \/ StartResume(f)
    <3>1. pc[f] = "down" /\ pc'[f] \in {"dirs", "clean"}
          /\ (queue'[f] = queue[f] \/ queue'[f] = Missing)
      BY <2>1 DEF StartFresh, StartResume, Begin, Goto, Domains, At
    <3>2. ~InUse(f)'
      BY <3>1 DEF InUse, At, Filling, Nuked, Running
    <3> QED BY <2>0, <3>1, <3>2 DEF QueueOnward
  <2>2. CASE CleanQueueFile(f)
    <3>1. PICK n \in Files(queue[f]) : queue'[f] = Unlink(queue[f], n)
      BY <2>2 DEF CleanQueueFile, Domains
    <3>2. pc[f] = "clean_queue" /\ pc'[f] = "clean_queue"
      BY <2>2 DEF CleanQueueFile, At
    <3>3. ~InUse(f)'
      BY <3>2 DEF InUse, At, Filling, Nuked, Running
    <3>4. queue[f] # Missing
      BY <3>1 DEF Files
    <3>5. /\ Files(queue'[f]) = Files(queue[f]) \ {n}
          /\ \A m \in Files(queue[f]) : m # n => queue'[f][m] = queue[f][m]
      BY <1>0, <3>1, <3>4, UnlinkIs DEF Slot
    <3>6. Files(queue'[f]) \subseteq Files(queue[f])
          /\ \A m \in Files(queue[f]) \cap Files(queue'[f]) : queue'[f][m] = queue[f][m]
      BY <3>5
    <3> QED BY <2>0, <3>3, <3>4, <3>6 DEF QueueOnward
  <2>3. CASE QueueCleaned(f)
    BY <2>0, <2>3 DEF QueueCleaned, QueueOnward, Domains
  <2>4. CASE CleanMetadata(f) \/ CleanCrashes(f) \/ CleanRest(f)
    <3>1. queue'[f] = queue[f] /\ pc'[f] \in Cleaning
      BY <2>4 DEF CleanMetadata, CleanCrashes, CleanRest, Goto, Domains, Cleaning
    <3> QED BY <2>0, <3>1, QueueAlone
            DEF InUse, At, Cleaning, Filling, Nuked, Running
  <2>5. CASE ReadTestcases(f) \/ PivotDetDone(f) \/ PivotDone(f) \/ NukeMetadata(f)
             \/ NukeFile(f) \/ NukeDone(f) \/ DryRun(f) \/ OpenStats(f) \/ WriteStats(f)
             \/ DiscoverCrash(f) \/ MarkAsDetDone(f) \/ BeginScan(f) \/ ReadDirent(f)
             \/ ReopenCase(f) \/ EndScan(f)
    <3>1. queue'[f] = queue[f]
      BY <2>5 DEF ReadTestcases, PivotDetDone, PivotDone, NukeMetadata, NukeFile, NukeDone,
         DryRun, OpenStats, WriteStats, DiscoverCrash, MarkAsDetDone, BeginScan, ReadDirent,
         ReopenCase, EndScan, Exit, diskVars
    <3>2. InUse(f)
      BY <2>5 DEF ReadTestcases, PivotDetDone, PivotDone, NukeMetadata, NukeFile, NukeDone,
         DryRun, OpenStats, WriteStats, DiscoverCrash, MarkAsDetDone, BeginScan, ReadDirent,
         ReopenCase, EndScan, InUse, At, Filling, Nuked, Running
    <3> QED BY <2>0, <3>1, <3>2, QueueAlone
  <2>6. CASE LinkInput(f) \/ CreateCopy(f) \/ WriteCopy(f)
    <3>1. pos[f] - 1 \in Nat /\ InUse(f) /\ pos[f] \in 1..Len(entries[f])
      <4>1. pc[f] \in {"pivot", "copy"} /\ (pc[f] = "pivot" => pos[f] <= Len(entries[f]))
        BY <2>6 DEF LinkInput, CreateCopy, WriteCopy, queued_paths, At
      <4>2. pos[f] \in 1..Len(entries[f])
        BY <1>0, <4>1 DEF SessionInv, EntriesTrue, At
      <4> QED BY <1>0, <4>1, <4>2 DEF InUse, At, Filling
    <3>2. PICK data \in {Empty, entries[f][pos[f]].data} :
            queue'[f] = Put(queue[f], pos[f] - 1, data)
      BY <2>6 DEF LinkInput, CreateCopy, WriteCopy, WriteInput, PivotNumber, Domains
    <3>3. data \in Content
      <4>1. entries[f][pos[f]] \in AnyEntries
        BY <1>0, <3>1
      <4>2. entries[f][pos[f]].data \in Content
        BY <4>1 DEF AnyEntries
      <4> QED BY <1>0, <3>2, <4>2
    <3>4. queue[f] # Missing /\ (pos[f] - 1 \in Files(queue[f]) => queue[f][pos[f] - 1] = Empty)
      <4>1. pc[f] \in {"pivot", "copy"}
        BY <2>6 DEF LinkInput, CreateCopy, WriteCopy, At
      <4>2. /\ queue[f] # Missing /\ Files(queue[f]) = 0..Whole(f) + Opened(f) - 1
            /\ Opened(f) = 1 => queue[f][Whole(f)] = Empty
        BY <4>1 DEF SessionInv, Laid, At, Filling
      <4>3. Whole(f) = pos[f] - 1 /\ Opened(f) = IF pc[f] = "copy" THEN 1 ELSE 0
        BY <4>1 DEF Whole, Opened, At
      <4>4. CASE pc[f] = "copy"
        BY <4>2, <4>3, <4>4
      <4>5. CASE pc[f] # "copy"
        <5>1. pos[f] - 1 \notin 0..(pos[f] - 1) + 0 - 1
          BY <3>1
        <5> QED BY <4>2, <4>3, <4>5, <5>1
      <4> QED BY <4>4, <4>5
    <3> QED BY <1>0, <2>0, <3>1, <3>2, <3>3, <3>4, QueueWritten
  <2>7. ASSUME pc[f] \in {"fuzz", "import"}, NEW c, CreateCase(f, c)
        PROVE  QueueOnward(f)
    <3>1. queue'[f] = Put(queue[f], Len(entries[f]), Empty)
      BY <2>7 DEF CreateCase, queued_paths, Domains
    <3>2. /\ queue[f] # Missing /\ Files(queue[f]) = 0..Len(entries[f]) + 0 - 1
      <4>1. Whole(f) = Len(entries[f]) /\ Opened(f) = 0
        BY <2>7 DEF Whole, Opened, At
      <4> QED BY <2>7, <4>1 DEF SessionInv, Laid, At, Running
    <3>3. Len(entries[f]) \notin Files(queue[f])
      <4>1. Len(entries[f]) \notin 0..Len(entries[f]) + 0 - 1
        BY <1>0
      <4> QED BY <3>2, <4>1
    <3>4. InUse(f)
      BY <2>7 DEF InUse, At, Running
    <3> QED BY <1>0, <2>0, <3>1, <3>2, <3>3, <3>4, QueueWritten
  <2>8. CASE Discover(f)
    <3>1. pc[f] \in {"fuzz", "import"} /\ \E c \in Discoverable[f] : CreateCase(f, c)
      BY <2>8 DEF Discover, At
    <3> QED BY <2>7, <3>1
  <2>9. CASE ImportCase(f)
    <3>1. pc[f] = "import"
      BY <2>9 DEF ImportCase, At
    <3>2. CASE CreateCase(f, mem[f])
      BY <2>7, <3>1, <3>2
    <3>3. CASE ~CreateCase(f, mem[f])
      <4>1. queue'[f] = queue[f]
        BY <2>9, <3>3 DEF ImportCase
      <4>2. InUse(f)
        BY <3>1 DEF InUse, At, Running
      <4> QED BY <2>0, <4>1, <4>2, QueueAlone
    <3> QED BY <3>2, <3>3
  <2>10. CASE FinishSave(f)
    <3>0. PICK data \in {mem[f], Empty} : SaveCase(f, data)
      BY <2>10 DEF FinishSave
    <3>1. queue'[f] = Put(queue[f], Len(entries[f]), data)
      BY <3>0 DEF SaveCase, queued_paths, Domains
    <3>2. pc[f] = "save"
      BY <2>10 DEF FinishSave, At
    <3>3. data \in Content
      BY <1>0, <3>1, <3>2 DEF SessionInv, Typed, At, Content
    <3>4. /\ queue[f] # Missing /\ queue[f][Len(entries[f])] = Empty
      <4>1. Whole(f) = Len(entries[f]) /\ Opened(f) = 1
        BY <3>2 DEF Whole, Opened, At
      <4> QED BY <3>2, <4>1 DEF SessionInv, Laid, At, Running
    <3>5. InUse(f)
      BY <3>2 DEF InUse, At, Running
    <3> QED BY <1>0, <2>0, <3>1, <3>3, <3>4, <3>5, QueueWritten
  <2>11. CASE Kill(f)
    <3>1. queue'[f] = queue[f] /\ pc'[f] = "down"
      BY <2>11 DEF Kill, ClearMemory, Goto, Domains, diskVars
    <3> QED BY <2>0, <3>1, QueueAlone DEF InUse, At, Filling, Nuked, Running
  <2> QED BY <1>2, <2>1, <2>2, <2>3, <2>4, <2>5, <2>6, <2>8, <2>9, <2>10, <2>11
          DEF StartStep, FuzzStep, SyncStep
<1> QED BY <1>1, <1>2

\* What another fuzzer does to the directory that is scanned.
LEMMA OwedOfParty ==
    ASSUME NEW f \in Fuzzers, NEW g \in Fuzzers \ {f}, QueueOnward(f), OthersSame(f),
           party[g] = f, made[f] \in Nat, handle[g] \in Nat, handle[g] <= made[f], OwedToCome(g)
    PROVE  OwedToCome(g)'
<1>1. /\ party'[g] = f /\ handle'[g] = handle[g] /\ owed'[g] = owed[g] /\ listed'[g] = listed[g]
      /\ min_accept'[g] = min_accept[g] /\ dirent'[g] = dirent[g] /\ pc'[g] = pc[g]
  BY DEF OthersSame
<1> SUFFICES ASSUME ~At(g, {"last_stats"}), handle[g] = made'[f], queue'[f] # Missing
             PROVE  /\ \A n \in owed[g] \cap Files(queue'[f]) :
                         /\ n >= min_accept[g] /\ queue'[f][n] # Empty
                         /\ n \in listed[g] \/ (At(g, {"reopen", "import"}) /\ n = dirent[g])
                    /\ InUse(f)' => owed[g] \subseteq Files(queue'[f])
  BY <1>1 DEF OwedToCome, Current, Theirs, At, InUse
<1>2. made'[f] # made[f] + 1
  <2>1. handle[g] # made[f] + 1
    OBVIOUS
  <2> QED BY <2>1
<1>3. /\ made'[f] = made[f] /\ queue[f] # Missing
      /\ \A n \in Files(queue[f]) \cap Files(queue'[f]) :
           queue[f][n] # Empty => queue'[f][n] = queue[f][n]
      /\ InUse(f) \/ Files(queue'[f]) \subseteq Files(queue[f])
      /\ InUse(f)' => InUse(f) /\ Files(queue[f]) \subseteq Files(queue'[f])
  BY <1>2 DEF QueueOnward
<1>4. /\ \A n \in owed[g] \cap Files(queue[f]) :
           /\ n >= min_accept[g] /\ queue[f][n] # Empty
           /\ n \in listed[g] \/ (At(g, {"reopen", "import"}) /\ n = dirent[g])
      /\ InUse(f) => owed[g] \subseteq Files(queue[f])
  BY <1>3 DEF OwedToCome, Current, Theirs
<1>5. owed[g] \cap Files(queue'[f]) \subseteq Files(queue[f])
  BY <1>3, <1>4
<1> QED BY <1>3, <1>4, <1>5

\* What a process does itself: it notes what is there when it begins, and takes off the
\* list what it opens.
LEMMA OwedOfScan ==
    ASSUME Domains, NEW f \in Fuzzers, ScanInv(f), OwedToCome(f), OthersSame(f),
           StartStep(f) \/ FuzzStep(f) \/ SyncStep(f) \/ Kill(f)
    PROVE  OwedToCome(f)'
<1>0. \A p \in Parties[f] : p \in Fuzzers \ {f}
  BY SessionAssumption
<1>1. ASSUME NEW p \in Parties[f]
      PROVE  queue'[p] = queue[p] /\ made'[p] = made[p] /\ pc'[p] = pc[p]
  BY <1>0, <1>1 DEF OthersSame
<1>2. CASE BeginScan(f)
  <2>1. PICK p \in Parties[f] :
         /\ party' = [party EXCEPT ![f] = p]
         /\ min_accept' = [min_accept EXCEPT ![f] = synced[f][p]]
         /\ listed' = [listed EXCEPT ![f] = {n \in Files(queue[p]) : n >= synced[f][p]}]
         /\ owed' = [owed EXCEPT ![f] = {n \in Files(queue[p]) :
                                           n >= synced[f][p] /\ queue[p][n] # Empty}]
    BY <1>2 DEF BeginScan
  <2>2. /\ party'[f] = p /\ min_accept'[f] = synced[f][p]
        /\ listed'[f] = {n \in Files(queue[p]) : n >= synced[f][p]}
        /\ owed'[f] = {n \in Files(queue[p]) : n >= synced[f][p] /\ queue[p][n] # Empty}
    BY <2>1 DEF Domains
  <2>3. queue'[p] = queue[p]
    BY <1>1
  <2> QED BY <2>2, <2>3 DEF OwedToCome, Theirs
<1>3. CASE ~BeginScan(f)
  <2>1. CASE party'[f] = f
    BY <2>1 DEF OwedToCome
  <2>2. CASE party'[f] # f
    <3>1. party'[f] = party[f] /\ handle'[f] = handle[f] /\ min_accept'[f] = min_accept[f]
          /\ ~ClearMemory(f)
      <4>1. ~ClearMemory(f)
        BY <2>2 DEF ClearMemory, Domains
      <4>2. ~EndScan(f)
        BY <2>2 DEF EndScan, Domains
      <4>3. ~Kill(f)
        BY <4>1 DEF Kill
      <4>4. UNCHANGED <<party, handle, min_accept>>
        <5>1. ASSUME StartStep(f) PROVE UNCHANGED <<party, handle, min_accept>>
          BY <4>1, <5>1 DEF StartStep, StartFresh, StartResume, Begin, CleanMetadata,
             CleanQueueFile, QueueCleaned, CleanCrashes, CleanRest, MakeDirs, ReadTestcases,
             LinkInput, CreateCopy, WriteCopy, WriteInput, PivotDetDone, PivotDone,
             NukeMetadata, NukeFile, NukeDone, DryRun, Exit, scanVars
        <5>2. ASSUME FuzzStep(f) PROVE UNCHANGED <<party, handle, min_accept>>
          BY <4>1, <5>2 DEF FuzzStep, OpenStats, WriteStats, Discover, FinishSave,
             DiscoverCrash, MarkAsDetDone, scanVars
        <5>3. ASSUME SyncStep(f) PROVE UNCHANGED <<party, handle, min_accept>>
          BY <1>3, <4>1, <4>2, <5>3 DEF SyncStep, ReadDirent, ReopenCase, ImportCase, Exit,
             scanVars
        <5> QED BY <4>3, <5>1, <5>2, <5>3
      <4> QED BY <4>1, <4>4
    <3>2. /\ party[f] \in Parties[f] /\ party[f] # f
          /\ pc[f] \in Scanning \cup {"save", "last_stats"}
      BY <2>2, <3>1 DEF ScanInv, ScanTyped, At
    <3>3. Theirs(f)' = Theirs(f) /\ Current(f)' = Current(f)
          /\ InUse(party[f])' = InUse(party[f])
      BY <1>1, <3>1, <3>2 DEF Theirs, Current, InUse, At
    <3> DEFINE D == Files(Theirs(f))
    <3>4. CASE ~(Current(f) /\ pc'[f] # "last_stats")
      BY <3>3, <3>4 DEF OwedToCome, At
    <3>5. CASE Current(f) /\ pc'[f] # "last_stats" /\ pc[f] # "last_stats"
      <4>1. /\ \A n \in owed[f] \cap D :
                 /\ n >= min_accept[f] /\ Theirs(f)[n] # Empty
                 /\ n \in listed[f] \/ (pc[f] \in {"reopen", "import"} /\ n = dirent[f])
            /\ InUse(party[f]) => owed[f] \subseteq D
        BY <3>2, <3>5 DEF OwedToCome, At
      <4>2. CASE ReadDirent(f)
        <5>1. pc[f] = "scan" /\ owed'[f] = owed[f]
          BY <4>2 DEF ReadDirent, At
        <5>2. PICK m \in Returnable(f) :
               /\ listed'[f] = listed[f] \ {m}
               /\ ~SeenBefore(f, m) /\ m \in D /\ Theirs(f)[m] # Empty =>
                    pc'[f] = "reopen" /\ dirent'[f] = m
          BY <4>2 DEF ReadDirent, Goto, Domains
        <5>3. ASSUME NEW n \in owed[f] \cap D
              PROVE  n \in listed'[f] \/ (pc'[f] \in {"reopen", "import"} /\ n = dirent'[f])
          <6>1. n >= min_accept[f] /\ Theirs(f)[n] # Empty /\ n \in listed[f]
            BY <4>1, <5>1
          <6>2. CASE n # m
            BY <5>2, <6>1, <6>2
          <6>3. CASE n = m
            <7>1. ~SeenBefore(f, n)
              <8>1. n \in Nat /\ min_accept[f] \in Nat
                BY <6>1 DEF ScanInv, ScanTyped
              <8> QED BY <6>1, <8>1 DEF SeenBefore
            <7> QED BY <5>2, <6>1, <6>3, <7>1
          <6> QED BY <6>2, <6>3
        <5>4. \A n \in owed'[f] \cap D :
                /\ n >= min_accept[f] /\ Theirs(f)[n] # Empty
                /\ n \in listed'[f] \/ (pc'[f] \in {"reopen", "import"} /\ n = dirent'[f])
          BY <4>1, <5>1, <5>3
        <5> QED BY <3>1, <3>3, <4>1, <5>1, <5>4 DEF OwedToCome, At
      <4>3. CASE ImportCase(f)
        <5>1. /\ pc[f] = "import" /\ owed'[f] = owed[f] \ {dirent[f]}
              /\ listed'[f] = listed[f]
          BY <4>3 DEF ImportCase, At, Domains
        <5>2. \A n \in owed'[f] \cap D :
                n >= min_accept[f] /\ Theirs(f)[n] # Empty /\ n \in listed'[f]
          BY <4>1, <5>1
        <5>3. InUse(party[f]) => owed'[f] \subseteq D
          BY <4>1, <5>1
        <5> QED BY <3>1, <3>3, <5>2, <5>3 DEF OwedToCome, At
      <4>4. CASE ReopenCase(f) \/ FinishSave(f)
        <5>1. /\ owed'[f] = owed[f] /\ listed'[f] = listed[f] /\ dirent'[f] = dirent[f]
          BY <3>1, <4>4 DEF ReopenCase, FinishSave, Exit, scanVars
        <5>2. pc[f] \in {"reopen", "import"} => pc'[f] \in {"reopen", "import"}
          BY <3>1, <4>4 DEF ReopenCase, FinishSave, Exit, Goto, Domains, At
        <5> QED BY <3>1, <3>3, <4>1, <5>1, <5>2 DEF OwedToCome, At
      <4>5. CASE ~ReadDirent(f) /\ ~ImportCase(f) /\ ~ReopenCase(f) /\ ~FinishSave(f)
        <5>1. ~EndScan(f)
          BY <2>2 DEF EndScan, Domains
        <5>2. ~Kill(f)
          BY <3>1 DEF Kill
        <5>3. ~StartStep(f)
          BY <3>2 DEF StartStep, StartFresh, StartResume, Begin, CleanMetadata,
             CleanQueueFile, QueueCleaned, CleanCrashes, CleanRest, MakeDirs, ReadTestcases,
             LinkInput, CreateCopy, WriteCopy, PivotDetDone, PivotDone,
             NukeMetadata, NukeFile, NukeDone, DryRun, At, Scanning
        <5>4. OpenStats(f)
          BY <1>3, <3>2, <3>5, <4>5, <5>1, <5>2, <5>3 DEF SyncStep, FuzzStep, OpenStats,
             WriteStats, Discover, DiscoverCrash, MarkAsDetDone, At, Scanning
        <5>5. pc'[f] = "last_stats"
          BY <3>2, <5>4 DEF OpenStats, Goto, Domains, At, Scanning
        <5> QED BY <3>5, <5>5
      <4> QED BY <4>2, <4>3, <4>4, <4>5
    <3>6. CASE Current(f) /\ pc'[f] # "last_stats" /\ pc[f] = "last_stats"
      <4>1. StartStep(f) \/ SyncStep(f) => FALSE
        BY <3>6 DEF StartStep, StartFresh, StartResume, Begin, CleanMetadata,
             CleanQueueFile, QueueCleaned, CleanCrashes, CleanRest, MakeDirs, ReadTestcases,
             LinkInput, CreateCopy, WriteCopy, PivotDetDone, PivotDone,
             NukeMetadata, NukeFile, NukeDone, DryRun, SyncStep, BeginScan, ReadDirent,
             ReopenCase, ImportCase, EndScan, At
      <4>2. Kill(f) => FALSE
        BY <3>1 DEF Kill
      <4>3. WriteStats(f)
        BY <3>6, <4>1, <4>2 DEF FuzzStep, OpenStats, Discover, FinishSave, DiscoverCrash,
           MarkAsDetDone, At
      <4> QED BY <3>1, <3>6, <4>3 DEF WriteStats, At
    <3> QED BY <3>4, <3>5, <3>6
  <2> QED BY <2>1, <2>2
<1> QED BY <1>2, <1>3

\* Every step keeps what is owed to every fuzzer.
LEMMA StepKeepsOwed ==
    ASSUME MissingIsApart(Nat), Domains, NEW f \in Fuzzers,
           \A g \in Fuzzers : SessionInv(g), \A g \in Fuzzers : ScanInv(g),
           \A g \in Fuzzers : OwedToCome(g),
           StartStep(f) \/ FuzzStep(f) \/ SyncStep(f) \/ Kill(f)
    PROVE  \A g \in Fuzzers : OwedToCome(g)'
<1>1. QueueOnward(f) /\ OthersSame(f)
  BY QueueGoesOn, StepIsLocal
<1>2. OwedToCome(f)'
  BY <1>1, OwedOfScan
<1>3. ASSUME NEW g \in Fuzzers \ {f} PROVE OwedToCome(g)'
  <2>1. ScanInv(g) /\ OwedToCome(g) /\ made[f] \in Nat
    BY DEF ScanInv, ScanTyped
  <2>2. CASE party[g] = f
    <3>1. handle[g] \in Nat /\ handle[g] <= made[f]
      BY <2>1, <2>2 DEF ScanInv, ScanTyped
    <3> QED BY <1>1, <2>1, <2>2, <3>1, OwedOfParty
  <2>3. CASE party[g] # f
    <3>0. /\ party'[g] = party[g] /\ handle'[g] = handle[g] /\ owed'[g] = owed[g]
          /\ listed'[g] = listed[g] /\ pc'[g] = pc[g]
          /\ min_accept'[g] = min_accept[g] /\ dirent'[g] = dirent[g]
      BY <1>1 DEF OthersSame
    <3>1. party[g] \in Fuzzers \ {f}
      BY <2>1, <2>3, SessionAssumption DEF ScanInv, ScanTyped
    <3>2. /\ queue'[party[g]] = queue[party[g]] /\ made'[party[g]] = made[party[g]]
          /\ pc'[party[g]] = pc[party[g]]
      BY <1>1, <3>1 DEF OthersSame
    <3>3. Theirs(g)' = Theirs(g) /\ Current(g)' = Current(g) /\ InUse(party[g])' = InUse(party[g])
      BY <3>0, <3>2 DEF Theirs, Current, InUse, At
    <3> QED BY <2>1, <3>0, <3>3 DEF OwedToCome, At
  <2> QED BY <2>2, <2>3
<1> QED BY <1>2, <1>3

(***************************************************************************)
(* The theorems                                                            *)
(***************************************************************************)

\* It holds at the beginning, when nothing is on disk.
LEMMA InitSessions ==
    ASSUME Init
    PROVE  SessionsInv
<1>1. Domains
  BY DEF Init, Domains
<1>2. ASSUME NEW f \in Fuzzers PROVE SessionInv(f)
  <2>1. /\ queue[f] = Missing /\ deterministic_done[f] = Missing /\ resume[f] = Missing
        /\ resume_done[f] = Missing /\ crashes[f] = Missing /\ backups[f] = {}
        /\ fuzzer_stats[f] = Missing /\ pc[f] = "down" /\ entries[f] = <<>> /\ pos[f] = 0
        /\ starts[f] = 0 /\ age[f] = 0 /\ known[f] = {} /\ saved[f] = {} /\ finished[f] = {}
    BY DEF Init
  <2>2. MaxAge[f] \in Nat
    BY SessionAssumption
  <2>3. DiskTyped(f)
    BY <2>1 DEF DiskTyped, Slot, Marks
  <2>4. Typed(f)
    <3>1. entries[f] \in Seq(AnyEntries)
      BY <2>1
    <3>2. age[f] \in 0..MaxAge[f] /\ pos[f] \in Nat /\ starts[f] \in Nat
      BY <2>1, <2>2
    <3> QED BY <2>1, <3>1, <3>2 DEF Typed, At
  <2>5. MarksTrue(f)
    BY <2>1 DEF MarksTrue, At
  <2>6. Laid(f)
    BY <2>1 DEF Laid, At, Filling, Nuked, Running
  <2>7. EntriesTrue(f)
    BY <2>1 DEF EntriesTrue, At, Filling, Nuked, Running
  <2>8. Survival(f)
    BY <2>1 DEF Survival, At, Cleaning, Filling, Nuked, Running
  <2> QED BY <2>3, <2>4, <2>5, <2>6, <2>7, <2>8 DEF SessionInv
<1>3. ASSUME NEW f \in Fuzzers PROVE ScanInv(f) /\ OwedToCome(f)
  <2>1. /\ pc[f] = "down" /\ party[f] = f /\ min_accept[f] = 0 /\ next_min_accept[f] = 0
        /\ listed[f] = {} /\ returned[f] = {} /\ made[f] = 0
        /\ synced[f] = [p \in Parties[f] |-> 0] /\ accepted[f] = [p \in Parties[f] |-> {}]
    BY DEF Init
  <2>2. ScanTyped(f)
    BY <2>1 DEF ScanTyped, At, Scanning
  <2>3. OnceEach(f)
    BY <2>1 DEF OnceEach
  <2>4. OwedToCome(f)
    BY <2>1 DEF OwedToCome
  <2> QED BY <2>2, <2>3, <2>4 DEF ScanInv
<1> QED BY <1>1, <1>2, <1>3 DEF SessionsInv

\* And every step keeps it.
LEMMA NextKeepsSessions ==
    ASSUME MissingIsApart(Nat), SessionsInv, [Next]_vars
    PROVE  SessionsInv'
<1>1. CASE Next
  <2>1. PICK f \in Fuzzers : StartStep(f) \/ FuzzStep(f) \/ SyncStep(f) \/ Kill(f)
    BY <1>1 DEF Next
  <2>2. /\ Domains /\ \A g \in Fuzzers : SessionInv(g)
        /\ \A g \in Fuzzers : ScanInv(g)
        /\ \A g \in Fuzzers : OwedToCome(g)
    BY DEF SessionsInv
  <2>3. ScanTyped(f)
    BY <2>2 DEF ScanInv
  <2>4. Domains'
    BY <2>1, <2>2, StepIsLocal
  <2>5. \A g \in Fuzzers : SessionInv(g)'
    BY <2>1, <2>2, <2>3, StepKeepsSession
  <2>6. \A g \in Fuzzers : ScanInv(g)'
    BY <2>1, <2>2, StepKeepsScan
  <2>7. \A g \in Fuzzers : OwedToCome(g)'
    BY <2>1, <2>2, StepKeepsOwed
  <2> QED BY <2>4, <2>5, <2>6, <2>7 DEF SessionsInv
<1>2. CASE UNCHANGED vars
  <2>1. UNCHANGED <<queue, deterministic_done, resume, resume_done, crashes, backups,
                    fuzzer_stats, synced, party, min_accept, next_min_accept, handle, listed,
                    returned, dirent, accepted, owed, entries, pos, known, mem, age,
                    in_place_resume, starts, kills, made, saved, mixed, finished, pc>>
    BY <1>2 DEF vars, diskVars, scanVars, coreVars, history
  <2>2. Domains'
    BY <2>1 DEF SessionsInv, Domains
  <2>3. ASSUME NEW f \in Fuzzers PROVE SessionInv(f)'
    <3>1. SessionInv(f)
      BY DEF SessionsInv
    <3>2. DiskTyped(f)' /\ Typed(f)' /\ MarksTrue(f)'
      BY <2>1, <3>1 DEF SessionInv, DiskTyped, Typed, MarksTrue, At
    <3>3. Laid(f)' /\ EntriesTrue(f)'
      BY <2>1, <3>1 DEF SessionInv, Laid, EntriesTrue, Whole, Opened, At
    <3>4. Survival(f)'
      BY <2>1, <3>1 DEF SessionInv, Survival, CrashesKept, At
    <3> QED BY <3>2, <3>3, <3>4 DEF SessionInv
  <2>4. ASSUME NEW f \in Fuzzers PROVE ScanInv(f)' /\ OwedToCome(f)'
    <3>1. ScanInv(f) /\ OwedToCome(f)
      BY DEF SessionsInv
    <3>2. ScanInv(f)'
      BY <2>1, <3>1 DEF ScanInv, ScanTyped, OnceEach, At
    <3>3. OwedToCome(f)'
      BY <2>1, <3>1 DEF OwedToCome, Current, Theirs, InUse, At
    <3> QED BY <3>2, <3>3
  <2> QED BY <2>2, <2>3, <2>4 DEF SessionsInv
<1> QED BY <1>1, <1>2

\* In every state that the sessions of a set of fuzzers reach, whatever their number and
\* whatever is killed and started again, the sessions and scans are as described above.
THEOREM SessionsInvariance ==
    ASSUME MissingIsApart(Nat)
    PROVE  Spec => []SessionsInv
<1>1. Init => SessionsInv
  BY InitSessions
<1>2. SessionsInv /\ [Next]_vars => SessionsInv'
  BY NextKeepsSessions
<1> QED BY <1>1, <1>2, PTL DEF Spec

\* What is on disk is what the process and its marks say of it, for any number of
\* fuzzers, of sessions and of kills.
THEOREM DiskIsTrue ==
    ASSUME MissingIsApart(Nat)
    PROVE  Spec => []DiskTrue
<1>1. SessionsInv => DiskTrue
  <2> SUFFICES ASSUME SessionsInv PROVE DiskTrue
    OBVIOUS
  <2>1. ASSUME NEW f \in Fuzzers
        PROVE  /\ Files(queue[f]) \subseteq Nat /\ Contents(queue[f]) \subseteq Cases
               /\ Files(resume[f]) \subseteq Nat /\ Contents(resume[f]) \subseteq Cases
    <3>1. Slot(queue[f]) /\ Slot(resume[f])
      BY DEF SessionsInv, SessionInv, DiskTyped
    <3> QED BY <3>1, SlotContents
  <2>2. ASSUME NEW f \in Fuzzers PROVE \A i \in DOMAIN entries[f] : entries[f][i].data \in Content
    <3>1. entries[f] \in Seq(AnyEntries)
      BY DEF SessionsInv, SessionInv, Typed
    <3>2. \A i \in DOMAIN entries[f] : entries[f][i] \in AnyEntries
      BY <3>1
    <3> QED BY <3>2 DEF AnyEntries
  <2>3. TypeOK
    <3> SUFFICES ASSUME NEW f \in Fuzzers
                 PROVE  /\ Files(queue[f]) \subseteq Nat /\ Contents(queue[f]) \subseteq Cases
                        /\ Files(resume[f]) \subseteq Nat /\ Contents(resume[f]) \subseteq Cases
                        /\ deterministic_done[f] # Missing => deterministic_done[f] \subseteq Nat
                        /\ crashes[f] # Missing => crashes[f] \subseteq {Crash}
                        /\ backups[f] \subseteq {Crash}
                        /\ fuzzer_stats[f] \notin {Missing, Empty} => fuzzer_stats[f] \in 0..MaxAge[f]
                        /\ \A p \in Parties[f] : synced[f][p] \in Nat
                        /\ \A i \in DOMAIN entries[f] : entries[f][i].data \in Cases \cup {Empty}
                        /\ known[f] \subseteq Cases \cup {Crash}
                        /\ party[f] \in Parties[f] \cup {f}
                        /\ saved[f] \subseteq Cases \cup {Crash}
      BY DEF TypeOK
    <3>1. DiskTyped(f) /\ Typed(f) /\ ScanTyped(f)
      BY DEF SessionsInv, SessionInv, ScanInv
    <3> QED BY <2>1, <2>2, <3>1 DEF DiskTyped, Marks, Typed, ScanTyped, Content
  <2>4. ASSUME NEW f \in Fuzzers, Fuzzing(f)
        PROVE  /\ Files(queue[f]) = 0..queued_paths(f) - (IF At(f, {"save"}) THEN 0 ELSE 1)
               /\ \A i \in DOMAIN entries[f] : queue[f][i - 1] = entries[f][i].data
               /\ \A n \in deterministic_done[f] : queue[f][n] \in finished[f]
    <3>1. At(f, Running)
      BY <2>4 DEF Fuzzing, Running
    <3>2. Laid(f) /\ MarksTrue(f) /\ entries[f] \in Seq(AnyEntries)
      BY DEF SessionsInv, SessionInv, Typed
    <3>3. /\ Whole(f) = Len(entries[f]) /\ Opened(f) = IF At(f, {"save"}) THEN 1 ELSE 0
      BY <3>1 DEF Whole, Opened, At, Running
    <3>4. /\ deterministic_done[f] # Missing
          /\ Files(queue[f]) = 0..Len(entries[f]) + Opened(f) - 1
          /\ \A i \in 1..Len(entries[f]) : queue[f][i - 1] = entries[f][i].data
      BY <3>1, <3>2, <3>3 DEF Laid, At
    <3>5. Len(entries[f]) \in Nat /\ DOMAIN entries[f] = 1..Len(entries[f])
      BY <3>2
    <3>6. 0..Len(entries[f]) + Opened(f) - 1
            = 0..queued_paths(f) - (IF At(f, {"save"}) THEN 0 ELSE 1)
      <4> DEFINE l == Len(entries[f])
      <4>1. l \in Nat /\ queued_paths(f) = l
        BY <3>5 DEF queued_paths
      <4> HIDE DEF l
      <4>2. CASE At(f, {"save"})
        <5>1. Opened(f) = 1 /\ l + 1 - 1 = l - 0
          BY <3>3, <4>1, <4>2
        <5> QED BY <4>1, <4>2, <5>1 DEF l
      <4>3. CASE ~At(f, {"save"})
        <5>1. Opened(f) = 0 /\ l + 0 - 1 = l - 1
          BY <3>3, <4>1, <4>3
        <5> QED BY <4>1, <4>3, <5>1 DEF l
      <4> QED BY <4>2, <4>3
    <3>7. \A n \in deterministic_done[f] : queue[f][n] \in finished[f]
      BY <3>2, <3>4 DEF MarksTrue
    <3> QED BY <3>4, <3>5, <3>6, <3>7
  <2> QED BY <2>3, <2>4 DEF DiskTrue, QueueOnDisk
<1> QED BY <1>1, SessionsInvariance, PTL

\* No case that was written is lost by a kill at any moment, but for the two cases that
\* mixed names.
THEOREM CasesAlwaysSurvive ==
    ASSUME MissingIsApart(Nat)
    PROVE  Spec => []CasesSurvive
<1>1. SessionsInv => CasesSurvive
  <2> SUFFICES ASSUME SessionsInv, NEW f \in Fuzzers, ~mixed[f]
               PROVE  saved[f] \subseteq Contents(queue[f]) \cup Contents(resume[f])
                                           \cup CrashesKept(f)
    BY DEF CasesSurvive, CrashesKept
  <2>1. Survival(f) /\ Typed(f)
    BY DEF SessionsInv, SessionInv
  <2> QED BY <2>1 DEF Survival, Typed, At, Nuked
<1> QED BY <1>1, SessionsInvariance, PTL

\* A scan that ends has executed all that was there for it, and no case twice.
THEOREM ImportsAreSound ==
    ASSUME MissingIsApart(Nat)
    PROVE  Spec => []ImportsSound
<1>1. SessionsInv => ImportsSound
  <2> SUFFICES ASSUME SessionsInv PROVE ScanComplete /\ ImportedOnce
    BY DEF ImportsSound
  <2>1. ASSUME NEW f \in Fuzzers, At(f, {"scan"}), Current(f),
               listed[f] \cap Files(Theirs(f)) = {}
        PROVE  owed[f] \cap Files(Theirs(f)) = {}
    <3>1. ScanTyped(f) /\ OwedToCome(f)
      BY DEF SessionsInv, ScanInv
    <3>2. party[f] # f
      BY <2>1, <3>1, SessionAssumption DEF ScanTyped, At, Scanning
    <3>3. \A n \in owed[f] \cap Files(Theirs(f)) : n \in listed[f]
      BY <2>1, <3>1, <3>2 DEF OwedToCome, At
    <3> QED BY <2>1, <3>3
  <2>2. ASSUME NEW f \in Fuzzers, At(f, {"import"})
        PROVE  dirent[f] \notin accepted[f][party[f]]
    <3>1. ScanTyped(f) /\ OnceEach(f)
      BY DEF SessionsInv, ScanInv
    <3>2. party[f] # f
      BY <2>2, <3>1, SessionAssumption DEF ScanTyped, At, Scanning
    <3> QED BY <2>2, <3>1, <3>2 DEF OnceEach, At
  <2> QED BY <2>1, <2>2 DEF ScanComplete, ImportedOnce
<1> QED BY <1>1, SessionsInvariance, PTL
=============================================================================
