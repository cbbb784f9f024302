-------------------------- MODULE Execution_proofs --------------------------
(***************************************************************************)
(* Proofs about Execution, for every length of a seed, every number of     *)
(* regions in a mutant and every max_seed_region_count: the linked list    *)
(* implements the test case in three parts (ListImplementsTestCase), the   *)
(* splices leave it whole (SplicesAreSound), and what is recorded of a     *)
(* session is what was sent and received in it (RecordsAreTrue).           *)
(*                                                                         *)
(* The invariant gives the pointers a meaning: there are a sequence s, the *)
(* nodes of the list with the sentinel at the end, a sequence d, the nodes *)
(* of the old M2 that are still to be freed, and three lengths p, m and e, *)
(* of M1, M2 and M3, such that every pointer is the node at a place that   *)
(* follows from the lengths.                                               *)
(***************************************************************************)
EXTENDS Execution, NaturalsInduction, WellFoundedInduction, TLAPS

-----------------------------------------------------------------------------
(* The list                                                                *)

Ran(s) == {s[i] : i \in 1 .. Len(s)}

Distinct(s) == \A i, j \in 1 .. Len(s) : s[i] = s[j] => i = j

KlType ==
    [head : Nodes, tail : Nodes, size : Nat, mp : Seq(Nodes), allocated : Nat,
     next : [Nodes -> Nodes \cup {NULL}], val : [Nodes -> Seq(Nat)]]

(* s is the list k: its nodes in their order, the sentinel last.           *)
ListIs(k, s) ==
    /\ s \in Seq(Nodes) /\ Len(s) >= 1 /\ Distinct(s)
    /\ s[1] = k.head /\ s[Len(s)] = k.tail
    /\ \A i \in 1 .. Len(s) - 1 : k.next[s[i]] = s[i + 1] /\ k.val[s[i]] \in Message
    /\ k.next[k.tail] = NULL

(* d is a chain of nodes outside the list that leads to the node end.      *)
Detached(k, d, end) ==
    /\ d \in Seq(Nodes) /\ Distinct(d)
    /\ \A i \in 1 .. Len(d) - 1 : k.next[d[i]] = d[i + 1]
    /\ d # <<>> => k.next[d[Len(d)]] = end

(* Every node allocated is in one of three places, once.                   *)
Accounted(k, s, d) ==
    /\ Distinct(k.mp)
    /\ Ran(s) \cap Ran(d) = {} /\ Ran(s) \cap Ran(k.mp) = {} /\ Ran(d) \cap Ran(k.mp) = {}
    /\ Ran(s) \cup Ran(d) \cup Ran(k.mp) = 0 .. k.allocated - 1
    /\ k.allocated = Len(s) + Len(d) + Len(k.mp) /\ k.allocated <= MaxNodes
    /\ k.size = Len(s) + Len(d) - 1

(* The messages of n nodes of s, behind the first so many.                 *)
Cut(k, s, behind, n) == [i \in 1 .. n |-> k.val[s[behind + i]]]

LEMMA Numbers ==
    /\ MaxNodes \in Nat /\ MaxSeedLength \in Nat /\ MaxMutant \in Nat /\ MaxRegionCount \in Nat
    /\ MaxSeedLength >= 1 /\ MaxMutant >= 1 /\ MaxRegionCount >= 1
    /\ MaxNodes > 2 * (MaxSeedLength + MaxMutant)
  BY ExecutionAssumption

(* A set of numbers that is not empty has a least element.                 *)
LEMMA LeastElement ==
    ASSUME NEW T \in SUBSET Nat, T # {}
    PROVE  \E m \in T : \A k \in T : m <= k
<1> DEFINE R == {ss \in Nat \X Nat : ss[1] < ss[2]}
<1>1. IsWellFoundedOn(R, Nat)
  BY NatLessThanWellFounded DEF OpToRel
<1> HIDE DEF R
<1>2. PICK m \in T : \A k \in T : ~(<<k, m>> \in R)
  BY <1>1, WFMin
<1>3. \A k \in T : ~(k < m)
  BY <1>2 DEF R
<1> QED
  BY <1>3

(* The loop over a list visits its nodes, in their order.                  *)
LEMMA WalkVisits ==
    ASSUME NEW k \in KlType, NEW s, ListIs(k, s), Len(s) <= k.allocated
    PROVE  NodesOf(k) = SubSeq(s, 1, Len(s) - 1)
<1> DEFINE n == Len(s) - 1
           turns == 0 .. k.allocated
           first(t) == SubSeq(s, 1, IF t <= n THEN t ELSE n)
           F(f) == [t \in turns |-> IF t = 0 THEN <<>> ELSE Onward(k)[f[t - 1]]]
           closed == [t \in turns |-> first(t)]
<1>1. s \in Seq(Nodes) /\ Len(s) \in Nat /\ n \in Nat /\ k.allocated \in Nat /\ n <= k.allocated
  BY DEF ListIs, KlType
<1>2. \A i \in 1 .. n : s[i] \in Nodes /\ s[i] # k.tail /\ s[i] # NULL
  <2> SUFFICES ASSUME NEW i \in 1 .. n PROVE s[i] \in Nodes /\ s[i] # k.tail /\ s[i] # NULL
    OBVIOUS
  <2>1. i \in 1 .. Len(s) /\ Len(s) \in 1 .. Len(s) /\ i # Len(s)
    BY <1>1
  <2>2. s[i] \in Nodes
    BY <1>1, <2>1
  <2>3. s[i] # s[Len(s)]
    BY <2>1 DEF ListIs, Distinct
  <2> QED
    BY <2>2, <2>3, Numbers DEF ListIs, Nodes, NULL
<1>3. \A t \in 0 .. n : first(t) \in Seq(Nodes) /\ Len(first(t)) = t
                        /\ \A i \in 1 .. t : first(t)[i] = s[i]
  BY <1>1
<1>4. \A t \in 0 .. n : Onward(k)[first(t)] = first(IF t < n THEN t + 1 ELSE n)
  <2> SUFFICES ASSUME NEW t \in 0 .. n
               PROVE  Onward(k)[first(t)] = first(IF t < n THEN t + 1 ELSE n)
    OBVIOUS
  <2> DEFINE node == IF first(t) = <<>> THEN k.head ELSE k.next[Last(first(t))]
  <2>1. first(t) \in Seq(Nodes) /\ Len(first(t)) = t /\ \A i \in 1 .. t : first(t)[i] = s[i]
    BY <1>3
  <2>2. node = s[t + 1]
    <3>1. CASE t = 0
      <4>1. first(t) = <<>>
        BY <2>1, <3>1
      <4> QED
        BY <3>1, <4>1 DEF ListIs
    <3>2. CASE t > 0
      <4>1. first(t) # <<>> /\ Last(first(t)) = s[t]
        BY <2>1, <3>2 DEF Last
      <4>2. t \in 1 .. Len(s) - 1
        BY <1>1, <3>2
      <4> QED
        BY <4>1, <4>2 DEF ListIs
    <3> QED
      BY <1>1, <3>1, <3>2, SMTT(30)
  <2>3. Onward(k)[first(t)] = IF node \in {k.tail, NULL} THEN first(t) ELSE Append(first(t), node)
    <3> HIDE DEF first
    <3> QED
      BY <2>1 DEF Onward
  <2>4. CASE t < n
    <3>1. t + 1 \in 1 .. n
      BY <1>1, <2>4
    <3>2. node \notin {k.tail, NULL}
      BY <1>2, <2>2, <3>1
    <3>3. Append(first(t), s[t + 1]) = first(t + 1)
      BY <1>1, <2>4, <3>1
    <3> QED
      BY <2>2, <2>3, <2>4, <3>2, <3>3
  <2>5. CASE t = n
    <3>1. node = k.tail
      BY <1>1, <2>2, <2>5 DEF ListIs
    <3> QED
      BY <2>3, <2>5, <3>1
  <2> QED
    BY <1>1, <2>4, <2>5
<1>5. \A t \in turns : closed[t] = F(closed)[t]
  <2> SUFFICES ASSUME NEW t \in turns PROVE closed[t] = F(closed)[t]
    OBVIOUS
  <2>1. CASE t = 0
    <3>1. first(0) = <<>>
      BY <1>1
    <3> QED
      BY <2>1, <3>1
  <2>2. CASE t # 0
    <3>0. t - 1 \in turns
      <4> HIDE DEF closed, first
      <4>1. k.allocated \in Nat
        BY DEF KlType
      <4> QED BY <2>2, <4>1
    <3>1. t - 1 \in turns /\ closed[t - 1] = first(t - 1)
      <4> HIDE DEF turns, first
      <4> QED BY <3>0
    <3>2. F(closed)[t] = Onward(k)[first(t - 1)]
      <4> HIDE DEF first, closed
      <4> QED
        BY <2>2, <3>1
    <3>3. CASE t <= n
      <4>1. t - 1 \in 0 .. n /\ t - 1 < n /\ (t - 1) + 1 = t
        BY <1>1, <2>2, <3>3
      <4>2. Onward(k)[first(t - 1)] = first(t)
        <5> HIDE DEF first
        <5> QED
          BY <1>4, <4>1
      <4> QED
        BY <3>2, <4>2
    <3>4. CASE t > n
      <4>1. first(t - 1) = first(n) /\ first(t) = first(n) /\ n \in 0 .. n /\ ~(n < n)
        BY <1>1, <3>4
      <4>2. Onward(k)[first(n)] = first(n)
        <5> HIDE DEF first
        <5> QED
          BY <1>4, <4>1
      <4> QED
        BY <3>2, <4>1, <4>2
    <3> QED
      BY <1>1, <3>3, <3>4
  <2> QED
    BY <2>1, <2>2
<1>6. closed = F(closed)
  <2> HIDE DEF first
  <2> QED
    BY <1>5
<1>7. ASSUME NEW w, w = F(w)
      PROVE  w[k.allocated] = first(n)
  <2> DEFINE Bad == {t \in turns : w[t] # closed[t]}
  <2>1. Bad = {}
    <3> SUFFICES ASSUME Bad # {} PROVE FALSE
      OBVIOUS
    <3>1. Bad \in SUBSET Nat
      BY <1>1
    <3>2. PICK t \in Bad : \A u \in Bad : t <= u
      <4> HIDE DEF Bad
      <4> QED BY <3>1, LeastElement
    <3>3. t \in turns /\ w[t] # closed[t]
      BY <3>2
    <3>4. w[t] = F(w)[t]
      BY <1>7
    <3>5. CASE t = 0
      <4>1. w[t] = <<>>
        BY <3>3, <3>4, <3>5
      <4>2. closed[t] = <<>>
        <5> HIDE DEF closed
        <5> QED BY <1>5, <3>3, <3>5
      <4> QED
        BY <3>3, <4>1, <4>2
    <3>6. CASE t # 0
      <4>1. t - 1 \in turns /\ t - 1 \notin Bad
        <5>1. t - 1 \in turns /\ ~(t <= t - 1)
          BY <1>1, <3>3, <3>6
        <5> HIDE DEF Bad
        <5> QED BY <3>2, <5>1
      <4>2. w[t - 1] = closed[t - 1]
        BY <4>1
      <4>3. w[t] = Onward(k)[w[t - 1]]
        BY <3>3, <3>4, <3>6
      <4>4. closed[t] = Onward(k)[closed[t - 1]]
        <5> HIDE DEF closed
        <5> QED BY <1>5, <3>3, <3>6
      <4> QED
        BY <3>3, <4>2, <4>3, <4>4
    <3> QED
      BY <3>5, <3>6
  <2>2. k.allocated \in turns
    BY <1>1
  <2>3. closed[k.allocated] = first(n)
    <3>1. closed[k.allocated] = first(k.allocated)
      <4> HIDE DEF first
      <4> QED BY <2>2
    <3>2. first(k.allocated) = first(n)
      BY <1>1
    <3> QED BY <3>1, <3>2
  <2>4. w[k.allocated] = closed[k.allocated]
    <3> HIDE DEF closed
    <3> QED BY <2>1, <2>2
  <2> QED
    BY <2>3, <2>4
<1> DEFINE visited == CHOOSE f : f = F(f)
<1>8. visited = F(visited)
  <2> HIDE DEF closed, F
  <2> QED BY <1>6
<1>9. NodesOf(k) = visited[k.allocated]
  BY DEF NodesOf
<1>10. first(n) = SubSeq(s, 1, Len(s) - 1)
  BY <1>1
<1> HIDE DEF visited, F, first
<1> QED
  BY <1>7, <1>8, <1>9, <1>10

(* A list of nodes that are all accounted for is walked to its end.        *)
LEMMA ListWalked ==
    ASSUME NEW k \in KlType, NEW s, NEW d \in Seq(Nodes), ListIs(k, s), Accounted(k, s, d)
    PROVE  NodesOf(k) = SubSeq(s, 1, Len(s) - 1)
<1>1. Len(s) <= k.allocated
  BY DEF Accounted, ListIs, KlType
<1> QED
  BY <1>1, WalkVisits

(* kl_init: a list of a sentinel.                                          *)
LEMMA KlIsList ==
    /\ Kl \in KlType /\ ListIs(Kl, <<0>>) /\ Detached(Kl, <<>>, NULL) /\ Accounted(Kl, <<0>>, <<>>)
<1>1. 0 \in Nodes /\ MaxNodes >= 1
  BY Numbers DEF Nodes
<1>2. Kl \in KlType
  BY <1>1 DEF Kl, KlType, Freed, NULL
<1>3. ListIs(Kl, <<0>>)
  BY <1>1 DEF ListIs, Kl, Distinct
<1>4. Detached(Kl, <<>>, NULL)
  BY DEF Detached, Distinct
<1>5. Ran(<<0>>) = {0} /\ Ran(<<>>) = {} /\ 0 .. 0 = {0}
  BY DEF Ran
<1>6. Accounted(Kl, <<0>>, <<>>)
  BY <1>1, <1>5 DEF Accounted, Kl, Distinct
<1> QED
  BY <1>2, <1>3, <1>4, <1>6

(* kl_pushp: the message is in the storage of the old sentinel, and the    *)
(* new one is a node of the pool, or a new node.                           *)
LEMMA PushExtends ==
    ASSUME NEW k \in KlType, NEW s, NEW m \in Message,
           ListIs(k, s), Accounted(k, s, <<>>), Len(s) < MaxNodes
    PROVE  /\ Pushp(k, m) \in KlType
           /\ ListIs(Pushp(k, m), Append(s, Alloc(k)))
           /\ Accounted(Pushp(k, m), Append(s, Alloc(k)), <<>>)
           /\ \A i \in 1 .. Len(s) - 1 : Pushp(k, m).val[s[i]] = k.val[s[i]]
           /\ Pushp(k, m).val[s[Len(s)]] = m
           /\ Pushp(k, m).tail = Alloc(k) /\ Pushp(k, m).size = k.size + 1
           /\ Pushp(k, m).next[s[Len(s)]] = Alloc(k)
           /\ \A i \in 1 .. Len(s) - 1 : Pushp(k, m).next[s[i]] = k.next[s[i]]
<1> DEFINE node == Alloc(k)
           k2 == Pushp(k, m)
           s2 == Append(s, node)
           n == Len(s)
<1>1. /\ s \in Seq(Nodes) /\ n \in Nat /\ n >= 1 /\ s[n] = k.tail /\ s[1] = k.head
      /\ k.mp \in Seq(Nodes) /\ k.allocated \in Nat /\ k.size \in Nat /\ m \in Seq(Nat)
      /\ Distinct(s) /\ Distinct(k.mp) /\ Len(k.mp) \in Nat
  BY DEF ListIs, KlType, Accounted, Message
<1>2. \A i \in 1 .. n : s[i] \in Nodes
  BY <1>1
<1>3. k.allocated = n + Len(k.mp) /\ k.allocated <= MaxNodes /\ k.size = n - 1
  <2>1. Len(<<>>) = 0
    OBVIOUS
  <2> QED BY <1>1, <2>1 DEF Accounted
<1>4. Ran(s) \cap Ran(k.mp) = {} /\ Ran(s) \cup Ran(k.mp) = 0 .. k.allocated - 1
  <2>1. Ran(<<>>) = {}
    BY DEF Ran
  <2> QED BY <2>1 DEF Accounted
<1> DEFINE mp2 == IF k.mp = <<>> THEN k.mp ELSE Front(k.mp)
           all2 == IF k.mp = <<>> THEN k.allocated + 1 ELSE k.allocated
<1>5. /\ node \in Nodes /\ node \notin Ran(s) /\ node \notin Ran(mp2)
      /\ mp2 \in Seq(Nodes) /\ Distinct(mp2) /\ all2 \in Nat /\ all2 <= MaxNodes
      /\ all2 = n + 1 + Len(mp2) /\ Len(mp2) \in Nat
      /\ Ran(s) \cap Ran(mp2) = {}
      /\ Ran(s) \cup {node} \cup Ran(mp2) = 0 .. all2 - 1
  <2>1. CASE k.mp = <<>>
    <3>1. node = k.allocated /\ mp2 = <<>> /\ all2 = k.allocated + 1 /\ Len(mp2) = 0 /\ Ran(mp2) = {}
      BY <2>1 DEF Alloc, Ran
    <3>2. k.allocated = n /\ Ran(s) = 0 .. n - 1
      <4>1. Ran(k.mp) = {} /\ Len(k.mp) = 0
        BY <2>1 DEF Ran
      <4>2. k.allocated = n
        BY <1>1, <1>3, <4>1
      <4> QED BY <1>4, <4>1, <4>2
    <3>3. node \in Nodes
      BY <1>1, <3>1, <3>2, Numbers DEF Nodes
    <3>4. node \notin 0 .. n - 1 /\ (0 .. n - 1) \cup {node} = 0 .. all2 - 1
      BY <1>1, <3>1, <3>2
    <3>5. Distinct(mp2) /\ mp2 \in Seq(Nodes)
      <4>1. Distinct(<<>>) /\ <<>> \in Seq(Nodes)
        BY DEF Distinct
      <4> HIDE DEF mp2
      <4> QED BY <3>1, <4>1
    <3>6. all2 \in Nat /\ all2 <= MaxNodes /\ all2 = n + 1 + Len(mp2)
      <4> HIDE DEF all2, mp2
      <4> QED BY <1>1, <3>1, <3>2, Numbers
    <3> HIDE DEF mp2, all2, node
    <3> QED
      BY <1>4, <2>1, <3>1, <3>2, <3>3, <3>4, <3>5, <3>6 DEF Ran
  <2>2. CASE k.mp # <<>>
    <3> DEFINE l == Len(k.mp)
    <3>1. l \in Nat /\ l >= 1 /\ node = k.mp[l] /\ mp2 = SubSeq(k.mp, 1, l - 1) /\ all2 = k.allocated
      BY <1>1, <2>2 DEF Alloc, Last, Front
    <3>2. mp2 \in Seq(Nodes) /\ Len(mp2) = l - 1 /\ \A i \in 1 .. l - 1 : mp2[i] = k.mp[i]
      <4> HIDE DEF mp2, l
      <4>1. l = Len(k.mp)
        BY DEF l
      <4> QED BY <1>1, <3>1, <4>1
    <3>3. node \in Nodes /\ node \in Ran(k.mp)
      BY <1>1, <3>1 DEF Ran
    <3>4. Ran(k.mp) = Ran(mp2) \cup {node} /\ node \notin Ran(mp2)
      <4>1. ASSUME NEW i \in 1 .. l - 1 PROVE k.mp[i] # node
        <5>1. i \in 1 .. l /\ l \in 1 .. l /\ i # l
          BY <3>1
        <5> QED BY <1>1, <3>1, <5>1 DEF Distinct
      <4>2. 1 .. l = (1 .. l - 1) \cup {l}
        BY <3>1
      <4> HIDE DEF mp2, node
      <4>3. Ran(mp2) = {k.mp[i] : i \in 1 .. l - 1}
        BY <3>2 DEF Ran
      <4>4. Ran(k.mp) = {k.mp[i] : i \in 1 .. l - 1} \cup {k.mp[l]}
        BY <4>2 DEF Ran
      <4> QED BY <3>1, <4>1, <4>3, <4>4
    <3>5. Distinct(mp2)
      <4> HIDE DEF mp2, node, all2, l
      <4>1. \A i, j \in 1 .. l - 1 : mp2[i] = mp2[j] => i = j
        <5>1. \A i, j \in 1 .. l : k.mp[i] = k.mp[j] => i = j
          BY <1>1 DEF Distinct, l
        <5> QED BY <3>1, <3>2, <5>1
      <4> QED BY <3>2, <4>1 DEF Distinct
    <3>6. all2 \in Nat /\ all2 <= MaxNodes /\ all2 = n + 1 + Len(mp2) /\ Len(mp2) \in Nat
      <4>1. l = Len(k.mp) /\ Len(mp2) = l - 1 /\ all2 = k.allocated /\ l \in Nat /\ l >= 1
        <5> HIDE DEF mp2, all2
        <5> QED BY <3>1, <3>2
      <4>2. n \in Nat /\ k.allocated \in Nat /\ k.allocated = n + l /\ k.allocated <= MaxNodes
        BY <1>1, <1>3
      <4> HIDE DEF mp2, node, all2, n, l
      <4>3. all2 <= MaxNodes /\ all2 \in Nat
        BY <4>1, <4>2
      <4>4. all2 = n + 1 + Len(mp2)
        <5>1. \A x, y \in Nat : x + y = x + 1 + (y - 1)
          OBVIOUS
        <5>2. n + l = n + 1 + (l - 1)
          BY <4>1, <4>2, <5>1, Zenon
        <5> QED BY <4>1, <4>2, <5>2, Zenon
      <4> QED BY <4>1, <4>3, <4>4
    <3> HIDE DEF mp2, node, all2, n
    <3> QED
      BY <1>4, <3>1, <3>2, <3>3, <3>4, <3>5, <3>6
  <2> QED
    BY <2>1, <2>2
<1>6. /\ k2.head = k.head /\ k2.tail = node /\ k2.size = k.size + 1 /\ k2.mp = mp2
      /\ k2.allocated = all2
      /\ k2.val = [k.val EXCEPT ![k.tail] = m]
      /\ k2.next = [[k.next EXCEPT ![node] = NULL] EXCEPT ![k.tail] = node]
  <2>1. k2.head = k.head /\ k2.tail = node
    BY DEF Pushp, KlType
  <2>2. k2.size = k.size + 1 /\ k2.mp = mp2
    BY DEF Pushp, KlType
  <2>3. k2.allocated = all2
    BY DEF Pushp, KlType
  <2>4. k2.val = [k.val EXCEPT ![k.tail] = m]
    BY DEF Pushp, KlType
  <2>5. k2.next = [[k.next EXCEPT ![node] = NULL] EXCEPT ![k.tail] = node]
    BY DEF Pushp, KlType
  <2> QED
    BY <2>1, <2>2, <2>3, <2>4, <2>5
<1>7. k.next \in [Nodes -> Nodes \cup {NULL}] /\ k.val \in [Nodes -> Seq(Nat)]
      /\ k.head \in Nodes /\ k.tail \in Nodes
  BY DEF KlType
<1> HIDE DEF node, k2, mp2, all2
<1>8. k2 \in KlType
  <2>1. k2.next \in [Nodes -> Nodes \cup {NULL}]
    BY <1>5, <1>6, <1>7
  <2>2. k2.val \in [Nodes -> Seq(Nat)]
    BY <1>1, <1>6, <1>7
  <2>3. k2.size \in Nat /\ k2.head \in Nodes /\ k2.tail \in Nodes
    <3>1. k.size \in Nat
      BY DEF KlType
    <3>2. k2.size \in Nat
      BY <1>6, <3>1
    <3>3. k2.head \in Nodes /\ k2.tail \in Nodes
      BY <1>5, <1>6, <1>7, Zenon
    <3> QED BY <3>2, <3>3
  <2>4. ASSUME NEW next2 \in [Nodes -> Nodes \cup {NULL}], NEW val2 \in [Nodes -> Seq(Nat)],
               NEW tail2 \in Nodes, NEW size2 \in Nat, NEW mp3 \in Seq(Nodes), NEW all3 \in Nat
        PROVE  [k EXCEPT !.val = val2, !.next = next2, !.tail = tail2, !.size = size2,
                         !.mp = mp3, !.allocated = all3] \in KlType
    BY DEF KlType
  <2>5. k2 = [k EXCEPT !.val = k2.val, !.next = k2.next, !.tail = k2.tail, !.size = k2.size,
                       !.mp = k2.mp, !.allocated = k2.allocated]
    <3> USE DEF k2, node
    <3> QED BY DEF Pushp, KlType
  <2>6. k2.mp \in Seq(Nodes) /\ k2.allocated \in Nat
    BY <1>5, <1>6
  <2>7. [k EXCEPT !.val = k2.val, !.next = k2.next, !.tail = k2.tail, !.size = k2.size,
                  !.mp = k2.mp, !.allocated = k2.allocated] \in KlType
    BY <2>1, <2>2, <2>3, <2>4, <2>6, Zenon
  <2> QED
    BY <2>5, <2>7, Zenon
<1>9. /\ s2 \in Seq(Nodes) /\ Len(s2) = n + 1 /\ s2[n + 1] = node
      /\ \A i \in 1 .. n : s2[i] = s[i]
  BY <1>1, <1>5
<1>10. \A i \in 1 .. n : s[i] # node
  BY <1>1, <1>5 DEF Ran
<1>11. \A i \in 1 .. n - 1 : s[i] # k.tail /\ i \in 1 .. n
  <2> SUFFICES ASSUME NEW i \in 1 .. n - 1 PROVE s[i] # k.tail /\ i \in 1 .. n
    OBVIOUS
  <2>1. i \in 1 .. n /\ n \in 1 .. n /\ i # n
    BY <1>1
  <2> QED BY <1>1, <2>1 DEF Distinct
<1>12. k2.next[k.tail] = node /\ k2.next[node] = NULL /\ k2.val[k.tail] = m
       /\ \A x \in Nodes : x # node /\ x # k.tail => k2.next[x] = k.next[x] /\ k2.val[x] = k.val[x]
  <2>1. k.tail # node
    BY <1>1, <1>10
  <2>2. [k.next EXCEPT ![node] = NULL] \in [Nodes -> Nodes \cup {NULL}]
    BY <1>7
  <2>3. k2.next[k.tail] = node /\ k2.next[node] = NULL
    BY <1>5, <1>6, <1>7, <2>1, <2>2
  <2> QED
    BY <1>5, <1>6, <1>7, <2>1, <2>3
<1>13. ListIs(k2, s2)
  <2>1. Distinct(s2)
    <3> SUFFICES ASSUME NEW i \in 1 .. n + 1, NEW j \in 1 .. n + 1, s2[i] = s2[j] PROVE i = j
      BY <1>9 DEF Distinct
    <3>1. CASE i \in 1 .. n /\ j \in 1 .. n
      BY <1>1, <1>9, <3>1 DEF Distinct
    <3>2. CASE i = n + 1 /\ j \in 1 .. n
      BY <1>9, <1>10, <3>2
    <3>3. CASE i \in 1 .. n /\ j = n + 1
      BY <1>9, <1>10, <3>3
    <3> QED
      BY <1>1, <3>1, <3>2, <3>3
  <2>2. s2[1] = k2.head /\ s2[Len(s2)] = k2.tail
    BY <1>1, <1>6, <1>9
  <2>3. ASSUME NEW i \in 1 .. n
        PROVE  k2.next[s2[i]] = s2[i + 1] /\ k2.val[s2[i]] \in Message
    <3>1. CASE i = n
      BY <1>1, <1>9, <1>12, <3>1
    <3>2. CASE i # n
      <4>1. i \in 1 .. n - 1 /\ i + 1 \in 1 .. n
        BY <1>1, <3>2
      <4>2. k.next[s[i]] = s[i + 1] /\ k.val[s[i]] \in Message
        BY <4>1 DEF ListIs
      <4> QED
        BY <1>2, <1>9, <1>10, <1>11, <1>12, <4>1, <4>2
    <3> QED
      BY <3>1, <3>2
  <2>4. Len(s2) - 1 = n /\ Len(s2) >= 1
    BY <1>1, <1>9
  <2> QED
    BY <1>6, <1>9, <1>12, <2>1, <2>2, <2>3, <2>4 DEF ListIs
<1>14. Accounted(k2, s2, <<>>)
  <2>1. Ran(s2) = Ran(s) \cup {node}
    <3>1. 1 .. n + 1 = (1 .. n) \cup {n + 1}
      BY <1>1
    <3> HIDE DEF s2
    <3> QED BY <1>9, <3>1 DEF Ran
  <2>2. Ran(<<>>) = {} /\ Len(<<>>) = 0
    BY DEF Ran
  <2>3. k2.allocated = Len(s2) + Len(<<>>) + Len(k2.mp) /\ k2.size = Len(s2) + Len(<<>>) - 1
    BY <1>1, <1>3, <1>5, <1>6, <1>9, <2>2
  <2> HIDE DEF s2
  <2>4. Ran(s2) \cap Ran(k2.mp) = {} /\ Ran(s2) \cup Ran(<<>>) \cup Ran(k2.mp) = 0 .. k2.allocated - 1
    BY <1>5, <1>6, <2>1, <2>2
  <2> QED
    BY <1>5, <1>6, <2>2, <2>3, <2>4 DEF Accounted
<1>15. \A i \in 1 .. n - 1 : k2.val[s[i]] = k.val[s[i]] /\ k2.next[s[i]] = k.next[s[i]]
  BY <1>2, <1>10, <1>11, <1>12
<1> QED
  BY <1>1, <1>6, <1>8, <1>12, <1>13, <1>14, <1>15 DEF node, k2

-----------------------------------------------------------------------------
(* The splice                                                              *)

(* Before it, the list is M1, the old M2, M3, the x messages that were     *)
(* pushed, and the sentinel.  Where the node that is i-th after the splice *)
(* was:                                                                    *)
Was(i, p, m, e, x) ==
    IF i <= p THEN i
    ELSE IF i <= p + x THEN i + m + e
    ELSE IF i <= p + x + e THEN i - x + m
    ELSE p + m + e + x + 1

Lengths(p, m, e, x) == p \in Nat /\ m \in Nat /\ e \in Nat /\ x \in Nat

(* A function on the first numbers is a sequence.                          *)
LEMMA FunctionIsSeq ==
    ASSUME NEW n \in Nat, NEW S, NEW f \in [1 .. n -> S]
    PROVE  f \in Seq(S) /\ Len(f) = n
  OBVIOUS

(* It is a bijection between the new list and the old one but for M2.      *)
Bijective(p, m, e, x) ==
    /\ \A i \in 1 .. p + x + e + 1 :
          /\ Was(i, p, m, e, x) \in 1 .. p + m + e + x + 1
          /\ Was(i, p, m, e, x) \notin p + 1 .. p + m
    /\ \A i, j \in 1 .. p + x + e + 1 : Was(i, p, m, e, x) = Was(j, p, m, e, x) => i = j
    /\ \A j \in 1 .. p + m + e + x + 1 :
          j \notin p + 1 .. p + m => \E i \in 1 .. p + x + e + 1 : Was(i, p, m, e, x) = j

(* Counting places, nothing else.                                          *)
LEMMA WasFacts ==
    ASSUME NEW p, NEW m, NEW e, NEW x, Lengths(p, m, e, x)
    PROVE  Bijective(p, m, e, x)
<1> DEFINE W(i) == Was(i, p, m, e, x)
<1>0. p \in Nat /\ m \in Nat /\ e \in Nat /\ x \in Nat
  BY DEF Lengths
<1> USE <1>0
<1>1. ASSUME NEW i \in 1 .. p + x + e + 1
      PROVE  W(i) \in 1 .. p + m + e + x + 1 /\ W(i) \notin p + 1 .. p + m
  BY DEF Was
<1>2. ASSUME NEW i \in 1 .. p + x + e + 1, NEW j \in 1 .. p + x + e + 1, W(i) = W(j)
      PROVE  i = j
  BY <1>2 DEF Was
<1>3. ASSUME NEW j \in 1 .. p + m + e + x + 1, j \notin p + 1 .. p + m
      PROVE  \E i \in 1 .. p + x + e + 1 : W(i) = j
  <2>1. CASE j <= p
    <3>1. j \in 1 .. p + x + e + 1 /\ W(j) = j
      BY <2>1 DEF Was
    <3> QED BY <3>1
  <2>2. CASE j > p + m /\ j <= p + m + e
    <3> DEFINE i == j - m + x
    <3>1. i \in 1 .. p + x + e + 1 /\ W(i) = j
      BY <2>2 DEF Was
    <3> QED BY <3>1
  <2>3. CASE j > p + m + e /\ j <= p + m + e + x
    <3> DEFINE i == j - m - e
    <3>1. i \in 1 .. p + x + e + 1 /\ W(i) = j
      BY <2>3 DEF Was
    <3> QED BY <3>1
  <2>4. CASE j = p + m + e + x + 1
    <3> DEFINE i == p + x + e + 1
    <3>1. i \in 1 .. p + x + e + 1 /\ W(i) = j
      BY <2>4 DEF Was
    <3> QED BY <3>1
  <2> QED
    BY <1>3, <2>1, <2>2, <2>3, <2>4
<1> QED
  BY <1>1, <1>2, <1>3 DEF Bijective

(* What the splice leaves: the list, and the nodes of the old M2.          *)
SplicedList(s, p, m, e, x) == [i \in 1 .. p + x + e + 1 |-> s[Was(i, p, m, e, x)]]
OldM2(s, p, m) == [i \in 1 .. m |-> s[p + i]]

(* The first node of M3, or the sentinel.                                  *)
NextOf(k, s, p, m, e) == IF e = 0 THEN k.tail ELSE s[p + m + 1]

(* The pointers that Splice writes.                                        *)
SplicedNext(k, s, p, m, e, x) ==
    [[IF p = 0 THEN k.next ELSE [k.next EXCEPT ![s[p]] = s[p + m + e + 1]]
        EXCEPT ![s[p + m + e + x]] = NextOf(k, s, p, m, e)]
        EXCEPT ![s[p + m + e]] = k.tail]

Spliced(k, s, p, m, e, x) ==
    [k EXCEPT !.head = IF p = 0 THEN s[p + m + e + 1] ELSE k.head,
              !.next = SplicedNext(k, s, p, m, e, x)]

(* The list can be spliced: neither M2 nor what was pushed is empty.       *)
Spliceable(k, s, p, m, e, x) ==
    /\ k \in KlType /\ ListIs(k, s) /\ Accounted(k, s, <<>>)
    /\ Lengths(p, m, e, x) /\ m >= 1 /\ x >= 1 /\ Len(s) = p + m + e + x + 1

(* Where the node that was j-th points after it.                           *)
Pointer(k, s, p, m, e, x, j) ==
    IF j = p + m + e THEN s[Len(s)]
    ELSE IF j = p + m + e + x THEN IF e = 0 THEN s[Len(s)] ELSE s[p + m + 1]
    ELSE IF j = p THEN s[p + m + e + 1]
    ELSE k.next[s[j]]

(* Three writes, of which none meets another.                              *)
LEMMA SplicedPointers ==
    ASSUME NEW k, NEW s, NEW p, NEW m, NEW e, NEW x, Spliceable(k, s, p, m, e, x)
    PROVE  /\ SplicedNext(k, s, p, m, e, x) \in [Nodes -> Nodes \cup {NULL}]
           /\ \A j \in 1 .. Len(s) :
                 SplicedNext(k, s, p, m, e, x)[s[j]] = Pointer(k, s, p, m, e, x, j)
<1> DEFINE n == Len(s)
           first == IF p = 0 THEN k.next ELSE [k.next EXCEPT ![s[p]] = s[p + m + e + 1]]
           second == [first EXCEPT ![s[p + m + e + x]] = NextOf(k, s, p, m, e)]
           third == [second EXCEPT ![s[p + m + e]] = k.tail]
<1>0. /\ p \in Nat /\ m \in Nat /\ e \in Nat /\ x \in Nat /\ m >= 1 /\ x >= 1
      /\ k \in KlType /\ ListIs(k, s) /\ n = p + m + e + x + 1
  BY DEF Spliceable, Lengths
<1> USE <1>0
<1>1. /\ s \in Seq(Nodes) /\ Distinct(s) /\ n \in Nat /\ s[n] = k.tail
      /\ k.next \in [Nodes -> Nodes \cup {NULL}]
  BY DEF ListIs, KlType
<1>2. /\ p + m + e \in 1 .. n /\ p + m + e + x \in 1 .. n /\ p + m + e + 1 \in 1 .. n
      /\ p + m + 1 \in 1 .. n /\ n \in 1 .. n /\ (p # 0 => p \in 1 .. n)
      /\ p # p + m + e /\ p # p + m + e + x /\ p + m + e # p + m + e + x
  BY <1>1
<1>3. \A i \in 1 .. n : s[i] \in Nodes
  BY <1>1
<1>4. NextOf(k, s, p, m, e) = (IF e = 0 THEN s[n] ELSE s[p + m + 1]) /\ NextOf(k, s, p, m, e) \in Nodes
  BY <1>1, <1>2, <1>3 DEF NextOf
<1>5. \A i, j \in 1 .. n : s[i] = s[j] => i = j
  BY <1>1 DEF Distinct
<1> HIDE DEF n
<1>6. /\ first \in [Nodes -> Nodes \cup {NULL}]
      /\ \A j \in 1 .. n : first[s[j]] = IF j = p THEN s[p + m + e + 1] ELSE k.next[s[j]]
  <2>1. CASE p = 0
    <3>1. \A j \in 1 .. n : j # p
      BY <2>1
    <3> QED BY <1>1, <2>1, <3>1
  <2>2. CASE p # 0
    BY <1>1, <1>2, <1>3, <1>5, <2>2
  <2> QED BY <2>1, <2>2
<1> HIDE DEF first
<1>7. /\ second \in [Nodes -> Nodes \cup {NULL}]
      /\ \A j \in 1 .. n : second[s[j]] = IF j = p + m + e + x THEN NextOf(k, s, p, m, e) ELSE first[s[j]]
  BY <1>2, <1>3, <1>4, <1>5, <1>6
<1> HIDE DEF second
<1>8. /\ third \in [Nodes -> Nodes \cup {NULL}]
      /\ \A j \in 1 .. n : third[s[j]] = IF j = p + m + e THEN s[n] ELSE second[s[j]]
  BY <1>1, <1>2, <1>3, <1>5, <1>7
<1> HIDE DEF third
<1>9. third = SplicedNext(k, s, p, m, e, x)
  BY DEF third, second, first, SplicedNext
<1>10. ASSUME NEW j \in 1 .. n
       PROVE  third[s[j]] = Pointer(k, s, p, m, e, x, j)
  <2>1. CASE j = p + m + e
    BY <1>8, <2>1 DEF Pointer, n
  <2>2. CASE j = p + m + e + x /\ j # p + m + e
    BY <1>4, <1>7, <1>8, <2>2 DEF Pointer, n
  <2>3. CASE j # p + m + e + x /\ j # p + m + e
    BY <1>6, <1>7, <1>8, <2>3 DEF Pointer, n
  <2> QED BY <2>1, <2>2, <2>3
<1> QED
  BY <1>8, <1>9, <1>10 DEF n

(* The list goes from M1 by the messages pushed to M3 and the sentinel;    *)
(* the old M2 leads out of itself to where M3 begins.                      *)
LEMMA SpliceJoins ==
    ASSUME NEW k, NEW s, NEW p, NEW m, NEW e, NEW x, Spliceable(k, s, p, m, e, x)
    PROVE  /\ Spliced(k, s, p, m, e, x) \in KlType
           /\ ListIs(Spliced(k, s, p, m, e, x), SplicedList(s, p, m, e, x))
           /\ Detached(Spliced(k, s, p, m, e, x), OldM2(s, p, m), NextOf(k, s, p, m, e))
           /\ Accounted(Spliced(k, s, p, m, e, x), SplicedList(s, p, m, e, x), OldM2(s, p, m))
<1> DEFINE n == Len(s)
           k2 == Spliced(k, s, p, m, e, x)
           next2 == SplicedNext(k, s, p, m, e, x)
           t == SplicedList(s, p, m, e, x)
           l == p + x + e + 1
           d == OldM2(s, p, m)
           W(i) == Was(i, p, m, e, x)
<1>0. /\ p \in Nat /\ m \in Nat /\ e \in Nat /\ x \in Nat /\ m >= 1 /\ x >= 1
      /\ k \in KlType /\ ListIs(k, s) /\ Accounted(k, s, <<>>) /\ Len(s) = p + m + e + x + 1
      /\ Lengths(p, m, e, x)
  BY DEF Spliceable, Lengths
<1> USE <1>0
<1>1. /\ s \in Seq(Nodes) /\ Distinct(s) /\ n \in Nat /\ s[n] = k.tail /\ s[1] = k.head
      /\ n = p + m + e + x + 1 /\ l \in Nat
  BY DEF ListIs
<1>2. \A i \in 1 .. n : s[i] \in Nodes
  BY <1>1
<1>3. \A i, j \in 1 .. n : s[i] = s[j] => i = j
  BY <1>1 DEF Distinct
<1>4. /\ \A i \in 1 .. l : W(i) \in 1 .. n /\ W(i) \notin p + 1 .. p + m
      /\ \A i, j \in 1 .. l : W(i) = W(j) => i = j
      /\ \A j \in 1 .. n : j \notin p + 1 .. p + m => \E i \in 1 .. l : W(i) = j
  <2>1. l = p + x + e + 1
    OBVIOUS
  <2>2. /\ \A i \in 1 .. p + x + e + 1 :
              W(i) \in 1 .. p + m + e + x + 1 /\ W(i) \notin p + 1 .. p + m
        /\ \A i, j \in 1 .. p + x + e + 1 : W(i) = W(j) => i = j
        /\ \A j \in 1 .. p + m + e + x + 1 :
              j \notin p + 1 .. p + m => \E i \in 1 .. p + x + e + 1 : W(i) = j
    <3>1. Bijective(p, m, e, x)
      BY WasFacts
    <3> QED BY <3>1 DEF Bijective
  <2> HIDE DEF n, l, W
  <2> QED BY <1>1, <2>1, <2>2
<1>5. /\ t \in Seq(Nodes) /\ Len(t) = l /\ \A i \in 1 .. l : t[i] = s[W(i)]
  <2>1. \A i \in 1 .. l : s[W(i)] \in Nodes
    <3> HIDE DEF W, l, n
    <3> QED BY <1>2, <1>4
  <2>2. t = [i \in 1 .. l |-> s[W(i)]]
    BY DEF SplicedList
  <2> HIDE DEF W, t, l
  <2>3. t \in [1 .. l -> Nodes]
    BY <2>1, <2>2
  <2> QED BY <1>1, <2>2, <2>3, FunctionIsSeq
<1>6. \A i \in 1 .. m : p + i \in 1 .. n
  BY <1>1, SMTT(30)
<1>7. /\ d \in Seq(Nodes) /\ Len(d) = m /\ \A i \in 1 .. m : d[i] = s[p + i]
  <2>1. \A i \in 1 .. m : s[p + i] \in Nodes
    <3> HIDE DEF n
    <3> QED BY <1>2, <1>6
  <2> QED BY <2>1 DEF OldM2
<1>8. next2 \in [Nodes -> Nodes \cup {NULL}]
  BY SplicedPointers
<1>9. \A j \in 1 .. n :
         next2[s[j]] = IF j = p + m + e THEN s[n]
                       ELSE IF j = p + m + e + x THEN IF e = 0 THEN s[n] ELSE s[p + m + 1]
                       ELSE IF j = p THEN s[p + m + e + 1]
                       ELSE k.next[s[j]]
  <2>1. \A j \in 1 .. n : next2[s[j]] = Pointer(k, s, p, m, e, x, j)
    BY SplicedPointers
  <2> HIDE DEF next2
  <2> QED BY <2>1 DEF Pointer
<1>10. \A j \in 1 .. n - 1 : k.next[s[j]] = s[j + 1] /\ k.val[s[j]] \in Message
  BY DEF ListIs
<1>11. /\ k2.head = (IF p = 0 THEN s[p + m + e + 1] ELSE k.head) /\ k2.next = next2
       /\ k2.tail = k.tail /\ k2.val = k.val /\ k2.mp = k.mp /\ k2.allocated = k.allocated
       /\ k2.size = k.size
  BY DEF Spliced, KlType
<1>12. k2 \in KlType
  <2>1. ASSUME NEW h \in Nodes, NEW f \in [Nodes -> Nodes \cup {NULL}]
        PROVE  [k EXCEPT !.head = h, !.next = f] \in KlType
    BY DEF KlType
  <2>2. (IF p = 0 THEN s[p + m + e + 1] ELSE k.head) \in Nodes
    <3>1. p + m + e + 1 \in 1 .. n
      BY <1>1
    <3>2. k.head \in Nodes
      BY DEF KlType
    <3> QED BY <1>2, <3>1, <3>2
  <2> QED
    BY <1>8, <2>1, <2>2 DEF Spliced
<1> HIDE DEF k2, next2, t, d, n, l
<1>13. ListIs(k2, t)
  <2>1. Distinct(t)
    <3> SUFFICES ASSUME NEW i \in 1 .. l, NEW j \in 1 .. l, t[i] = t[j] PROVE i = j
      BY <1>5 DEF Distinct
    <3> HIDE DEF W
    <3> QED BY <1>3, <1>4, <1>5, SMTT(30)
  <2>2. t[1] = k2.head
    <3>1. 1 \in 1 .. l
      BY <1>1 DEF l
    <3>2. CASE p = 0
      <4>1. W(1) = p + m + e + 1
        BY <3>2 DEF Was
      <4> QED BY <1>5, <1>11, <3>1, <3>2, <4>1
    <3>3. CASE p # 0
      <4>1. W(1) = 1
        BY <3>3 DEF Was
      <4> QED BY <1>1, <1>5, <1>11, <3>1, <3>3, <4>1
    <3> QED BY <3>2, <3>3
  <2>3. t[l] = k2.tail
    <3>1. l \in 1 .. l /\ W(l) = n
      BY <1>1 DEF l, Was
    <3> QED BY <1>1, <1>5, <1>11, <3>1
  <2>4. ASSUME NEW i \in 1 .. l - 1
        PROVE  k2.next[t[i]] = t[i + 1] /\ k2.val[t[i]] \in Message
    <3>1. i \in 1 .. l /\ i + 1 \in 1 .. l
      BY <1>1
    <3> DEFINE j == W(i)
    <3>2. t[i] = s[j] /\ t[i + 1] = s[W(i + 1)] /\ j \in 1 .. n
      <4> HIDE DEF W
      <4> QED BY <1>4, <1>5, <3>1
    <3>3. j # n
      BY <1>1, SMTT(30) DEF Was, l
    <3>4. k.val[s[j]] \in Message /\ k.next[s[j]] = s[j + 1]
      <4>1. j \in 1 .. n - 1
        <5> HIDE DEF j
        <5> QED BY <1>1, <3>2, <3>3
      <4> HIDE DEF j
      <4> QED BY <1>10, <4>1
    <3>5. next2[s[j]] = s[W(i + 1)]
      <4>1. CASE i < p
        <5>1. j = i /\ W(i + 1) = i + 1 /\ j # p + m + e /\ j # p + m + e + x /\ j # p
          BY <1>1, <4>1 DEF Was
        <5> HIDE DEF j, W
        <5> QED BY <1>9, <3>2, <3>4, <5>1
      <4>2. CASE i = p
        <5>1. j = p /\ W(i + 1) = p + m + e + 1 /\ j # p + m + e /\ j # p + m + e + x
          BY <1>1, <4>2, SMTT(30) DEF Was
        <5> HIDE DEF j, W
        <5> QED BY <1>9, <3>2, <5>1
      <4>3. CASE p < i /\ i < p + x
        <5>1. j = i + m + e /\ W(i + 1) = (i + 1) + m + e
          BY <4>3 DEF Was
        <5>2. /\ (i + 1) + m + e = (i + m + e) + 1 /\ i + m + e # p + m + e
              /\ i + m + e # p + m + e + x /\ i + m + e # p
          BY <4>3
        <5> QED BY <1>9, <3>2, <3>4, <5>1, <5>2
      <4>4. CASE i = p + x
        <5>1. j = p + m + e + x /\ j # p + m + e /\ W(i + 1) = IF e = 0 THEN n ELSE p + m + 1
          <6>1. j = p + m + e + x /\ j # p + m + e
            BY <4>4 DEF Was
          <6>2. CASE e = 0
            <7>1. W(i + 1) = p + m + e + x + 1
              BY <4>4, <6>2 DEF Was
            <7> HIDE DEF W, j
            <7> QED BY <1>1, <6>1, <6>2, <7>1
          <6>3. CASE e # 0
            <7>1. W(i + 1) = p + m + 1
              BY <4>4, <6>3 DEF Was
            <7> HIDE DEF W, j
            <7> QED BY <6>1, <6>3, <7>1
          <6> HIDE DEF W, j
          <6> QED BY <6>2, <6>3
        <5> HIDE DEF j, W
        <5> QED BY <1>9, <3>2, <5>1
      <4>5. CASE p + x < i /\ i < p + x + e
        <5>1. j = i - x + m /\ W(i + 1) = j + 1 /\ j # p + m + e /\ j # p + m + e + x /\ j # p
          BY <1>1, <4>5 DEF Was
        <5> HIDE DEF j, W
        <5> QED BY <1>9, <3>2, <3>4, <5>1
      <4>6. CASE i = p + x + e /\ e > 0
        <5>1. j = p + m + e /\ W(i + 1) = n
          BY <1>1, <4>6 DEF Was
        <5> HIDE DEF j, W
        <5> QED BY <1>9, <3>2, <5>1
      <4>7. i <= p + x + e
        BY DEF l
      <4> QED BY <4>1, <4>2, <4>3, <4>4, <4>5, <4>6, <4>7, SMTT(30)
    <3> HIDE DEF W, j
    <3> QED BY <1>11, <3>2, <3>4, <3>5
  <2>5. k2.next[k2.tail] = NULL
    <3>1. n \in 1 .. n /\ n # p + m + e /\ n # p + m + e + x /\ n # p
      BY <1>1
    <3>2. next2[s[n]] = k.next[s[n]]
      BY <1>9, <3>1
    <3> QED BY <1>1, <1>11, <3>2 DEF ListIs
  <2>6. Len(t) = l /\ l >= 1 /\ l \in Nat
    BY <1>1, <1>5 DEF l
  <2> QED
    BY <1>5, <2>1, <2>2, <2>3, <2>4, <2>5, <2>6 DEF ListIs
<1>14. Distinct(d)
  <2> SUFFICES ASSUME NEW i \in 1 .. m, NEW j \in 1 .. m, d[i] = d[j] PROVE i = j
    BY <1>7 DEF Distinct
  <2>1. p + i \in 1 .. n /\ p + j \in 1 .. n /\ s[p + i] = s[p + j]
    BY <1>6, <1>7
  <2>2. p + i = p + j
    BY <1>3, <2>1
  <2> QED BY <2>2
<1>15. Detached(k2, d, NextOf(k, s, p, m, e))
  <2>1. ASSUME NEW i \in 1 .. m - 1 PROVE k2.next[d[i]] = d[i + 1]
    <3>1. /\ i \in 1 .. m /\ i + 1 \in 1 .. m /\ p + i \in 1 .. n /\ p + i \in 1 .. n - 1
          /\ p + i # p + m + e /\ p + i # p + m + e + x /\ p + i # p /\ (p + i) + 1 = p + (i + 1)
      BY <1>1
    <3>2. next2[s[p + i]] = k.next[s[p + i]]
      BY <1>9, <3>1
    <3>3. k.next[s[p + i]] = s[p + (i + 1)]
      BY <1>10, <3>1
    <3> QED BY <1>7, <1>11, <3>1, <3>2, <3>3
  <2>2. k2.next[d[m]] = NextOf(k, s, p, m, e)
    <3>1. p + m \in 1 .. n /\ p + m \in 1 .. n - 1 /\ m \in 1 .. m /\ p + m # p
          /\ p + m # p + m + e + x /\ (p + m = p + m + e <=> e = 0)
      BY <1>1
    <3>2. CASE e = 0
      <4>1. next2[s[p + m]] = s[n]
        BY <1>9, <3>1, <3>2
      <4> QED BY <1>1, <1>7, <1>11, <3>1, <3>2, <4>1 DEF NextOf
    <3>3. CASE e # 0
      <4>1. next2[s[p + m]] = k.next[s[p + m]]
        BY <1>9, <3>1, <3>3
      <4>2. k.next[s[p + m]] = s[p + m + 1]
        BY <1>10, <3>1
      <4> QED BY <1>7, <1>11, <3>1, <3>3, <4>1, <4>2 DEF NextOf
    <3> QED BY <3>2, <3>3
  <2> QED
    BY <1>7, <1>14, <2>1, <2>2 DEF Detached
<1>16. Accounted(k2, t, d)
  <2>1. Ran(s) = {s[j] : j \in 1 .. n} /\ Ran(t) = {t[i] : i \in 1 .. l} /\ Ran(d) = {d[i] : i \in 1 .. m}
    BY <1>5, <1>7 DEF Ran, n
  <2>2. Ran(t) \cup Ran(d) = Ran(s)
    <3>1. ASSUME NEW i \in 1 .. l PROVE t[i] \in Ran(s)
      <4> HIDE DEF W
      <4>1. W(i) \in 1 .. n /\ t[i] = s[W(i)]
        BY <1>4, <1>5
      <4> QED BY <2>1, <4>1
    <3>2. ASSUME NEW i \in 1 .. m PROVE d[i] \in Ran(s)
      BY <1>6, <1>7, <2>1
    <3>3. ASSUME NEW j \in 1 .. n PROVE s[j] \in Ran(t) \cup Ran(d)
      <4>1. CASE j \in p + 1 .. p + m
        <5> DEFINE i == j - p
        <5>1. i \in 1 .. m /\ p + i = j
          BY <4>1
        <5> QED BY <1>7, <2>1, <5>1
      <4>2. CASE j \notin p + 1 .. p + m
        <5>1. PICK i \in 1 .. l : W(i) = j
          BY <1>4, <4>2
        <5> HIDE DEF W
        <5> QED BY <1>5, <2>1, <5>1
      <4> QED BY <4>1, <4>2
    <3> QED BY <2>1, <3>1, <3>2, <3>3
  <2>3. Ran(t) \cap Ran(d) = {}
    <3> SUFFICES ASSUME NEW i \in 1 .. l, NEW j \in 1 .. m, t[i] = d[j] PROVE FALSE
      BY <2>1
    <3>1. W(i) \in 1 .. n /\ W(i) \notin p + 1 .. p + m /\ p + j \in 1 .. n /\ p + j \in p + 1 .. p + m
      <4>1. p + j \in p + 1 .. p + m
        OBVIOUS
      <4> HIDE DEF W
      <4> QED BY <1>4, <1>6, <4>1
    <3>2. s[W(i)] = s[p + j]
      <4> HIDE DEF W
      <4> QED BY <1>5, <1>7
    <3> HIDE DEF W
    <3> QED BY <1>3, <3>1, <3>2
  <2>4. Ran(<<>>) = {} /\ Len(<<>>) = 0
    BY DEF Ran
  <2>5. /\ Distinct(k.mp) /\ Ran(s) \cap Ran(k.mp) = {}
        /\ Ran(s) \cup Ran(k.mp) = 0 .. k.allocated - 1
        /\ k.allocated = n + 0 + Len(k.mp) /\ k.allocated <= MaxNodes /\ k.size = n + 0 - 1
    BY <2>4 DEF Accounted, n
  <2>6. Len(k.mp) \in Nat
    BY DEF KlType
  <2>7. k2.allocated = Len(t) + Len(d) + Len(k2.mp) /\ k2.size = Len(t) + Len(d) - 1
    <3>1. \A c \in Nat : /\ n + 0 + c = (p + x + e + 1) + m + c
                         /\ n + 0 - 1 = (p + x + e + 1) + m - 1
      BY <1>1, SMTT(30)
    <3> QED
      BY <1>5, <1>7, <1>11, <2>5, <2>6, <3>1 DEF l
  <2>8. Ran(t) \cap Ran(k.mp) = {} /\ Ran(d) \cap Ran(k.mp) = {}
    BY <2>2, <2>5
  <2> QED
    BY <1>11, <2>2, <2>3, <2>5, <2>7, <2>8 DEF Accounted
<1> QED
  BY <1>12, <1>13, <1>15, <1>16 DEF k2, t, d

(* kmp_free of the message at the head of the old M2.                      *)
FreeHead(k, node) ==
    [k EXCEPT !.val[node] = Freed, !.mp = Append(@, node), !.size = @ - 1]

(* It goes to the pool, and the list does not notice.                      *)
LEMMA FreeDrops ==
    ASSUME NEW k \in KlType, NEW s, NEW d, NEW end,
           ListIs(k, s), Detached(k, d, end), Accounted(k, s, d), d # <<>>
    PROVE  /\ FreeHead(k, d[1]) \in KlType
           /\ ListIs(FreeHead(k, d[1]), s)
           /\ Detached(FreeHead(k, d[1]), Tail(d), end)
           /\ Accounted(FreeHead(k, d[1]), s, Tail(d))
           /\ \A i \in 1 .. Len(s) - 1 : FreeHead(k, d[1]).val[s[i]] = k.val[s[i]]
           /\ FreeHead(k, d[1]).next = k.next /\ FreeHead(k, d[1]).tail = k.tail
           /\ Len(Tail(d)) = Len(d) - 1
           /\ \A i \in 1 .. Len(d) - 1 : Tail(d)[i] = d[i + 1]
<1> DEFINE node == d[1]
           k2 == FreeHead(k, node)
           d2 == Tail(d)
           n == Len(s)
           m == Len(d)
           mp2 == Append(k.mp, node)
<1>1. /\ s \in Seq(Nodes) /\ d \in Seq(Nodes) /\ n \in Nat /\ n >= 1 /\ m \in Nat /\ m >= 1
      /\ Distinct(s) /\ Distinct(d) /\ Distinct(k.mp)
      /\ k.mp \in Seq(Nodes) /\ k.val \in [Nodes -> Seq(Nat)] /\ k.size \in Nat
      /\ Len(k.mp) \in Nat
  BY SMTT(30) DEF ListIs, Detached, Accounted, KlType
<1>2. \A i \in 1 .. m : d[i] \in Nodes
  BY <1>1
<1>3. node \in Nodes
  BY <1>1, <1>2
<1>4. k.size = n + m - 1 /\ k.allocated = n + m + Len(k.mp) /\ k.allocated <= MaxNodes
  BY DEF Accounted
<1>5. /\ k2.val = [k.val EXCEPT ![node] = Freed] /\ k2.mp = mp2 /\ k2.size = k.size - 1
      /\ k2.head = k.head /\ k2.tail = k.tail /\ k2.next = k.next /\ k2.allocated = k.allocated
  BY DEF FreeHead, KlType
<1>6. k2 \in KlType
  <2>1. ASSUME NEW val2 \in [Nodes -> Seq(Nat)], NEW pool \in Seq(Nodes), NEW size2 \in Nat
        PROVE  [k EXCEPT !.val = val2, !.mp = pool, !.size = size2] \in KlType
    BY DEF KlType
  <2>2. [k.val EXCEPT ![node] = Freed] \in [Nodes -> Seq(Nat)]
    BY <1>1 DEF Freed
  <2>3. mp2 \in Seq(Nodes)
    BY <1>1, <1>3
  <2>4. k.size - 1 \in Nat
    BY <1>1, <1>4
  <2>5. k2 = [k EXCEPT !.val = [k.val EXCEPT ![node] = Freed], !.mp = mp2, !.size = k.size - 1]
    BY DEF FreeHead, KlType
  <2>6. [k EXCEPT !.val = [k.val EXCEPT ![node] = Freed], !.mp = mp2, !.size = k.size - 1] \in KlType
    <3> HIDE DEF mp2, node, k2
    <3> QED BY <2>1, <2>2, <2>3, <2>4, Zenon
  <2> HIDE DEF mp2, node, k2
  <2> QED
    BY <2>5, <2>6, Zenon
<1>7. /\ d2 \in Seq(Nodes) /\ Len(d2) = m - 1 /\ \A i \in 1 .. m - 1 : d2[i] = d[i + 1]
  BY <1>1
<1>8. Ran(d) = Ran(d2) \cup {node} /\ node \notin Ran(d2)
  <2>1. ASSUME NEW i \in 1 .. m, i # 1 PROVE d[i] \in Ran(d2)
    <3>1. i - 1 \in 1 .. m - 1 /\ (i - 1) + 1 = i
      BY <1>1, <2>1
    <3> HIDE DEF d2
    <3> QED BY <1>7, <3>1 DEF Ran
  <2>2. ASSUME NEW i \in 1 .. m - 1 PROVE d2[i] \in Ran(d) /\ d2[i] # node
    <3>1. i + 1 \in 1 .. m /\ 1 \in 1 .. m /\ i + 1 # 1
      BY <1>1, SMTT(30)
    <3>2. d[i + 1] # d[1]
      BY <1>1, <3>1 DEF Distinct
    <3> HIDE DEF d2
    <3> QED BY <1>7, <3>1, <3>2 DEF Ran
  <2>3. node \in Ran(d)
    <3>1. 1 \in 1 .. m
      BY <1>1
    <3> QED BY <3>1 DEF Ran
  <2> HIDE DEF d2, node
  <2>4. Ran(d2) = {d2[i] : i \in 1 .. m - 1}
    BY <1>7 DEF Ran
  <2>5. Ran(d) = {d[i] : i \in 1 .. m}
    BY DEF Ran
  <2>6. node = d[1]
    BY DEF node
  <2> HIDE DEF m
  <2> QED BY <2>1, <2>2, <2>3, <2>4, <2>5, <2>6
<1>9. /\ Ran(s) \cap Ran(d) = {} /\ Ran(s) \cap Ran(k.mp) = {} /\ Ran(d) \cap Ran(k.mp) = {}
      /\ Ran(s) \cup Ran(d) \cup Ran(k.mp) = 0 .. k.allocated - 1
  BY DEF Accounted
<1>10. Distinct(mp2) /\ Ran(mp2) = Ran(k.mp) \cup {node} /\ Len(mp2) = Len(k.mp) + 1
  <2> DEFINE l == Len(k.mp)
  <2>1. l \in Nat /\ Len(mp2) = l + 1 /\ mp2[l + 1] = node /\ \A i \in 1 .. l : mp2[i] = k.mp[i]
    BY <1>1, <1>3
  <2>2. \A i \in 1 .. l : k.mp[i] # node
    BY <1>8, <1>9 DEF Ran
  <2>3. \A i, j \in 1 .. l : k.mp[i] = k.mp[j] => i = j
    BY <1>1 DEF Distinct
  <2>4. 1 .. l + 1 = (1 .. l) \cup {l + 1}
    BY <2>1
  <2>5. Ran(k.mp) = {k.mp[i] : i \in 1 .. l}
    BY DEF Ran
  <2> HIDE DEF mp2, l, node
  <2>6. Distinct(mp2)
    <3> SUFFICES ASSUME NEW i \in 1 .. l + 1, NEW j \in 1 .. l + 1, mp2[i] = mp2[j] PROVE i = j
      BY <2>1 DEF Distinct
    <3> QED BY <2>1, <2>2, <2>3, <2>4
  <2>7. Ran(mp2) = Ran(k.mp) \cup {node}
    BY <2>1, <2>4, <2>5 DEF Ran
  <2> QED BY <2>1, <2>6, <2>7 DEF l
<1>11. \A i \in 1 .. n - 1 : k2.val[s[i]] = k.val[s[i]]
  <2> SUFFICES ASSUME NEW i \in 1 .. n - 1 PROVE k2.val[s[i]] = k.val[s[i]]
    OBVIOUS
  <2>1. s[i] \in Ran(s) /\ s[i] \in Nodes
    BY <1>1 DEF Ran
  <2>2. s[i] # node
    BY <1>8, <1>9, <2>1
  <2> HIDE DEF k2, node
  <2> QED BY <1>1, <1>5, <2>1, <2>2
<1> HIDE DEF k2, d2, node, mp2
<1>12. ListIs(k2, s)
  BY <1>1, <1>5, <1>11 DEF ListIs
<1>13. Detached(k2, d2, end)
  <2>1. Distinct(d2)
    <3> SUFFICES ASSUME NEW i \in 1 .. m - 1, NEW j \in 1 .. m - 1, d2[i] = d2[j] PROVE i = j
      BY <1>7 DEF Distinct
    <3>1. i + 1 \in 1 .. m /\ j + 1 \in 1 .. m
      BY <1>1
    <3>2. d[i + 1] = d[j + 1]
      BY <1>7
    <3>3. i + 1 = j + 1
      BY <1>1, <3>1, <3>2 DEF Distinct
    <3> QED BY <3>3
  <2>2. ASSUME NEW i \in 1 .. Len(d2) - 1 PROVE k2.next[d2[i]] = d2[i + 1]
    <3>1. i \in 1 .. m - 1 /\ i + 1 \in 1 .. m - 1
      BY <1>1, <1>7
    <3>2. k.next[d[i + 1]] = d[(i + 1) + 1]
      BY <3>1 DEF Detached
    <3> QED BY <1>5, <1>7, <3>1, <3>2
  <2>3. d2 # <<>> => k2.next[d2[Len(d2)]] = end
    <3> SUFFICES ASSUME d2 # <<>> PROVE k2.next[d2[Len(d2)]] = end
      OBVIOUS
    <3>1. m - 1 \in 1 .. m - 1 /\ (m - 1) + 1 = m
      BY <1>1, <1>7
    <3>2. k.next[d[m]] = end
      BY DEF Detached
    <3> QED BY <1>5, <1>7, <3>1, <3>2
  <2> QED
    BY <1>7, <2>1, <2>2, <2>3 DEF Detached
<1>14. Accounted(k2, s, d2)
  <2>1. k2.allocated = Len(s) + Len(d2) + Len(k2.mp) /\ k2.size = Len(s) + Len(d2) - 1
    <3>1. \A a, b, c \in Nat : a + b + c = a + (b - 1) + (c + 1) /\ a + b - 1 - 1 = a + (b - 1) - 1
      OBVIOUS
    <3>2. n + m + Len(k.mp) = n + (m - 1) + (Len(k.mp) + 1) /\ n + m - 1 - 1 = n + (m - 1) - 1
      BY <1>1, <3>1
    <3>3. Len(k2.mp) = Len(k.mp) + 1 /\ Len(d2) = m - 1
      BY <1>5, <1>7, <1>10
    <3>4. k2.allocated = n + m + Len(k.mp) /\ k2.size = n + m - 1 - 1
      BY <1>4, <1>5
    <3> QED BY <3>2, <3>3, <3>4, Zenon
  <2> QED
    BY <1>4, <1>5, <1>8, <1>9, <1>10, <2>1 DEF Accounted
<1> QED
  BY <1>5, <1>6, <1>7, <1>11, <1>12, <1>13, <1>14 DEF k2, d2, node

-----------------------------------------------------------------------------
(* The three parts                                                         *)

(* The nodes of a list and the place of each.                              *)
LEMMA NodesOfList ==
    ASSUME NEW k \in KlType, NEW s, NEW d \in Seq(Nodes), ListIs(k, s), Accounted(k, s, d)
    PROVE  /\ NodesOf(k) \in Seq(Nodes) /\ Len(NodesOf(k)) = Len(s) - 1
           /\ \A i \in 1 .. Len(s) - 1 : NodesOf(k)[i] = s[i] /\ Place(s[i], NodesOf(k)) = i
           /\ Append(NodesOf(k), k.tail) = s
           /\ Len(s) > 1 => Last(NodesOf(k)) = s[Len(s) - 1]
<1> DEFINE n == Len(s)
           nodes == NodesOf(k)
<1>1. s \in Seq(Nodes) /\ Distinct(s) /\ n \in Nat /\ n >= 1 /\ s[n] = k.tail
  BY DEF ListIs
<1>2. nodes = SubSeq(s, 1, n - 1)
  BY ListWalked
<1> HIDE DEF nodes
<1>3. nodes \in Seq(Nodes) /\ Len(nodes) = n - 1 /\ \A i \in 1 .. n - 1 : nodes[i] = s[i]
  <2>1. /\ SubSeq(s, 1, n - 1) \in Seq(Nodes) /\ Len(SubSeq(s, 1, n - 1)) = n - 1
        /\ \A i \in 1 .. n - 1 : SubSeq(s, 1, n - 1)[i] = s[i]
    <3>1. \A l \in 0 .. n : /\ SubSeq(s, 1, l) \in Seq(Nodes) /\ Len(SubSeq(s, 1, l)) = l
                            /\ \A i \in 1 .. l : SubSeq(s, 1, l)[i] = s[i]
      BY <1>1
    <3>2. n - 1 \in 0 .. n
      BY <1>1
    <3> HIDE DEF n
    <3> QED BY <3>1, <3>2
  <2> HIDE DEF n
  <2> QED BY <1>2, <2>1
<1>4. ASSUME NEW i \in 1 .. n - 1 PROVE Place(s[i], nodes) = i
  <2>1. i \in 1 .. Len(nodes) /\ nodes[i] = s[i]
    BY <1>3
  <2>2. ASSUME NEW j \in 1 .. Len(nodes), nodes[j] = s[i] PROVE j = i
    <3>1. j \in 1 .. n /\ i \in 1 .. n /\ s[j] = s[i]
      BY <1>1, <1>3, <2>2
    <3> QED BY <1>1, <3>1 DEF Distinct
  <2> QED BY <2>1, <2>2 DEF Place
<1>5. Append(nodes, k.tail) = s
  BY <1>1, <1>2
<1>6. n > 1 => Last(nodes) = s[n - 1]
  <2> SUFFICES ASSUME n > 1 PROVE Last(nodes) = s[n - 1]
    OBVIOUS
  <2>1. n - 1 \in 1 .. n - 1
    BY <1>1
  <2> QED BY <1>3, <2>1 DEF Last
<1> QED
  BY <1>3, <1>4, <1>5, <1>6 DEF nodes

(* The pointers mark the parts of s, whose lengths are p, m and e.         *)
Marked(k, s, d, prev, next, p, m, e) ==
    /\ k \in KlType /\ d \in Seq(Nodes) /\ ListIs(k, s) /\ Accounted(k, s, d)
    /\ p \in Nat /\ m \in Nat /\ e \in Nat /\ p + m + e <= Len(s) - 1
    /\ prev = IF p = 0 THEN NULL ELSE s[p]
    /\ e # 0 => next = s[p + m + 1]
    /\ e = 0 => \A i \in 1 .. p + m : next # s[i]

(* So these are the parts that are cut at the pointers.                    *)
LEMMA PartsAreCut ==
    ASSUME NEW k, NEW s, NEW d, NEW prev, NEW next, NEW p, NEW m, NEW e,
           Marked(k, s, d, prev, next, p, m, e)
    PROVE  PartsOf(k, prev, next, p + m + e) =
              [M1 |-> Cut(k, s, 0, p), M2 |-> Cut(k, s, p, m), M3 |-> Cut(k, s, p + m, e)]
<1> DEFINE n == Len(s)
           nodes == NodesOf(k)
           length == p + m + e
           prefix == IF prev = NULL THEN 0 ELSE Place(prev, nodes)
           suffix == IF \E i \in 1 .. length : nodes[i] = next THEN Place(next, nodes) ELSE length + 1
           messages == Messages(k, nodes)
<1>1. /\ k \in KlType /\ d \in Seq(Nodes) /\ ListIs(k, s) /\ Accounted(k, s, d)
      /\ p \in Nat /\ m \in Nat /\ e \in Nat /\ p + m + e <= n - 1
      /\ s \in Seq(Nodes) /\ Distinct(s) /\ n \in Nat
  BY DEF Marked, ListIs
<1>2. /\ Len(nodes) = n - 1
      /\ \A i \in 1 .. n - 1 : nodes[i] = s[i] /\ Place(s[i], nodes) = i
  BY <1>1, NodesOfList
<1> HIDE DEF nodes
<1>3. prefix = p
  <2>1. CASE p = 0
    BY <2>1 DEF Marked
  <2>2. CASE p # 0
    <3>1. p \in 1 .. n - 1 /\ p \in 1 .. n /\ prev = s[p]
      BY <1>1, <2>2 DEF Marked
    <3>2. s[p] \in Nodes
      BY <1>1, <3>1
    <3>3. s[p] # NULL
      BY <3>2, Numbers DEF Nodes, NULL
    <3> QED BY <1>2, <3>1, <3>3
  <2> QED BY <2>1, <2>2
<1>4. suffix = p + m + 1
  <2>1. CASE e = 0
    <3>1. \A i \in 1 .. length : nodes[i] # next
      <4> SUFFICES ASSUME NEW i \in 1 .. p + m PROVE nodes[i] # next
        BY <1>1, <2>1
      <4>1. i \in 1 .. n - 1
        BY <1>1
      <4> QED BY <1>2, <2>1, <4>1 DEF Marked
    <3> QED BY <1>1, <2>1, <3>1
  <2>2. CASE e # 0
    <3>1. p + m + 1 \in 1 .. n - 1 /\ p + m + 1 \in 1 .. length
      BY <1>1, <2>2
    <3>2. next = s[p + m + 1]
      BY <2>2 DEF Marked
    <3> QED BY <1>2, <3>1, <3>2
  <2> QED BY <2>1, <2>2
<1>5. messages = [i \in 1 .. n - 1 |-> k.val[s[i]]]
  BY <1>2 DEF Messages
<1> HIDE DEF messages, prefix, suffix
<1>6. ASSUME NEW a \in Nat, NEW l \in Nat, a + l <= n - 1
      PROVE  SubSeq(messages, a + 1, a + l) = Cut(k, s, a, l)
  <2>1. messages \in Seq(Seq(Nat)) /\ Len(messages) = n - 1
    <3>1. \A i \in 1 .. n - 1 : k.val[s[i]] \in Seq(Nat)
      <4>1. \A i \in 1 .. n - 1 : s[i] \in Nodes
        BY <1>1
      <4>2. k.val \in [Nodes -> Seq(Nat)]
        BY <1>1 DEF KlType
      <4> QED BY <4>1, <4>2
    <3>2. n - 1 \in Nat
      BY <1>1
    <3> QED BY <1>5, <3>1, <3>2, FunctionIsSeq
  <2>2. SubSeq(messages, a + 1, a + l) = [i \in 1 .. l |-> messages[a + i]]
    BY <1>6, <2>1
  <2>3. \A i \in 1 .. l : messages[a + i] = k.val[s[a + i]]
    <3>1. \A i \in 1 .. l : a + i \in 1 .. n - 1
      BY <1>1, <1>6
    <3> QED BY <1>5, <3>1
  <2> QED BY <2>2, <2>3 DEF Cut
<1>7. SubSeq(messages, 1, p) = Cut(k, s, 0, p)
  <2>1. SubSeq(messages, 0 + 1, 0 + p) = Cut(k, s, 0, p)
    BY <1>1, <1>6
  <2>2. 0 + 1 = 1 /\ 0 + p = p
    BY <1>1
  <2> QED BY <2>1, <2>2
<1>8. SubSeq(messages, p + 1, p + m) = Cut(k, s, p, m)
  BY <1>1, <1>6
<1>9. SubSeq(messages, p + m + 1, p + m + e) = Cut(k, s, p + m, e)
  <2>1. p + m \in Nat /\ (p + m) + e <= n - 1
    BY <1>1
  <2> QED BY <1>1, <1>6, <2>1
<1>10. PartsOf(k, prev, next, p + m + e) =
          [M1 |-> SubSeq(messages, 1, prefix),
           M2 |-> SubSeq(messages, prefix + 1, suffix - 1),
           M3 |-> SubSeq(messages, suffix, p + m + e)]
  BY DEF PartsOf, messages, prefix, suffix, nodes
<1>11. (p + m + 1) - 1 = p + m
  BY <1>1
<1> QED
  BY <1>3, <1>4, <1>7, <1>8, <1>9, <1>10, <1>11

-----------------------------------------------------------------------------
(* The invariant                                                           *)

Phases == {"none", "construct", "idle", "push", "splice", "free",
           "connect", "send", "handle", "ran"}

(* The phases that lie between the parsing of a mutant and its splice, and *)
(* those from the splice to the end of the execution.                      *)
Pushing == {"push", "splice"}
Executing == {"free", "connect", "send", "handle", "ran"}

Typed ==
    /\ phase \in Phases /\ fuzzing \in BOOLEAN
    /\ M2_prev \in Nodes \cup {NULL} /\ M2_next \in Nodes \cup {NULL}
    /\ prev_last_message \in Nodes \cup {NULL} /\ it \in Nodes \cup {NULL}
    /\ cur_it \in Nodes \cup {NULL} /\ next_it \in Nodes \cup {NULL}
    /\ out_buf \in Seq(Nat) /\ pushed \in Nat /\ executions \in Nat
    /\ wire \in Seq(Message) /\ messages_sent \in Nat /\ response_buf_size \in Nat
    /\ response_bytes \in Seq(Nat \cup {Unset})

(* The list k is M1, M2, M3, x messages behind them and the sentinel; d    *)
(* are the nodes of the old M2.                                            *)
Shaped(k, s, d, p, m, e, x) ==
    /\ k \in KlType /\ d \in Seq(Nodes) /\ ListIs(k, s) /\ Accounted(k, s, d)
    /\ Lengths(p, m, e, x) /\ Len(s) = p + m + e + x + 1
    /\ p + e <= MaxSeedLength /\ p + m + e <= MaxSeedLength + MaxMutant

(* The messages behind the old last one.                                   *)
Extra == IF phase \in Pushing THEN pushed ELSE 0

(* Every pointer is the node at a place that follows from the lengths.     *)
Pointed(s, p, m, e) ==
    /\ M2_prev = IF p = 0 THEN NULL ELSE s[p]
    /\ M2_next = IF fuzzing THEN NextOf(kl, s, p, m, e) ELSE NULL
    /\ ~fuzzing => p = 0 /\ e = 0
    /\ phase \in Pushing => prev_last_message = s[p + m + e]

(* What the phase says of the lengths, and of the loop that frees M2.      *)
Phased(d, m) ==
    /\ phase \in {"none", "construct"} => ~fuzzing
    /\ phase \in {"idle", "push", "splice", "free"} => fuzzing
    /\ IF phase = "none" THEN m = 0 ELSE m >= 1
    /\ phase = "construct" => m <= MaxSeedLength
    /\ IF phase = "free"
       THEN d # <<>> /\ Detached(kl, d, M2_next) /\ cur_it = d[1] /\ next_it = kl.next[d[1]]
       ELSE d = <<>>

(* The messages that a mutant is cut into, and how many they are.          *)
Piece(regions, i) ==
    IF i = MaxRegionCount + 1 THEN SubSeq(regions, i, Len(regions)) ELSE <<regions[i]>>
Pieces(regions) == IF Len(regions) <= MaxRegionCount THEN Len(regions) ELSE MaxRegionCount + 1

(* The first n of them are in the list, behind so many others.             *)
Holds(k, s, behind, n, regions) ==
    \A i \in 1 .. n : k.val[s[behind + i]] = Piece(regions, i)

(* The mutant is at the end of the list, and from the splice on it is M2.  *)
Filled(s, p, m, e) ==
    /\ phase \in Pushing =>
          /\ Len(out_buf) \in 1 .. MaxMutant
          /\ IF phase = "push" THEN pushed < Pieces(out_buf) ELSE pushed = Pieces(out_buf)
          /\ Holds(kl, s, p + m + e, pushed, out_buf)
    /\ phase \in Executing /\ fuzzing =>
          /\ Len(out_buf) \in 1 .. MaxMutant /\ m = Pieces(out_buf)
          /\ Holds(kl, s, p, m, out_buf)

(* The first messages of the list were sent, in their order.               *)
Sent(k, s, w) == Len(w) < Len(s) /\ \A i \in 1 .. Len(w) : w[i] = k.val[s[i]]

(* The first n sizes were written, and grow up to a size.                  *)
Growing(bytes, n, size) ==
    \A i \in 1 .. n : bytes[i] \in Nat /\ bytes[i] <= size /\ (i > 1 => bytes[i - 1] <= bytes[i])

(* The session, at whatever message it stopped or broke off.               *)
Told(s) ==
    /\ phase = "send" \/ (phase \in {"handle", "ran"} /\ response_bytes # None) =>
          /\ Sent(kl, s, wire) /\ messages_sent = Len(wire) /\ Len(response_bytes) = Len(wire)
    /\ phase = "send" =>
          it = s[Len(wire) + 1] /\ Growing(response_bytes, Len(response_bytes), response_buf_size)
    /\ phase = "handle" /\ response_bytes # None =>
          Growing(response_bytes, Len(response_bytes) - 1, response_buf_size)
    /\ phase = "ran" /\ response_bytes # None =>
          /\ Growing(response_bytes, Len(response_bytes), response_buf_size)
          /\ response_bytes[Len(response_bytes)] = response_buf_size

Related(s, d, p, m, e) ==
    /\ Typed
    /\ Shaped(kl, s, d, p, m, e, Extra)
    /\ Pointed(s, p, m, e)
    /\ Phased(d, m)
    /\ Filled(s, p, m, e)
    /\ Told(s)

IInv ==
    \E s, d \in Seq(Nodes) : \E p, m, e \in Nat : Related(s, d, p, m, e)

-----------------------------------------------------------------------------
(* What the invariant implies                                              *)

(* There is a message of every region, or of all that are left.            *)
LEMMA PiecesAreMessages ==
    ASSUME NEW regions \in Seq(Nat), Len(regions) >= 1
    PROVE  /\ Pieces(regions) \in 1 .. Len(regions) /\ Pieces(regions) <= MaxRegionCount + 1
           /\ \A i \in 1 .. Pieces(regions) : Piece(regions, i) \in Message
           /\ \A i \in 1 .. Pieces(regions) :
                 i \in {Len(regions), MaxRegionCount + 1} <=> i = Pieces(regions)
<1> DEFINE l == Len(regions)
<1>1. l \in Nat /\ l >= 1 /\ MaxRegionCount \in Nat /\ MaxRegionCount >= 1
  BY Numbers
<1>2. Pieces(regions) \in 1 .. l /\ Pieces(regions) <= MaxRegionCount + 1
  BY <1>1 DEF Pieces
<1>3. \A i \in 1 .. Pieces(regions) :
         i \in {l, MaxRegionCount + 1} <=> i = Pieces(regions)
  BY <1>1 DEF Pieces
<1>4. ASSUME NEW i \in 1 .. Pieces(regions) PROVE Piece(regions, i) \in Message
  <2>1. i \in 1 .. l
    BY <1>1, <1>2
  <2>2. CASE i = MaxRegionCount + 1
    <3>1. SubSeq(regions, i, l) \in Seq(Nat) /\ Len(SubSeq(regions, i, l)) >= 1
      BY <1>1, <2>1
    <3> QED BY <2>2, <3>1 DEF Piece, Message
  <2>3. CASE i # MaxRegionCount + 1
    <3>1. <<regions[i]>> \in Seq(Nat) /\ <<regions[i]>> # <<>>
      BY <2>1
    <3> QED BY <2>3, <3>1 DEF Piece, Message
  <2> QED BY <2>2, <2>3
<1> QED
  BY <1>2, <1>3, <1>4

(* A cut of one element.                                                   *)
LEMMA SingleCut ==
    ASSUME NEW S, NEW q \in Seq(S), NEW i \in 1 .. Len(q)
    PROVE  SubSeq(q, i, i) = <<q[i]>>
<1>1. Len(SubSeq(q, i, i)) = 1 /\ SubSeq(q, i, i)[1] = q[i] /\ SubSeq(q, i, i) \in Seq(S)
  OBVIOUS
<1>2. \A r \in Seq(S) : Len(r) = 1 => r = <<r[1]>>
  OBVIOUS
<1> HIDE DEF SubSeq
<1> QED BY <1>1, <1>2

(* Pieces of a mutant are cut out of it one behind the other.              *)
LEMMA PiecesAreCut ==
    ASSUME NEW regions \in Seq(Nat), Len(regions) >= 1, NEW messages,
           Len(messages) = Pieces(regions),
           \A i \in 1 .. Pieces(regions) : messages[i] = Piece(regions, i)
    PROVE  CutFrom(messages, regions)
<1> DEFINE l == Len(regions)
           n == Pieces(regions)
           end == [i \in 0 .. n |-> IF i = n THEN l ELSE i]
<1>1. l \in Nat /\ n \in 1 .. l
  BY PiecesAreMessages
<1>2. end \in [0 .. n -> 0 .. l] /\ end[0] = 0 /\ end[n] = l
  BY <1>1
<1>3. ASSUME NEW i \in 1 .. n
      PROVE  end[i - 1] < end[i] /\ messages[i] = SubSeq(regions, end[i - 1] + 1, end[i])
  <2>1. end[i - 1] = i - 1 /\ (i - 1) + 1 = i /\ i \in 1 .. l
    BY <1>1
  <2>2. messages[i] = Piece(regions, i)
    OBVIOUS
  <2>3. CASE i = n
    <3>1. end[i] = l /\ i - 1 < l
      BY <1>1, <2>3
    <3>2. Piece(regions, i) = SubSeq(regions, i, l)
      <4>1. CASE i = MaxRegionCount + 1
        BY <4>1 DEF Piece
      <4>2. CASE i # MaxRegionCount + 1
        <5>1. i = l
          BY <2>3, <4>2 DEF Pieces
        <5>2. SubSeq(regions, l, l) = <<regions[l]>>
          BY <1>1, SingleCut
        <5> QED BY <4>2, <5>1, <5>2 DEF Piece
      <4> QED BY <4>1, <4>2
    <3> HIDE DEF end
    <3> QED BY <2>1, <2>2, <3>1, <3>2
  <2>4. CASE i # n
    <3>1. end[i] = i /\ i - 1 < i
      BY <1>1, <2>4
    <3>2. i # MaxRegionCount + 1
      BY <1>1, <2>4, PiecesAreMessages, Numbers
    <3>3. SubSeq(regions, i, i) = <<regions[i]>>
      BY <2>1, SingleCut
    <3> HIDE DEF end
    <3> QED BY <2>1, <2>2, <3>1, <3>2, <3>3 DEF Piece
  <2> QED BY <2>3, <2>4
<1> HIDE DEF end, n
<1> QED
  BY <1>2, <1>3 DEF CutFrom, n

(* The three parts of s.                                                   *)
Split(k, s, p, m, e) ==
    [M1 |-> Cut(k, s, 0, p), M2 |-> Cut(k, s, p, m), M3 |-> Cut(k, s, p + m, e)]

(* Those of the test case: none while the seed is still being read.        *)
Held(s, p, m, e) ==
    IF phase = "construct" THEN Split(kl, s, 0, 0, 0) ELSE Split(kl, s, p, m, e)

LEMMA PartsHere ==
    ASSUME NEW s, NEW d, NEW p, NEW m, NEW e
    PROVE  Related(s, d, p, m, e) => Parts = Held(s, p, m, e)
<1> SUFFICES ASSUME Related(s, d, p, m, e) PROVE Parts = Held(s, p, m, e)
  OBVIOUS
<1> DEFINE n == Len(s)
<1>1. /\ kl \in KlType /\ d \in Seq(Nodes) /\ ListIs(kl, s) /\ Accounted(kl, s, d)
      /\ p \in Nat /\ m \in Nat /\ e \in Nat /\ Extra \in Nat /\ n = p + m + e + Extra + 1
      /\ s \in Seq(Nodes) /\ Distinct(s) /\ s[n] = kl.tail
  BY DEF Related, Shaped, Lengths, ListIs
<1>2. Pointed(s, p, m, e) /\ Phased(d, m)
  BY DEF Related
<1>3. \A i \in 1 .. n : s[i] \in Nodes
  BY <1>1
<1>4. \A i \in 1 .. n - 1 : s[i] # kl.tail /\ s[i] # NULL
  <2> SUFFICES ASSUME NEW i \in 1 .. n - 1 PROVE s[i] # kl.tail /\ s[i] # NULL
    OBVIOUS
  <2>1. i \in 1 .. n /\ n \in 1 .. n /\ i # n
    BY <1>1
  <2>2. s[i] \in Nodes
    BY <1>3, <2>1
  <2> QED BY <1>1, <2>1, <2>2, Numbers DEF Distinct, Nodes, NULL
<1>5. /\ Len(NodesOf(kl)) = n - 1
      /\ \A i \in 1 .. n - 1 : NodesOf(kl)[i] = s[i] /\ Place(s[i], NodesOf(kl)) = i
  BY <1>1, NodesOfList
<1>6. CASE phase = "construct"
  <2>1. M2_prev = NULL /\ M2_next = NULL
    BY <1>2, <1>6 DEF Pointed, Phased
  <2>2. Marked(kl, s, d, M2_prev, M2_next, 0, 0, 0)
    BY <1>1, <2>1 DEF Marked
  <2>3. PartsOf(kl, M2_prev, M2_next, 0 + 0 + 0) = Split(kl, s, 0, 0, 0)
    <3>1. PartsOf(kl, M2_prev, M2_next, 0 + 0 + 0) =
             [M1 |-> Cut(kl, s, 0, 0), M2 |-> Cut(kl, s, 0, 0), M3 |-> Cut(kl, s, 0 + 0, 0)]
      <4>1. \A a, b, c :
               Marked(kl, s, d, M2_prev, M2_next, a, b, c) =>
               PartsOf(kl, M2_prev, M2_next, a + b + c) =
                  [M1 |-> Cut(kl, s, 0, a), M2 |-> Cut(kl, s, a, b), M3 |-> Cut(kl, s, a + b, c)]
        BY PartsAreCut
      <4> QED BY <2>2, <4>1, Zenon
    <3>2. 0 + 0 = 0
      OBVIOUS
    <3> QED BY <3>1, <3>2 DEF Split
  <2>4. Length = 0 /\ 0 + 0 + 0 = 0
    BY <1>6 DEF Length
  <2> QED BY <1>6, <2>3, <2>4 DEF Parts, Held
<1>7. CASE phase # "construct"
  <2>1. Length = p + m + e
    <3>1. CASE phase \in Pushing
      <4>1. p + m + e \in 1 .. n - 1 /\ prev_last_message = s[p + m + e]
        <5>1. m >= 1 /\ prev_last_message = s[p + m + e]
          BY <1>2, <3>1 DEF Phased, Pointed, Pushing
        <5> QED BY <1>1, <5>1
      <4>2. Length = Place(prev_last_message, NodesOf(kl))
        BY <3>1 DEF Length, Pushing
      <4> QED BY <1>5, <4>1, <4>2
    <3>2. CASE phase \notin Pushing
      <4>1. Length = Len(NodesOf(kl))
        BY <1>7, <3>2 DEF Length, Pushing
      <4>2. Extra = 0
        BY <3>2 DEF Extra
      <4> HIDE DEF n
      <4> QED BY <1>1, <1>5, <4>1, <4>2
    <3> QED BY <3>1, <3>2
  <2>2. Marked(kl, s, d, M2_prev, M2_next, p, m, e)
    <3>1. e # 0 => M2_next = s[p + m + 1]
      BY <1>2 DEF Pointed, NextOf
    <3>2. e = 0 => \A i \in 1 .. p + m : M2_next # s[i]
      <4> SUFFICES ASSUME e = 0, NEW i \in 1 .. p + m PROVE M2_next # s[i]
        OBVIOUS
      <4>1. M2_next = kl.tail \/ M2_next = NULL
        BY <1>2 DEF Pointed, NextOf
      <4>2. i \in 1 .. n - 1
        BY <1>1
      <4> QED BY <1>4, <4>1, <4>2
    <3>3. p + m + e <= n - 1
      BY <1>1
    <3>4. M2_prev = IF p = 0 THEN NULL ELSE s[p]
      BY <1>2 DEF Pointed
    <3> QED BY <1>1, <3>1, <3>2, <3>3, <3>4 DEF Marked
  <2>3. PartsOf(kl, M2_prev, M2_next, p + m + e) = Split(kl, s, p, m, e)
    BY <2>2, PartsAreCut DEF Split
  <2> QED BY <1>7, <2>1, <2>3 DEF Parts, Held
<1> QED
  BY <1>6, <1>7

(* The same of the next state.                                             *)
LEMMA PartsThere ==
    ASSUME NEW s, NEW d, NEW p, NEW m, NEW e
    PROVE  (Related(s, d, p, m, e) => Parts = Held(s, p, m, e))'
<1>1. Related(s, d, p, m, e) => Parts = Held(s, p, m, e)
  BY PartsHere
<1> QED
  BY <1>1, PTL

LEMMA ImpliesTypeOK == IInv => TypeOK
<1> SUFFICES ASSUME IInv PROVE TypeOK
  OBVIOUS
<1>1. PICK s \in Seq(Nodes), d \in Seq(Nodes), p \in Nat, m \in Nat, e \in Nat :
         Related(s, d, p, m, e)
  BY DEF IInv
<1>2. /\ kl \in KlType /\ ListIs(kl, s) /\ Accounted(kl, s, d) /\ Typed
  BY <1>1 DEF Related, Shaped
<1>3. kl.allocated \in 1 .. MaxNodes
  <2>1. kl.allocated \in Nat /\ Len(kl.mp) \in Nat /\ Len(s) \in Nat /\ Len(d) \in Nat
    BY <1>2 DEF KlType
  <2>2. Len(s) >= 1 /\ kl.allocated = Len(s) + Len(d) + Len(kl.mp) /\ kl.allocated <= MaxNodes
    BY <1>2 DEF ListIs, Accounted
  <2>3. \A a, b, c \in Nat : a >= 1 => a + b + c >= 1
    OBVIOUS
  <2>4. kl.allocated >= 1
    BY <2>1, <2>2, <2>3
  <2>5. \A a \in Nat : a >= 1 /\ a <= MaxNodes => a \in 1 .. MaxNodes
    BY Numbers
  <2> QED BY <2>1, <2>2, <2>4, <2>5, Zenon
<1>4. /\ kl.head \in Nodes /\ kl.tail \in Nodes /\ kl.size \in Nat /\ kl.mp \in Seq(Nodes)
      /\ kl.next \in [Nodes -> Nodes \cup {NULL}] /\ DOMAIN kl.val = Nodes
  BY <1>2 DEF KlType
<1> QED
  BY <1>2, <1>3, <1>4 DEF TypeOK, Typed, Phases

(* Every node is where it belongs when no mutant is being spliced in.      *)
LEMMA ImpliesListSound == IInv => ListSound
<1> SUFFICES ASSUME IInv, phase \notin {"push", "splice", "free"}
             PROVE  /\ kl.size = Len(Append(NodesOf(kl), kl.tail)) - 1 /\ kl.next[kl.tail] = NULL
                    /\ \A i \in 1 .. Len(Append(NodesOf(kl), kl.tail)) - 1 :
                          kl.val[Append(NodesOf(kl), kl.tail)[i]] # Freed
                    /\ Len(Append(NodesOf(kl), kl.tail)) + Len(kl.mp) = kl.allocated
                    /\ ToSet(Append(NodesOf(kl), kl.tail)) \cup ToSet(kl.mp) = 0 .. kl.allocated - 1
  BY Zenon DEF ListSound
<1>1. PICK s \in Seq(Nodes), d \in Seq(Nodes), p \in Nat, m \in Nat, e \in Nat :
         Related(s, d, p, m, e)
  BY DEF IInv
<1>2. /\ kl \in KlType /\ ListIs(kl, s) /\ Accounted(kl, s, d) /\ Phased(d, m)
  BY <1>1 DEF Related, Shaped
<1>3. d = <<>> /\ Len(d) = 0 /\ Ran(d) = {}
  <2>1. d = <<>>
    BY <1>2 DEF Phased
  <2> QED BY <2>1 DEF Ran
<1>4. Append(NodesOf(kl), kl.tail) = s
  BY <1>2, NodesOfList
<1>5. ToSet(s) = Ran(s) /\ ToSet(kl.mp) = Ran(kl.mp)
  <2>1. \A r \in Seq(Nodes) : ToSet(r) = Ran(r)
    <3> SUFFICES ASSUME NEW r \in Seq(Nodes) PROVE {r[i] : i \in DOMAIN r} = {r[i] : i \in 1 .. Len(r)}
      BY DEF ToSet, Ran
    <3>1. DOMAIN r = 1 .. Len(r)
      OBVIOUS
    <3> QED BY <3>1
  <2> QED BY <1>2, <2>1 DEF KlType
<1>6. Ran(s) \cup Ran(kl.mp) = 0 .. kl.allocated - 1
  BY <1>2, <1>3 DEF Accounted
<1>7. kl.allocated = Len(s) + Len(kl.mp) /\ kl.size = Len(s) - 1
  <2>1. Len(s) \in Nat /\ Len(kl.mp) \in Nat
    BY <1>2 DEF KlType
  <2> QED BY <1>2, <1>3, <2>1 DEF Accounted
<1>8. \A i \in 1 .. Len(s) - 1 : kl.val[s[i]] # Freed
  BY <1>2 DEF ListIs, Message, Freed
<1> QED
  BY <1>2, <1>4, <1>5, <1>6, <1>7, <1>8 DEF ListIs

LEMMA ImpliesMutantWhole == IInv => MutantWhole
<1> SUFFICES ASSUME IInv, phase = "connect", fuzzing PROVE CutFrom(Parts.M2, out_buf)
  BY DEF MutantWhole
<1>1. PICK s \in Seq(Nodes), d \in Seq(Nodes), p \in Nat, m \in Nat, e \in Nat :
         Related(s, d, p, m, e)
  BY DEF IInv
<1>2. Parts.M2 = Cut(kl, s, p, m)
  <2>1. Parts = Held(s, p, m, e)
    BY <1>1, PartsHere
  <2> QED BY <2>1 DEF Held, Split
<1>3. /\ out_buf \in Seq(Nat) /\ Len(out_buf) \in 1 .. MaxMutant /\ m = Pieces(out_buf)
      /\ Holds(kl, s, p, m, out_buf)
  BY <1>1 DEF Related, Typed, Filled, Executing
<1>4. Len(Cut(kl, s, p, m)) = m /\ \A i \in 1 .. m : Cut(kl, s, p, m)[i] = Piece(out_buf, i)
  BY <1>3 DEF Cut, Holds
<1>5. Len(out_buf) >= 1
  BY <1>3, Numbers
<1> QED
  BY <1>2, <1>3, <1>4, <1>5, PiecesAreCut

LEMMA ImpliesRecordsTrue == IInv => RecordsTrue
<1> SUFFICES ASSUME IInv, Observed
             PROVE  /\ messages_sent = Len(response_bytes) /\ messages_sent <= RegionCount
                    /\ \A i \in 1 .. messages_sent :
                          /\ response_bytes[i] # Unset
                          /\ i > 1 => response_bytes[i - 1] <= response_bytes[i]
                    /\ response_bytes[messages_sent] = response_buf_size
                    /\ Messages(kl, SubSeq(NodesOf(kl), 1, messages_sent)) = wire
  BY DEF RecordsTrue, AnnotationDefined, KeptIsSent
<1>1. PICK s \in Seq(Nodes), d \in Seq(Nodes), p \in Nat, m \in Nat, e \in Nat :
         Related(s, d, p, m, e)
  BY DEF IInv
<1>2. kl \in KlType /\ ListIs(kl, s) /\ Accounted(kl, s, d) /\ wire \in Seq(Message)
  BY <1>1 DEF Related, Shaped, Typed
<1>3. /\ Sent(kl, s, wire) /\ messages_sent = Len(wire) /\ Len(response_bytes) = Len(wire)
      /\ Growing(response_bytes, Len(response_bytes), response_buf_size)
      /\ response_bytes[Len(response_bytes)] = response_buf_size
  BY <1>1 DEF Related, Told, Observed
<1> DEFINE n == Len(wire)
<1>4. n \in Nat /\ Len(s) \in Nat /\ n <= Len(s) - 1
  BY <1>2, <1>3 DEF Sent
<1>5. /\ Len(NodesOf(kl)) = Len(s) - 1 /\ NodesOf(kl) \in Seq(Nodes)
      /\ \A i \in 1 .. Len(s) - 1 : NodesOf(kl)[i] = s[i]
  BY <1>2, NodesOfList
<1>6. messages_sent <= RegionCount
  BY <1>3, <1>4, <1>5 DEF RegionCount
<1>7. \A i \in 1 .. messages_sent : /\ response_bytes[i] # Unset
                                    /\ i > 1 => response_bytes[i - 1] <= response_bytes[i]
  BY <1>3 DEF Growing, Unset
<1>8. Messages(kl, SubSeq(NodesOf(kl), 1, messages_sent)) = wire
  <2> DEFINE q == SubSeq(NodesOf(kl), 1, n)
  <2>1. Len(q) = n /\ \A i \in 1 .. n : q[i] = s[i]
    <3>1. \A r \in Seq(Nodes), l \in Nat :
             l <= Len(r) => Len(SubSeq(r, 1, l)) = l /\ \A i \in 1 .. l : SubSeq(r, 1, l)[i] = r[i]
      OBVIOUS
    <3>2. Len(q) = n /\ \A i \in 1 .. n : q[i] = NodesOf(kl)[i]
      BY <1>4, <1>5, <3>1
    <3>3. \A i \in 1 .. n : i \in 1 .. Len(s) - 1
      BY <1>4
    <3> HIDE DEF q, n
    <3> QED BY <1>5, <3>2, <3>3
  <2> HIDE DEF q
  <2>2. \A i \in 1 .. n : wire[i] = kl.val[q[i]]
    BY <1>3, <2>1 DEF Sent
  <2>3. wire = [i \in 1 .. n |-> wire[i]]
    BY <1>2
  <2>4. Messages(kl, q) = [i \in 1 .. n |-> kl.val[q[i]]]
    BY <2>1 DEF Messages
  <2>5. Messages(kl, q) = wire
    <3> HIDE DEF n
    <3> QED BY <2>2, <2>3, <2>4
  <2> QED BY <1>3, <2>5 DEF q
<1> QED
  BY <1>3, <1>6, <1>7, <1>8

-----------------------------------------------------------------------------
(* The steps                                                               *)

(* A step keeps the invariant, and is one of the test case or a stutter.   *)
Steps == IInv' /\ [Abstract!Next]_(Abstract!vars)

LEMMA Witnessed ==
    ASSUME NEW s \in Seq(Nodes), NEW d \in Seq(Nodes), NEW p \in Nat, NEW m \in Nat, NEW e \in Nat,
           Related(s, d, p, m, e)'
    PROVE  IInv' /\ Parts' = Held(s, p, m, e)'
<1>1. IInv'
  BY DEF IInv
<1> QED
  BY <1>1, PartsThere

LEMMA CutIsSeq ==
    ASSUME NEW k, NEW s, ListIs(k, s), NEW b \in Nat, NEW n \in Nat, b + n <= Len(s) - 1
    PROVE  Cut(k, s, b, n) \in Seq(Message) /\ Len(Cut(k, s, b, n)) = n
<1>1. \A i \in 1 .. n : k.val[s[b + i]] \in Message
  <2> SUFFICES ASSUME NEW i \in 1 .. n PROVE k.val[s[b + i]] \in Message
    OBVIOUS
  <2>1. b + i \in 1 .. Len(s) - 1
    <3>1. Len(s) \in Nat
      BY DEF ListIs
    <3> QED BY <3>1
  <2> QED BY <2>1 DEF ListIs
<1>2. Cut(k, s, b, n) \in [1 .. n -> Message]
  BY <1>1 DEF Cut
<1> HIDE DEF Cut
<1> QED
  BY <1>2, FunctionIsSeq

LEMMA EmptyCut ==
    ASSUME NEW k, NEW s, NEW b PROVE Cut(k, s, b, 0) = <<>>
  BY DEF Cut

(* Two lists with the same messages at the places of a part.               *)
LEMMA SameCut ==
    ASSUME NEW k, NEW s, NEW b \in Nat, NEW k2, NEW s2, NEW b2 \in Nat, NEW n \in Nat,
           \A i \in 1 .. n : k.val[s[b + i]] = k2.val[s2[b2 + i]]
    PROVE  Cut(k, s, b, n) = Cut(k2, s2, b2, n)
  BY DEF Cut

(* Where the elements of a concatenation are.                              *)
LEMMA Concatenated ==
    ASSUME NEW S, NEW a \in Seq(S), NEW b \in Seq(S)
    PROVE  /\ a \o b \in Seq(S) /\ Len(a \o b) = Len(a) + Len(b)
           /\ \A i \in 1 .. Len(a) + Len(b) :
                 (a \o b)[i] = IF i <= Len(a) THEN a[i] ELSE b[i - Len(a)]
  OBVIOUS

Covers(s, p, m, e) == p \in Nat /\ m \in Nat /\ e \in Nat /\ p + m + e = Len(s) - 1

Joined(k, s, p, m, e) == Cut(k, s, 0, p) \o Cut(k, s, p, m) \o Cut(k, s, p + m, e)

JoinedIsList(k, s, p, m, e) ==
    /\ Len(Joined(k, s, p, m, e)) = p + m + e
    /\ \A i \in 1 .. p + m + e : Joined(k, s, p, m, e)[i] = k.val[s[i]]

(* The messages of a list, part after part, are those of the whole list.   *)
LEMMA CutsJoin ==
    ASSUME NEW k, NEW s, NEW p, NEW m, NEW e, ListIs(k, s), Covers(s, p, m, e)
    PROVE  JoinedIsList(k, s, p, m, e)
<1> DEFINE a == Cut(k, s, 0, p)
           b == Cut(k, s, p, m)
           c == Cut(k, s, p + m, e)
           ab == a \o b
<1>0. p \in Nat /\ m \in Nat /\ e \in Nat /\ p + m + e = Len(s) - 1
  BY DEF Covers
<1> USE <1>0
<1>1. /\ a \in Seq(Message) /\ Len(a) = p /\ b \in Seq(Message) /\ Len(b) = m
      /\ c \in Seq(Message) /\ Len(c) = e
  <2>1. Len(s) \in Nat
    BY DEF ListIs
  <2>2. 0 + p <= Len(s) - 1 /\ p + m <= Len(s) - 1 /\ (p + m) + e <= Len(s) - 1 /\ p + m \in Nat
    BY <2>1
  <2> QED BY <2>2, CutIsSeq
<1>2. /\ \A i \in 1 .. p : a[i] = k.val[s[0 + i]]
      /\ \A i \in 1 .. m : b[i] = k.val[s[p + i]]
      /\ \A i \in 1 .. e : c[i] = k.val[s[p + m + i]]
  BY DEF Cut
<1> HIDE DEF a, b, c
<1>3. /\ ab \in Seq(Message) /\ Len(ab) = p + m
      /\ \A i \in 1 .. p + m : ab[i] = k.val[s[i]]
  <2>1. /\ ab \in Seq(Message) /\ Len(ab) = p + m
        /\ \A i \in 1 .. p + m : ab[i] = IF i <= p THEN a[i] ELSE b[i - p]
    <3>1. /\ ab \in Seq(Message) /\ Len(ab) = Len(a) + Len(b)
          /\ \A i \in 1 .. Len(a) + Len(b) : ab[i] = IF i <= Len(a) THEN a[i] ELSE b[i - Len(a)]
      <4>1. a \in Seq(Message) /\ b \in Seq(Message)
        BY <1>1
      <4> QED BY <4>1, Concatenated
    <3>2. Len(a) = p /\ Len(b) = m
      BY <1>1, Zenon
    <3> HIDE DEF ab
    <3> QED BY <3>1, <3>2, Zenon
  <2>2. ASSUME NEW i \in 1 .. p + m PROVE ab[i] = k.val[s[i]]
    <3>1. CASE i <= p
      <4>1. i \in 1 .. p /\ 0 + i = i
        BY <3>1
      <4> HIDE DEF ab
      <4> QED BY <1>2, <2>1, <3>1, <4>1
    <3>2. CASE ~(i <= p)
      <4>1. i - p \in 1 .. m /\ p + (i - p) = i
        BY <3>2
      <4> HIDE DEF ab
      <4>2. ab[i] = b[i - p]
        BY <2>1, <3>2
      <4>3. b[i - p] = k.val[s[p + (i - p)]]
        BY <1>2, <4>1
      <4> QED BY <4>1, <4>2, <4>3
    <3> QED BY <3>1, <3>2
  <2> QED BY <2>1, <2>2
<1> HIDE DEF ab
<1>4. /\ Len(ab \o c) = p + m + e
      /\ \A i \in 1 .. p + m + e : (ab \o c)[i] = k.val[s[i]]
  <2>1. /\ Len(ab \o c) = p + m + e
        /\ \A i \in 1 .. p + m + e : (ab \o c)[i] = IF i <= p + m THEN ab[i] ELSE c[i - (p + m)]
    <3>1. /\ Len(ab \o c) = Len(ab) + Len(c)
          /\ \A i \in 1 .. Len(ab) + Len(c) :
                (ab \o c)[i] = IF i <= Len(ab) THEN ab[i] ELSE c[i - Len(ab)]
      <4>1. ab \in Seq(Message) /\ c \in Seq(Message)
        BY <1>1, <1>3
      <4> QED BY <4>1, Concatenated
    <3>2. Len(ab) = p + m /\ Len(c) = e
      BY <1>1, <1>3, Zenon
    <3> QED BY <3>1, <3>2, Zenon
  <2>2. ASSUME NEW i \in 1 .. p + m + e PROVE (ab \o c)[i] = k.val[s[i]]
    <3>1. CASE i <= p + m
      <4>1. i \in 1 .. p + m
        BY <3>1
      <4> QED BY <1>3, <2>1, <3>1, <4>1
    <3>2. CASE ~(i <= p + m)
      <4>1. i - (p + m) \in 1 .. e /\ p + m + (i - (p + m)) = i
        BY <3>2
      <4>2. (ab \o c)[i] = c[i - (p + m)]
        BY <2>1, <3>2
      <4>3. c[i - (p + m)] = k.val[s[p + m + (i - (p + m))]]
        BY <1>2, <4>1
      <4> QED BY <4>1, <4>2, <4>3
    <3> QED BY <3>1, <3>2
  <2> QED BY <2>1, <2>2
<1> QED
  BY <1>4 DEF ab, a, b, c, Joined, JoinedIsList

(* The steps of the test case.                                             *)
LEMMA Stutters ==
    ASSUME NEW parts, Parts = parts, Parts' = parts, wire' = wire
    PROVE  [Abstract!Next]_(Abstract!vars)
<1>1. Parts' = Parts
  OBVIOUS
<1> QED
  BY <1>1 DEF Abstract!vars

LEMMA Loads ==
    ASSUME NEW k, NEW s, NEW k2, NEW s2, NEW p \in Nat, NEW m \in Nat, NEW e \in Nat,
           Parts = Split(k, s, 0, 0, 0), Parts' = Split(k2, s2, p, m, e), wire' = wire,
           ListIs(k2, s2), p + m + e <= Len(s2) - 1, m >= 1
    PROVE  [Abstract!Next]_(Abstract!vars)
<1>1. Parts.M1 = <<>> /\ Parts.M2 = <<>> /\ Parts.M3 = <<>>
  BY EmptyCut DEF Split
<1>2. Abstract!TestCase = <<>>
  BY <1>1 DEF Abstract!TestCase
<1>3. /\ Parts'.M1 \in Seq(Message) /\ Parts'.M2 \in Seq(Message) /\ Parts'.M3 \in Seq(Message)
      /\ Len(Parts'.M2) = m
  <2>1. Len(s2) \in Nat
    BY DEF ListIs
  <2>2. 0 + p <= Len(s2) - 1 /\ p + m <= Len(s2) - 1 /\ (p + m) + e <= Len(s2) - 1 /\ p + m \in Nat
    BY <2>1
  <2> QED BY <2>2, CutIsSeq DEF Split
<1>4. Parts'.M2 # <<>>
  BY <1>3
<1>5. Abstract!Load
  BY <1>2, <1>3, <1>4 DEF Abstract!Load
<1> QED
  BY <1>5 DEF Abstract!Next

LEMMA Connects ==
    ASSUME NEW parts, Parts = parts, Parts' = parts, wire' = <<>>
    PROVE  [Abstract!Next]_(Abstract!vars)
<1>1. Parts' = Parts
  OBVIOUS
<1>2. Abstract!Connect
  BY <1>1 DEF Abstract!Connect
<1> QED
  BY <1>2 DEF Abstract!Next

(* Steps that leave the list and the pointers alone.                       *)
LEMMA ListKept ==
    ASSUME NEW s, NEW d, NEW p, NEW m, NEW e, Related(s, d, p, m, e),
           UNCHANGED <<listVars, fuzzing>>,
           phase \notin Pushing, phase # "free", phase' \in Pushing => pushed' = 0
    PROVE  /\ Shaped(kl, s, d, p, m, e, Extra)' /\ d = <<>>
           /\ phase' \notin Pushing => Pointed(s, p, m, e)'
<1>1. Extra = 0 /\ Extra' = 0
  BY DEF Extra
<1>2. kl' = kl /\ M2_prev' = M2_prev /\ M2_next' = M2_next /\ fuzzing' = fuzzing
  BY DEF listVars
<1>3. Shaped(kl, s, d, p, m, e, 0) /\ Pointed(s, p, m, e) /\ d = <<>>
  BY <1>1 DEF Related, Phased
<1>4. Shaped(kl, s, d, p, m, e, Extra)'
  BY <1>1, <1>2, <1>3
<1>5. phase' \notin Pushing => Pointed(s, p, m, e)'
  BY <1>2, <1>3 DEF Pointed
<1> QED
  BY <1>3, <1>4, <1>5

(* The seed is no longer read, and its list only executed.                 *)
LEMMA DryRunStep ==
    ASSUME NEW s \in Seq(Nodes), NEW d \in Seq(Nodes), NEW p \in Nat, NEW m \in Nat, NEW e \in Nat,
           Related(s, d, p, m, e), DryRun
    PROVE  Steps
<1>1. /\ phase = "construct" /\ phase' = "connect"
      /\ UNCHANGED <<listVars, fuzzing>> /\ UNCHANGED spliceVars /\ UNCHANGED <<executions, netVars>>
  BY DEF DryRun
<1>2. Typed /\ Phased(d, m) /\ Filled(s, p, m, e) /\ Told(s) /\ Shaped(kl, s, d, p, m, e, Extra)
  BY DEF Related
<1>3. ~fuzzing /\ m >= 1
  BY <1>1, <1>2 DEF Phased
<1>4. Shaped(kl, s, d, p, m, e, Extra)' /\ d = <<>> /\ Pointed(s, p, m, e)'
  BY <1>1, ListKept DEF Pushing
<1>5. Typed'
  BY <1>1, <1>2 DEF Typed, Phases, listVars, spliceVars, netVars
<1>6. Phased(d, m)'
  BY <1>1, <1>3, <1>4 DEF Phased
<1>7. Filled(s, p, m, e)'
  BY <1>1, <1>3 DEF Filled, Pushing
<1>8. Told(s)'
  BY <1>1 DEF Told
<1>9. Related(s, d, p, m, e)'
  BY <1>4, <1>5, <1>6, <1>7, <1>8 DEF Related
<1>10. IInv' /\ Parts' = Split(kl, s, p, m, e)'
  BY <1>1, <1>9, Witnessed DEF Held
<1>11. Parts = Split(kl, s, 0, 0, 0)
  BY <1>1, PartsHere DEF Held
<1>12. ListIs(kl', s) /\ p + m + e <= Len(s) - 1 /\ wire' = wire
  <2>1. ListIs(kl, s) /\ Len(s) = p + m + e + Extra + 1 /\ Extra = 0
    BY <1>1, <1>2 DEF Shaped, Extra, Pushing
  <2> QED BY <1>1, <2>1 DEF listVars, netVars
<1>13. Parts' = Split(kl', s, p, m, e)
  BY <1>10
<1>14. [Abstract!Next]_(Abstract!vars)
  BY <1>3, <1>11, <1>12, <1>13, Loads
<1> QED
  BY <1>10, <1>14 DEF Steps

LEMMA ParseOutBufStep ==
    ASSUME NEW s \in Seq(Nodes), NEW d \in Seq(Nodes), NEW p \in Nat, NEW m \in Nat, NEW e \in Nat,
           Related(s, d, p, m, e), ParseOutBuf
    PROVE  Steps
<1>1. /\ phase = "idle" /\ phase' = "push" /\ pushed' = 0 /\ executions' = executions + 1
      /\ UNCHANGED <<listVars, fuzzing>> /\ UNCHANGED <<cur_it, next_it>> /\ UNCHANGED netVars
      /\ prev_last_message' = Last(NodesOf(kl))
  BY DEF ParseOutBuf
<1>2. Typed /\ Phased(d, m) /\ Pointed(s, p, m, e) /\ Shaped(kl, s, d, p, m, e, Extra)
  BY DEF Related
<1>3. /\ fuzzing /\ m >= 1 /\ Extra = 0 /\ kl \in KlType /\ ListIs(kl, s) /\ Accounted(kl, s, d)
      /\ Len(s) = p + m + e + 1
  <2>1. fuzzing /\ m >= 1
    BY <1>1, <1>2 DEF Phased
  <2>2. Extra = 0
    BY <1>1 DEF Extra, Pushing
  <2> QED BY <1>2, <2>1, <2>2 DEF Shaped
<1>4. Shaped(kl, s, d, p, m, e, Extra)' /\ d = <<>>
  BY <1>1, ListKept DEF Pushing
<1>5. prev_last_message' = s[p + m + e] /\ s[p + m + e] \in Nodes
  <2>1. p + m + e \in 1 .. Len(s) /\ Len(s) > 1 /\ Len(s) - 1 = p + m + e
    BY <1>3
  <2>2. Last(NodesOf(kl)) = s[Len(s) - 1]
    BY <1>3, <2>1, NodesOfList
  <2> QED BY <1>1, <2>1, <2>2
<1>6. out_buf' \in Seq(Nat) /\ Len(out_buf') \in 1 .. MaxMutant
  <2>1. PICK r \in 1 .. MaxMutant :
           out_buf' = [i \in 1 .. r |-> MaxSeedLength + MaxMutant * (executions % 2) + i]
    BY DEF ParseOutBuf
  <2>2. MaxSeedLength + MaxMutant * (executions % 2) \in Nat
    <3>1. executions % 2 \in {0, 1}
      BY <1>2 DEF Typed
    <3>2. MaxMutant * 0 = 0 /\ MaxMutant * 1 = MaxMutant
      BY Numbers
    <3> QED BY <3>1, <3>2, Numbers
  <2> DEFINE from == MaxSeedLength + MaxMutant * (executions % 2)
  <2>3. out_buf' = [i \in 1 .. r |-> from + i]
    BY <2>1
  <2>4. from \in Nat
    BY <2>2
  <2> HIDE DEF from
  <2>5. out_buf' \in [1 .. r -> Nat] /\ r \in Nat
    BY <2>3, <2>4, Numbers
  <2> QED BY <2>5, FunctionIsSeq
<1>7. Typed'
  BY <1>1, <1>2, <1>5, <1>6 DEF Typed, Phases, listVars, netVars
<1>8. Pointed(s, p, m, e)'
  BY <1>1, <1>2, <1>3, <1>5 DEF Pointed, listVars
<1>9. Phased(d, m)'
  BY <1>1, <1>3, <1>4 DEF Phased
<1>10. Filled(s, p, m, e)'
  <2>1. 0 < Pieces(out_buf')
    BY <1>6, Numbers DEF Pieces
  <2>2. Holds(kl', s, p + m + e, 0, out_buf')
    BY DEF Holds
  <2> QED BY <1>1, <1>6, <2>1, <2>2 DEF Filled, Pushing, Executing
<1>11. Told(s)'
  BY <1>1 DEF Told
<1>12. Related(s, d, p, m, e)'
  BY <1>4, <1>7, <1>8, <1>9, <1>10, <1>11 DEF Related
<1>13. IInv' /\ Parts' = Split(kl', s, p, m, e)
  BY <1>1, <1>12, Witnessed DEF Held
<1>14. Parts = Split(kl, s, p, m, e)
  BY <1>1, PartsHere DEF Held
<1>15. kl' = kl /\ wire' = wire
  BY <1>1 DEF listVars, netVars
<1>16. [Abstract!Next]_(Abstract!vars)
  BY <1>13, <1>14, <1>15, Stutters
<1> QED
  BY <1>13, <1>16 DEF Steps

(* The session moves on, and the test case stays what it is.               *)
InSession == {"connect", "send", "handle", "ran"}

LEMMA SessionKept ==
    ASSUME NEW s \in Seq(Nodes), NEW d \in Seq(Nodes), NEW p \in Nat, NEW m \in Nat, NEW e \in Nat,
           Related(s, d, p, m, e), UNCHANGED <<listVars, fuzzing>>, UNCHANGED spliceVars,
           phase \in InSession, phase' \in InSession, Typed', Told(s)'
    PROVE  /\ IInv' /\ kl' = kl
           /\ Parts = Split(kl, s, p, m, e) /\ Parts' = Split(kl, s, p, m, e)
           /\ ListIs(kl, s) /\ Len(s) = p + m + e + 1
<1>1. Phased(d, m) /\ Filled(s, p, m, e) /\ Shaped(kl, s, d, p, m, e, Extra)
  BY DEF Related
<1>2. kl' = kl /\ M2_next' = M2_next /\ fuzzing' = fuzzing /\ out_buf' = out_buf /\ pushed' = pushed
  BY DEF listVars, spliceVars
<1>3. Shaped(kl, s, d, p, m, e, Extra)' /\ d = <<>> /\ Pointed(s, p, m, e)'
  BY ListKept DEF InSession, Pushing
<1>4. Phased(d, m)'
  BY <1>1, <1>2, <1>3 DEF Phased, InSession
<1>5. Filled(s, p, m, e)'
  <2>1. phase \in Executing /\ phase \notin Pushing /\ phase' \in Executing /\ phase' \notin Pushing
    BY DEF InSession, Executing, Pushing
  <2> QED BY <1>1, <1>2, <2>1 DEF Filled
<1>6. Related(s, d, p, m, e)'
  BY <1>3, <1>4, <1>5 DEF Related
<1>7. IInv' /\ Parts' = Split(kl', s, p, m, e)
  BY <1>6, Witnessed DEF Held, InSession
<1>8. Parts = Split(kl, s, p, m, e)
  BY PartsHere DEF Held, InSession
<1>9. ListIs(kl, s) /\ Len(s) = p + m + e + 1
  <2>1. Extra = 0
    BY DEF Extra, InSession, Pushing
  <2> QED BY <1>1, <2>1 DEF Shaped
<1> QED
  BY <1>2, <1>7, <1>8, <1>9

LEMMA ConnectStep ==
    ASSUME NEW s \in Seq(Nodes), NEW d \in Seq(Nodes), NEW p \in Nat, NEW m \in Nat, NEW e \in Nat,
           Related(s, d, p, m, e), Connect
    PROVE  Steps
<1>1. /\ phase = "connect" /\ phase' \in {"ran", "handle", "send"}
      /\ UNCHANGED <<listVars, fuzzing>> /\ UNCHANGED spliceVars /\ executions' = executions
      /\ wire' = <<>> /\ response_bytes' = <<>> /\ response_buf_size' \in Nat
      /\ \/ it' = it /\ messages_sent' = messages_sent /\ phase' # "send"
         \/ it' = kl.head /\ messages_sent' = 0 /\ phase' = "send"
  BY DEF Connect, Received, None
<1>2. Typed /\ Shaped(kl, s, d, p, m, e, Extra) /\ Phased(d, m)
  BY DEF Related
<1>3. /\ kl \in KlType /\ kl' = kl /\ s[1] = kl.head /\ Len(s) \in Nat /\ Len(s) >= 1
      /\ kl.head \in Nodes
  BY <1>1, <1>2 DEF Shaped, ListIs, KlType, listVars
<1>4. Typed'
  BY <1>1, <1>2, <1>3 DEF Typed, Phases, listVars, spliceVars
<1>5. Told(s)'
  <2>1. Len(<<>>) = 0 /\ 0 + 1 = 1
    OBVIOUS
  <2>2. CASE phase' = "send"
    <3>1. Sent(kl', s, wire') /\ messages_sent' = Len(wire') /\ Len(response_bytes') = Len(wire')
      BY <1>1, <1>3, <2>1, <2>2 DEF Sent
    <3>2. it' = s[Len(wire') + 1]
      BY <1>1, <1>3, <2>1, <2>2
    <3>3. Growing(response_bytes', Len(response_bytes'), response_buf_size')
      BY <1>1, <2>1 DEF Growing
    <3> QED BY <2>2, <3>1, <3>2, <3>3 DEF Told
  <2>3. CASE phase' # "send"
    BY <1>1, <2>3 DEF Told, None
  <2> QED BY <2>2, <2>3
<1>6. IInv' /\ Parts' = Parts
  BY <1>1, <1>4, <1>5, SessionKept DEF InSession
<1>7. [Abstract!Next]_(Abstract!vars)
  BY <1>1, <1>6, Connects
<1> QED
  BY <1>6, <1>7 DEF Steps

LEMMA AllSentStep ==
    ASSUME NEW s \in Seq(Nodes), NEW d \in Seq(Nodes), NEW p \in Nat, NEW m \in Nat, NEW e \in Nat,
           Related(s, d, p, m, e), AllSent
    PROVE  Steps
<1>1. /\ phase = "send" /\ phase' = "handle"
      /\ UNCHANGED <<listVars, fuzzing>> /\ UNCHANGED spliceVars /\ executions' = executions
      /\ wire' = wire /\ it' = it /\ messages_sent' = messages_sent
      /\ response_buf_size' = response_buf_size /\ response_bytes' = response_bytes
  BY DEF AllSent, netVars
<1>2. Typed /\ Told(s)
  BY DEF Related
<1>3. kl' = kl
  BY <1>1 DEF listVars
<1>4. Typed'
  BY <1>1, <1>2 DEF Typed, Phases, listVars, spliceVars
<1>5. Told(s)'
  <2>1. /\ Sent(kl, s, wire) /\ messages_sent = Len(wire) /\ Len(response_bytes) = Len(wire)
        /\ Growing(response_bytes, Len(response_bytes), response_buf_size)
    BY <1>1, <1>2 DEF Told
  <2>2. Growing(response_bytes, Len(response_bytes) - 1, response_buf_size)
    <3>1. Len(response_bytes) \in Nat
      BY <1>2 DEF Typed
    <3> QED BY <2>1, <3>1 DEF Growing
  <2> QED BY <1>1, <1>3, <2>1, <2>2 DEF Told
<1>6. IInv' /\ Parts' = Parts
  BY <1>1, <1>4, <1>5, SessionKept DEF InSession
<1>7. [Abstract!Next]_(Abstract!vars)
  BY <1>1, <1>6, Stutters
<1> QED
  BY <1>6, <1>7 DEF Steps

LEMMA HandleResponsesStep ==
    ASSUME NEW s \in Seq(Nodes), NEW d \in Seq(Nodes), NEW p \in Nat, NEW m \in Nat, NEW e \in Nat,
           Related(s, d, p, m, e), HandleResponses
    PROVE  Steps
<1>1. PICK n \in Received :
          /\ response_buf_size' = response_buf_size + n
          /\ response_bytes' = IF messages_sent > 0 /\ response_bytes # None
                               THEN [response_bytes EXCEPT ![messages_sent] = response_buf_size']
                               ELSE response_bytes
  BY DEF HandleResponses
<1>2. /\ phase = "handle" /\ phase' = "ran"
      /\ UNCHANGED <<listVars, fuzzing>> /\ UNCHANGED spliceVars /\ executions' = executions
      /\ wire' = wire /\ it' = it /\ messages_sent' = messages_sent
  BY DEF HandleResponses
<1>3. Typed /\ Told(s)
  BY DEF Related
<1>4. /\ kl' = kl /\ response_bytes \in Seq(Nat \cup {Unset}) /\ messages_sent \in Nat
      /\ response_buf_size \in Nat /\ response_buf_size' \in Nat
      /\ response_buf_size <= response_buf_size'
  BY <1>1, <1>2, <1>3 DEF listVars, Typed, Received
<1> DEFINE l == Len(response_bytes)
           size == response_buf_size'
           bytes == response_bytes'
<1>5. ASSUME response_bytes # None
      PROVE  /\ Sent(kl, s, wire) /\ messages_sent = Len(wire) /\ l = Len(wire)
             /\ Growing(response_bytes, l - 1, response_buf_size)
             /\ l >= 1 /\ bytes = [response_bytes EXCEPT ![l] = size]
             /\ bytes \in Seq(Nat \cup {Unset}) /\ Len(bytes) = l
             /\ bytes[l] = size /\ \A i \in 1 .. l - 1 : bytes[i] = response_bytes[i]
  <2>1. /\ Sent(kl, s, wire) /\ messages_sent = Len(wire) /\ l = Len(wire)
        /\ Growing(response_bytes, l - 1, response_buf_size)
    BY <1>2, <1>3, <1>5 DEF Told
  <2>2. l \in Nat /\ l >= 1
    BY <1>4, <1>5 DEF None
  <2>3. bytes = [response_bytes EXCEPT ![l] = size]
    BY <1>1, <1>5, <2>1, <2>2
  <2>4. /\ [response_bytes EXCEPT ![l] = size] \in Seq(Nat \cup {Unset})
        /\ Len([response_bytes EXCEPT ![l] = size]) = l
        /\ [response_bytes EXCEPT ![l] = size][l] = size
        /\ \A i \in 1 .. l - 1 : [response_bytes EXCEPT ![l] = size][i] = response_bytes[i]
    BY <1>4, <2>2
  <2> HIDE DEF bytes, size, l
  <2> QED BY <2>1, <2>2, <2>3, <2>4
<1>6. bytes \in Seq(Nat \cup {Unset})
  <2>1. CASE response_bytes # None
    BY <1>5, <2>1
  <2>2. CASE response_bytes = None
    BY <1>1, <1>4, <2>2
  <2> QED BY <2>1, <2>2
<1>7. Typed'
  BY <1>2, <1>3, <1>4, <1>6 DEF Typed, Phases, listVars, spliceVars
<1>8. Told(s)'
  <2>1. CASE response_bytes = None
    <3>1. bytes = None
      BY <1>1, <2>1
    <3> QED BY <1>2, <3>1 DEF Told
  <2>2. CASE response_bytes # None
    <3>1. /\ Sent(kl', s, wire') /\ messages_sent' = Len(wire') /\ Len(bytes) = Len(wire')
          /\ bytes[Len(bytes)] = size
      BY <1>2, <1>4, <1>5, <2>2
    <3>2. Growing(bytes, Len(bytes), size)
      <4> HIDE DEF bytes, size, l
      <4>1. /\ l \in Nat /\ l >= 1 /\ bytes[l] = size /\ Len(bytes) = l
            /\ \A i \in 1 .. l - 1 : bytes[i] = response_bytes[i]
        BY <1>4, <1>5, <2>2 DEF l
      <4>2. \A i \in 1 .. l - 1 : /\ response_bytes[i] \in Nat /\ response_bytes[i] <= response_buf_size
                                  /\ i > 1 => response_bytes[i - 1] <= response_bytes[i]
        BY <1>5, <2>2 DEF Growing
      <4>3. size \in Nat /\ response_buf_size \in Nat /\ response_buf_size <= size
        BY <1>4 DEF size
      <4>4. ASSUME NEW i \in 1 .. l
            PROVE  bytes[i] \in Nat /\ bytes[i] <= size /\ (i > 1 => bytes[i - 1] <= bytes[i])
        <5>1. CASE i = l
          <6>1. l > 1 => l - 1 \in 1 .. l - 1
            BY <4>1
          <6>2. l > 1 => bytes[l - 1] \in Nat /\ bytes[l - 1] <= response_buf_size
            BY <4>1, <4>2, <6>1
          <6>3. l > 1 => bytes[l - 1] <= size
            BY <4>3, <6>2
          <6> QED BY <4>1, <4>3, <5>1, <6>3
        <5>2. CASE i # l
          <6>1. i \in 1 .. l - 1 /\ (i > 1 => i - 1 \in 1 .. l - 1)
            BY <4>1, <5>2
          <6>2. /\ response_bytes[i] \in Nat /\ response_bytes[i] <= response_buf_size
                /\ bytes[i] = response_bytes[i]
            BY <4>1, <4>2, <6>1
          <6>3. i > 1 => bytes[i - 1] = response_bytes[i - 1] /\ response_bytes[i - 1] <= response_bytes[i]
            BY <4>1, <4>2, <6>1
          <6>4. bytes[i] <= size
            BY <4>3, <6>2
          <6> QED BY <6>2, <6>3, <6>4
        <5> QED BY <5>1, <5>2
      <4> QED BY <4>1, <4>4 DEF Growing
    <3> QED BY <1>2, <3>1, <3>2 DEF Told
  <2> QED BY <2>1, <2>2
<1>9. IInv' /\ Parts' = Parts
  BY <1>2, <1>7, <1>8, SessionKept DEF InSession
<1>10. [Abstract!Next]_(Abstract!vars)
  BY <1>2, <1>9, Stutters
<1> QED
  BY <1>9, <1>10 DEF Steps

(* What is sent is the next message of the test case.                      *)
LEMMA SendCounts ==
    ASSUME NEW s \in Seq(Nodes), NEW d \in Seq(Nodes), NEW p \in Nat, NEW m \in Nat, NEW e \in Nat,
           Related(s, d, p, m, e), phase = "send", it # kl.tail,
           wire' = Append(wire, kl.val[it]), UNCHANGED <<listVars, fuzzing>>, UNCHANGED spliceVars,
           phase' \in InSession, Typed', Told(s)'
    PROVE  Steps
<1>1. /\ IInv' /\ kl' = kl /\ ListIs(kl, s) /\ Len(s) = p + m + e + 1
      /\ Parts = Split(kl, s, p, m, e) /\ Parts' = Split(kl, s, p, m, e)
  BY SessionKept DEF InSession
<1>2. Sent(kl, s, wire) /\ it = s[Len(wire) + 1] /\ wire \in Seq(Message)
  BY DEF Related, Told, Typed
<1> DEFINE w == Len(wire)
<1>3. w \in Nat /\ w + 1 \in 1 .. p + m + e
  <2>1. w \in Nat /\ w < Len(s) /\ s[Len(s)] = kl.tail
    BY <1>1, <1>2 DEF Sent, ListIs
  <2>2. w + 1 # Len(s)
    BY <1>2, <2>1
  <2> HIDE DEF w
  <2> QED BY <1>1, <2>1, <2>2
<1>4. Abstract!TestCase = Joined(kl, s, p, m, e)
  BY <1>1 DEF Abstract!TestCase, Split, Joined
<1>5. Len(Abstract!TestCase) = p + m + e /\ Abstract!TestCase[w + 1] = kl.val[s[w + 1]]
  <2>1. p + m + e = Len(s) - 1
    BY <1>1
  <2>2. /\ Len(Joined(kl, s, p, m, e)) = p + m + e
        /\ \A i \in 1 .. p + m + e : Joined(kl, s, p, m, e)[i] = kl.val[s[i]]
    <3>1. ListIs(kl, s)
      BY <1>1
    <3>2. Covers(s, p, m, e)
      BY <2>1 DEF Covers
    <3>3. JoinedIsList(kl, s, p, m, e)
      BY <3>1, <3>2, CutsJoin, Zenon
    <3> QED BY <3>3 DEF JoinedIsList
  <2> HIDE DEF w
  <2> QED BY <1>3, <1>4, <2>2
<1>6. Abstract!Send
  <2>1. Len(wire) < Len(Abstract!TestCase)
    BY <1>3, <1>5
  <2>2. wire' = Append(wire, Abstract!TestCase[Len(wire) + 1])
    BY <1>2, <1>5
  <2> QED BY <1>1, <2>1, <2>2 DEF Abstract!Send
<1> QED
  BY <1>1, <1>6 DEF Steps, Abstract!Next

(* The next message of the test case is sent, and its answer measured.     *)
LEMMA SendMessageStep ==
    ASSUME NEW s \in Seq(Nodes), NEW d \in Seq(Nodes), NEW p \in Nat, NEW m \in Nat, NEW e \in Nat,
           Related(s, d, p, m, e), SendMessage
    PROVE  Steps
<1>1. PICK n \in Received, ok \in BOOLEAN :
          /\ response_buf_size' = response_buf_size + n
          /\ messages_sent' = messages_sent + 1
          /\ response_bytes' = Append(response_bytes, IF ok THEN response_buf_size' ELSE Unset)
          /\ IF ok THEN it' = kl.next[it] /\ phase' = "send" ELSE phase' = "handle" /\ it' = it
  BY DEF SendMessage, Counted
<1>2. /\ phase = "send" /\ it # kl.tail /\ wire' = Append(wire, kl.val[it])
      /\ UNCHANGED <<listVars, fuzzing>> /\ UNCHANGED spliceVars /\ executions' = executions
  BY DEF SendMessage
<1>3. Typed /\ Shaped(kl, s, d, p, m, e, Extra)
  BY DEF Related
<1>4. /\ Sent(kl, s, wire) /\ messages_sent = Len(wire) /\ Len(response_bytes) = Len(wire)
      /\ it = s[Len(wire) + 1]
      /\ Growing(response_bytes, Len(response_bytes), response_buf_size)
  BY <1>2 DEF Related, Told
<1> DEFINE w == Len(wire)
           size == response_buf_size'
           bytes == response_bytes'
<1>5. /\ kl \in KlType /\ ListIs(kl, s) /\ kl' = kl /\ w \in Nat /\ wire \in Seq(Message)
      /\ Len(s) \in Nat /\ s \in Seq(Nodes) /\ s[Len(s)] = kl.tail
      /\ response_bytes \in Seq(Nat \cup {Unset}) /\ response_buf_size \in Nat
      /\ size \in Nat /\ response_buf_size <= size
  BY <1>1, <1>2, <1>3 DEF Typed, Shaped, ListIs, listVars, Received
<1>6. w + 1 \in 1 .. Len(s) - 1
  <2>1. w < Len(s)
    BY <1>4 DEF Sent
  <2>2. w + 1 # Len(s)
    BY <1>2, <1>4, <1>5
  <2> HIDE DEF w
  <2> QED BY <1>5, <2>1, <2>2
<1>7. kl.next[it] = s[w + 2] /\ kl.val[it] \in Message /\ s[w + 2] \in Nodes /\ it \in Nodes
  <2>1. kl.next[s[w + 1]] = s[(w + 1) + 1] /\ kl.val[s[w + 1]] \in Message
    BY <1>5, <1>6 DEF ListIs
  <2>2. (w + 1) + 1 = w + 2 /\ w + 2 \in 1 .. Len(s) /\ w + 1 \in 1 .. Len(s)
    BY <1>5, <1>6
  <2> QED BY <1>4, <1>5, <2>1, <2>2
<1>8. /\ wire' \in Seq(Message) /\ Len(wire') = w + 1 /\ wire'[w + 1] = kl.val[s[w + 1]]
      /\ \A i \in 1 .. w : wire'[i] = wire[i]
  <2>1. \A x \in Message : /\ Append(wire, x) \in Seq(Message) /\ Len(Append(wire, x)) = w + 1
                           /\ Append(wire, x)[w + 1] = x
                           /\ \A i \in 1 .. w : Append(wire, x)[i] = wire[i]
    BY <1>5
  <2>2. it = s[w + 1]
    BY <1>4
  <2> HIDE DEF w
  <2> QED BY <1>2, <1>7, <2>1, <2>2
<1>9. /\ bytes \in Seq(Nat \cup {Unset}) /\ Len(bytes) = w + 1 /\ bytes[w + 1] = (IF ok THEN size ELSE Unset)
      /\ \A i \in 1 .. w : bytes[i] = response_bytes[i]
  <2>1. \A x \in Nat \cup {Unset} :
           /\ Append(response_bytes, x) \in Seq(Nat \cup {Unset})
           /\ Len(Append(response_bytes, x)) = w + 1
           /\ Append(response_bytes, x)[w + 1] = x
           /\ \A i \in 1 .. w : Append(response_bytes, x)[i] = response_bytes[i]
    BY <1>4, <1>5
  <2>2. (IF ok THEN size ELSE Unset) \in Nat \cup {Unset}
    BY <1>5
  <2>3. bytes = Append(response_bytes, IF ok THEN size ELSE Unset)
    BY <1>1
  <2> HIDE DEF bytes, size, w
  <2> QED BY <2>1, <2>2, <2>3
<1>10. phase' \in {"send", "handle"} /\ it' \in Nodes \cup {NULL}
  BY <1>1, <1>7
<1>11. messages_sent' = w + 1
  BY <1>1, <1>4
<1>12. Typed'
  BY <1>2, <1>3, <1>5, <1>8, <1>9, <1>10, <1>11 DEF Typed, Phases, listVars, spliceVars
<1> HIDE DEF w, size, bytes
<1>13. Sent(kl', s, wire')
  <2>1. \A i \in 1 .. w : wire'[i] = kl.val[s[i]]
    BY <1>4, <1>8 DEF Sent, w
  <2>2. \A i \in 1 .. w + 1 : i \in 1 .. w \/ i = w + 1
    BY <1>5
  <2>3. w + 1 < Len(s)
    BY <1>5, <1>6
  <2> QED BY <1>5, <1>8, <2>1, <2>2, <2>3 DEF Sent
<1>14. Growing(bytes, w, size)
  <2>1. \A i \in 1 .. w : /\ response_bytes[i] \in Nat /\ response_bytes[i] <= response_buf_size
                          /\ i > 1 => response_bytes[i - 1] <= response_bytes[i]
    BY <1>4 DEF Growing, w
  <2>2. ASSUME NEW i \in 1 .. w
        PROVE  bytes[i] \in Nat /\ bytes[i] <= size /\ (i > 1 => bytes[i - 1] <= bytes[i])
    <3>1. i > 1 => i - 1 \in 1 .. w
      BY <1>5
    <3>2. bytes[i] = response_bytes[i] /\ (i > 1 => bytes[i - 1] = response_bytes[i - 1])
      BY <1>9, <3>1
    <3>3. \A a, b, c \in Nat : a <= b /\ b <= c => a <= c
      OBVIOUS
    <3>4. response_buf_size \in Nat /\ size \in Nat /\ response_buf_size <= size
      BY <1>5
    <3>5. bytes[i] \in Nat /\ bytes[i] <= size
      BY <2>1, <3>2, <3>3, <3>4, Zenon
    <3> QED BY <2>1, <3>2, <3>5, Zenon
  <2> QED BY <2>2 DEF Growing
<1>15. CASE ok
  <2>1. phase' = "send" /\ it' = s[w + 2] /\ bytes[w + 1] = size
    BY <1>1, <1>7, <1>9, <1>15
  <2>2. Growing(bytes, w + 1, size)
    <3>1. ASSUME NEW i \in 1 .. w + 1
          PROVE  bytes[i] \in Nat /\ bytes[i] <= size /\ (i > 1 => bytes[i - 1] <= bytes[i])
      <4>1. CASE i = w + 1
        <5>1. w >= 1 => bytes[w] <= size
          <6>1. w >= 1 => w \in 1 .. w
            BY <1>5
          <6> QED BY <1>14, <6>1 DEF Growing
        <5>2. i - 1 = w
          BY <1>5, <4>1
        <5> QED BY <1>5, <2>1, <4>1, <5>1, <5>2
      <4>2. CASE i # w + 1
        <5>1. i \in 1 .. w
          BY <1>5, <4>2
        <5> QED BY <1>14, <5>1 DEF Growing
      <4> QED BY <4>1, <4>2
    <3> QED BY <3>1 DEF Growing
  <2>3. w + 2 = (w + 1) + 1
    BY <1>5
  <2>4. Len(wire') + 1 = w + 2 /\ Len(response_bytes') = w + 1 /\ messages_sent' = Len(wire')
        /\ Len(response_bytes') = Len(wire')
    BY <1>8, <1>9, <1>11, <2>3 DEF bytes
  <2>5. Growing(response_bytes', Len(response_bytes'), response_buf_size')
    BY <2>2, <2>4 DEF bytes, size
  <2>6. Told(s)'
    BY <1>13, <2>1, <2>4, <2>5 DEF Told
  <2> QED BY <1>2, <1>10, <1>12, <2>6, SendCounts DEF InSession
<1>16. CASE ~ok
  <2>1. phase' = "handle"
    BY <1>1, <1>16
  <2>2. (w + 1) - 1 = w
    BY <1>5
  <2>3. Len(response_bytes') - 1 = w /\ messages_sent' = Len(wire')
        /\ Len(response_bytes') = Len(wire')
    BY <1>8, <1>9, <1>11, <2>2 DEF bytes
  <2>4. Growing(response_bytes', Len(response_bytes') - 1, response_buf_size')
    BY <1>14, <2>3 DEF bytes, size
  <2>5. Told(s)'
    BY <1>13, <2>1, <2>3, <2>4 DEF Told
  <2> QED BY <1>2, <1>10, <1>12, <2>5, SendCounts DEF InSession
<1> QED
  BY <1>15, <1>16

(* The end of an execution, and of a test case.                            *)
LEMMA UninterestingStep ==
    ASSUME NEW s \in Seq(Nodes), NEW d \in Seq(Nodes), NEW p \in Nat, NEW m \in Nat, NEW e \in Nat,
           Related(s, d, p, m, e), Uninteresting
    PROVE  Steps
<1>1. /\ phase = "ran" /\ fuzzing /\ phase' = "idle" /\ UNCHANGED <<listVars, fuzzing>>
      /\ executions' = executions /\ wire' = <<>>
      /\ out_buf' = <<>> /\ pushed' = 0 /\ prev_last_message' = NULL
      /\ cur_it' = NULL /\ next_it' = NULL /\ it' = NULL
      /\ messages_sent' = messages_sent /\ response_buf_size' = response_buf_size
      /\ response_bytes' = response_bytes
  BY DEF Uninteresting, Returned
<1>2. Typed /\ Phased(d, m)
  BY DEF Related
<1>3. Shaped(kl, s, d, p, m, e, Extra)' /\ d = <<>> /\ Pointed(s, p, m, e)'
  BY <1>1, ListKept DEF Pushing
<1>4. Typed'
  BY <1>1, <1>2 DEF Typed, Phases, listVars
<1>5. Phased(d, m)'
  BY <1>1, <1>2, <1>3 DEF Phased
<1>6. Filled(s, p, m, e)'
  BY <1>1 DEF Filled, Pushing, Executing
<1>7. Told(s)'
  BY <1>1 DEF Told
<1>8. Related(s, d, p, m, e)'
  BY <1>3, <1>4, <1>5, <1>6, <1>7 DEF Related
<1>9. IInv' /\ Parts' = Split(kl', s, p, m, e)
  BY <1>1, <1>8, Witnessed DEF Held
<1>10. Parts = Split(kl, s, p, m, e) /\ kl' = kl
  BY <1>1, PartsHere DEF Held, listVars
<1>11. [Abstract!Next]_(Abstract!vars)
  BY <1>1, <1>9, <1>10, Connects
<1> QED
  BY <1>9, <1>11 DEF Steps

LEMMA CalibrateStep ==
    ASSUME NEW s \in Seq(Nodes), NEW d \in Seq(Nodes), NEW p \in Nat, NEW m \in Nat, NEW e \in Nat,
           Related(s, d, p, m, e), Calibrate
    PROVE  Steps
<1>1. /\ phase = "ran" /\ phase' = "connect" /\ executions' = executions + 1
      /\ UNCHANGED <<listVars, fuzzing>> /\ UNCHANGED spliceVars /\ UNCHANGED netVars
  BY DEF Calibrate
<1>2. Typed
  BY DEF Related
<1>3. Typed'
  BY <1>1, <1>2 DEF Typed, Phases, listVars, spliceVars, netVars
<1>4. Told(s)'
  BY <1>1 DEF Told
<1>5. IInv' /\ Parts' = Parts
  BY <1>1, <1>3, <1>4, SessionKept DEF InSession
<1>6. wire' = wire
  BY <1>1 DEF netVars
<1> QED
  BY <1>5, <1>6, Stutters DEF Steps

(* A list without messages.                                                *)
LEMMA EmptyList ==
    /\ Shaped(Kl, <<0>>, <<>>, 0, 0, 0, 0) /\ <<0>> \in Seq(Nodes) /\ <<>> \in Seq(Nodes)
<1>1. 0 \in Nodes
  BY Numbers DEF Nodes
<1>2. Len(<<0>>) = 0 + 0 + 0 + 0 + 1 /\ 0 + 0 = 0
  OBVIOUS
<1>3. 0 + 0 <= MaxSeedLength /\ 0 + 0 + 0 <= MaxSeedLength + MaxMutant
  BY Numbers
<1> QED
  BY <1>1, <1>2, <1>3, KlIsList DEF Shaped, Lengths

LEMMA DeleteStep ==
    ASSUME NEW s \in Seq(Nodes), NEW d \in Seq(Nodes), NEW p \in Nat, NEW m \in Nat, NEW e \in Nat,
           Related(s, d, p, m, e), Delete
    PROVE  Steps
<1>1. /\ phase' = "none" /\ kl' = Kl /\ M2_prev' = NULL /\ M2_next' = NULL
      /\ fuzzing' = FALSE /\ executions' = 0 /\ wire' = <<>>
      /\ out_buf' = <<>> /\ pushed' = 0 /\ prev_last_message' = NULL
      /\ cur_it' = NULL /\ next_it' = NULL /\ it' = NULL
      /\ messages_sent' = messages_sent /\ response_buf_size' = response_buf_size
      /\ response_bytes' = response_bytes
  BY DEF Delete, Returned
<1>2. Typed
  BY DEF Related
<1>3. Typed'
  <2>1. FALSE \in BOOLEAN /\ <<>> \in Seq(Nat) /\ <<>> \in Seq(Message)
    OBVIOUS
  <2>2. fuzzing' \in BOOLEAN /\ out_buf' \in Seq(Nat) /\ wire' \in Seq(Message)
    BY <1>1, <2>1, Zenon
  <2> QED BY <1>1, <1>2, <2>2 DEF Typed, Phases
<1>4. Shaped(kl, <<0>>, <<>>, 0, 0, 0, Extra)'
  <2>1. Extra' = 0
    BY <1>1 DEF Extra
  <2> QED BY <1>1, <2>1, EmptyList
<1>5. Pointed(<<0>>, 0, 0, 0)'
  BY <1>1 DEF Pointed, Pushing
<1>6. Phased(<<>>, 0)'
  BY <1>1 DEF Phased
<1>7. Filled(<<0>>, 0, 0, 0)'
  BY <1>1 DEF Filled, Pushing, Executing
<1>8. Told(<<0>>)'
  BY <1>1 DEF Told
<1>9. Related(<<0>>, <<>>, 0, 0, 0)'
  BY <1>3, <1>4, <1>5, <1>6, <1>7, <1>8 DEF Related
<1>10. IInv' /\ Parts' = Split(kl', <<0>>, 0, 0, 0)
  <2>1. PICK v, z, c : v = <<0>> /\ z = 0 /\ c = <<>>
    OBVIOUS
  <2>2. Related(v, c, z, z, z)'
    BY <1>9, <2>1
  <2>3. v \in Seq(Nodes) /\ c \in Seq(Nodes) /\ z \in Nat
    BY <2>1, EmptyList
  <2>4. IInv' /\ Parts' = Held(v, z, z, z)'
    BY <2>2, <2>3, Witnessed
  <2> QED BY <1>1, <2>1, <2>4 DEF Held
<1>11. Abstract!Unload
  <2>1. Parts'.M1 = <<>> /\ Parts'.M2 = <<>> /\ Parts'.M3 = <<>>
    BY <1>10, EmptyCut DEF Split
  <2> QED BY <1>1, <2>1 DEF Abstract!Unload
<1> QED
  BY <1>10, <1>11 DEF Steps, Abstract!Next

(* The seed is read, one message after the other.                          *)
LEMMA ConstructStep ==
    ASSUME NEW s \in Seq(Nodes), NEW d \in Seq(Nodes), NEW p \in Nat, NEW m \in Nat, NEW e \in Nat,
           Related(s, d, p, m, e), Construct
    PROVE  Steps
<1>1. /\ phase \in {"none", "construct"} /\ kl.size < MaxSeedLength
      /\ kl' = Pushp(kl, <<kl.size + 1>>) /\ phase' = "construct"
      /\ UNCHANGED <<M2_prev, M2_next, fuzzing>> /\ UNCHANGED spliceVars
      /\ UNCHANGED <<executions, netVars>>
  BY DEF Construct
<1>2. Typed /\ Pointed(s, p, m, e) /\ Phased(d, m) /\ Shaped(kl, s, d, p, m, e, Extra)
  BY DEF Related
<1>3. /\ ~fuzzing /\ d = <<>> /\ p = 0 /\ e = 0 /\ Extra = 0
      /\ M2_prev = NULL /\ M2_next = NULL
  BY <1>1, <1>2 DEF Phased, Pointed, Extra, Pushing
<1>4. /\ kl \in KlType /\ ListIs(kl, s) /\ Accounted(kl, s, <<>>) /\ Len(s) = m + 1 /\ m = kl.size
      /\ m < MaxSeedLength
  <2>1. kl \in KlType /\ ListIs(kl, s) /\ Accounted(kl, s, <<>>) /\ Len(s) = 0 + m + 0 + 0 + 1
    BY <1>2, <1>3 DEF Shaped
  <2>2. Len(<<>>) = 0
    OBVIOUS
  <2>3. kl.size = Len(s) + 0 - 1
    BY <2>1, <2>2 DEF Accounted
  <2>4. 0 + m + 0 + 0 + 1 = m + 1 /\ (m + 1) + 0 - 1 = m
    OBVIOUS
  <2> QED BY <1>1, <2>1, <2>3, <2>4
<1> DEFINE message == <<kl.size + 1>>
           t == Append(s, Alloc(kl))
<1>5. message \in Message /\ Len(s) < MaxNodes
  <2>1. m + 1 \in Nat /\ m + 1 < MaxNodes
    BY <1>4, Numbers
  <2> QED BY <1>4, <2>1 DEF Message
<1>6. kl' \in KlType /\ ListIs(kl', t) /\ Accounted(kl', t, <<>>)
  <2> HIDE DEF message
  <2> QED BY <1>1, <1>4, <1>5, PushExtends DEF message
<1>7. PICK u : u = t
  OBVIOUS
<1>8. /\ ListIs(kl', u) /\ Accounted(kl', u, <<>>) /\ u \in Seq(Nodes) /\ Len(u) = m + 2
  <2>1. ListIs(kl', u) /\ Accounted(kl', u, <<>>) /\ u \in Seq(Nodes)
    BY <1>6, <1>7 DEF ListIs
  <2>2. Len(u) = Len(s) + 1
    BY <1>7
  <2> QED BY <1>4, <2>1, <2>2
<1> HIDE DEF t, message
<1>9. Shaped(kl, u, <<>>, 0, m + 1, 0, Extra)'
  <2>1. Extra' = 0 /\ <<>> \in Seq(Nodes)
    BY <1>1 DEF Extra, Pushing
  <2>2. /\ Lengths(0, m + 1, 0, 0) /\ Len(u) = 0 + (m + 1) + 0 + 0 + 1
        /\ 0 + 0 <= MaxSeedLength /\ 0 + (m + 1) + 0 <= MaxSeedLength + MaxMutant
    BY <1>4, <1>8, Numbers, SMTT(30) DEF Lengths
  <2> QED BY <1>6, <1>8, <2>1, <2>2 DEF Shaped
<1>10. Typed'
  BY <1>1, <1>2 DEF Typed, Phases, spliceVars, netVars
<1>11. Pointed(u, 0, m + 1, 0)'
  BY <1>1, <1>3 DEF Pointed, Pushing
<1>12. Phased(<<>>, m + 1)'
  <2>1. m + 1 >= 1 /\ m + 1 <= MaxSeedLength
    BY <1>4, Numbers
  <2> QED BY <1>1, <1>3, <2>1 DEF Phased
<1>13. Filled(u, 0, m + 1, 0)'
  BY <1>1 DEF Filled, Pushing, Executing
<1>14. Told(u)'
  BY <1>1 DEF Told
<1>15. Related(u, <<>>, 0, m + 1, 0)'
  BY <1>9, <1>10, <1>11, <1>12, <1>13, <1>14 DEF Related
<1>16. IInv' /\ Parts' = Split(kl', u, 0, 0, 0)
  <2>1. <<>> \in Seq(Nodes) /\ m + 1 \in Nat /\ 0 \in Nat
    OBVIOUS
  <2>2. IInv' /\ Parts' = Held(u, 0, m + 1, 0)'
    <3>1. PICK v, z, c : v = m + 1 /\ z = 0 /\ c = <<>>
      OBVIOUS
    <3>2. Related(u, c, z, v, z)'
      BY <1>15, <3>1
    <3>3. u \in Seq(Nodes) /\ c \in Seq(Nodes) /\ z \in Nat /\ v \in Nat
      BY <1>8, <2>1, <3>1
    <3>4. IInv' /\ Parts' = Held(u, z, v, z)'
      BY <3>2, <3>3, Witnessed
    <3> QED BY <3>1, <3>4
  <2> QED BY <1>1, <2>2 DEF Held
<1>17. Parts' = [M1 |-> <<>>, M2 |-> <<>>, M3 |-> <<>>]
  BY <1>16, EmptyCut DEF Split
<1>18. Parts = [M1 |-> <<>>, M2 |-> <<>>, M3 |-> <<>>]
  <2>1. Parts = Split(kl, s, 0, 0, 0)
    <3>1. CASE phase = "construct"
      BY <3>1, PartsHere DEF Held
    <3>2. CASE phase = "none"
      <4>1. m = 0
        BY <1>2, <3>2 DEF Phased
      <4> QED BY <1>3, <3>2, <4>1, PartsHere DEF Held
    <3> QED BY <1>1, <3>1, <3>2
  <2> QED BY <2>1, EmptyCut DEF Split
<1>19. wire' = wire
  BY <1>1 DEF netVars
<1> QED
  BY <1>16, <1>17, <1>18, <1>19, Stutters DEF Steps

(* The parts of the seed are marked.                                       *)
LEMMA FuzzOneStep ==
    ASSUME NEW s \in Seq(Nodes), NEW d \in Seq(Nodes), NEW p \in Nat, NEW m \in Nat, NEW e \in Nat,
           Related(s, d, p, m, e), FuzzOne
    PROVE  Steps
<1>1. /\ phase = "construct" /\ phase' = "idle" /\ fuzzing' = TRUE /\ kl' = kl
      /\ UNCHANGED spliceVars /\ UNCHANGED <<executions, netVars>>
  BY DEF FuzzOne
<1>2. Typed /\ Pointed(s, p, m, e) /\ Phased(d, m) /\ Shaped(kl, s, d, p, m, e, Extra)
  BY DEF Related
<1>3. ~fuzzing /\ d = <<>> /\ p = 0 /\ e = 0 /\ Extra = 0 /\ m >= 1 /\ m <= MaxSeedLength
  BY <1>1, <1>2 DEF Phased, Pointed, Extra, Pushing
<1>4. /\ kl \in KlType /\ ListIs(kl, s) /\ Accounted(kl, s, d) /\ Len(s) = m + 1 /\ kl.size = m
  <2>1. kl \in KlType /\ ListIs(kl, s) /\ Accounted(kl, s, d) /\ Len(s) = 0 + m + 0 + 0 + 1
    BY <1>2, <1>3 DEF Shaped
  <2>2. Len(d) = 0
    BY <1>3
  <2>3. kl.size = Len(s) + 0 - 1
    BY <2>1, <2>2 DEF Accounted
  <2>4. 0 + m + 0 + 0 + 1 = m + 1 /\ (m + 1) + 0 - 1 = m
    OBVIOUS
  <2> QED BY <2>1, <2>3, <2>4
<1>5. Append(NodesOf(kl), kl.tail) = s
  BY <1>4, NodesOfList
<1>0. PICK start \in 0 .. kl.size - 1 :
         \E many \in 1 .. kl.size - start :
            M2_prev' = (IF start = 0 THEN NULL ELSE s[start]) /\ M2_next' = s[start + many + 1]
  BY <1>5 DEF FuzzOne
<1>6. PICK count \in 1 .. kl.size - start :
         M2_prev' = (IF start = 0 THEN NULL ELSE s[start]) /\ M2_next' = s[start + count + 1]
  BY <1>0
<1>7. PICK rest : rest = m - (start + count)
  OBVIOUS
<1>8. /\ start \in Nat /\ count \in Nat /\ rest \in Nat /\ count >= 1 /\ start + count + rest = m
      /\ start + rest <= MaxSeedLength /\ start + count + rest <= MaxSeedLength + MaxMutant
  BY <1>3, <1>4, <1>6, <1>7, Numbers
<1>9. M2_next' = NextOf(kl', s, start, count, rest)
  <2>1. CASE rest = 0
    <3>1. start + count + 1 = Len(s)
      BY <1>4, <1>8, <2>1
    <3>2. M2_next' = s[Len(s)]
      BY <1>6, <3>1
    <3> QED BY <1>1, <1>4, <2>1, <3>2 DEF NextOf, ListIs
  <2>2. CASE rest # 0
    BY <1>6, <2>2 DEF NextOf
  <2> QED BY <2>1, <2>2
<1>10. Shaped(kl, s, d, start, count, rest, Extra)'
  <2>1. Extra' = 0
    BY <1>1 DEF Extra, Pushing
  <2>2. Lengths(start, count, rest, 0) /\ Len(s) = start + count + rest + 0 + 1
    BY <1>4, <1>8 DEF Lengths
  <2> QED BY <1>1, <1>4, <1>8, <2>1, <2>2 DEF Shaped
<1>11. Typed'
  <2>1. M2_prev' \in Nodes \cup {NULL}
    <3>1. start # 0 => start \in 1 .. Len(s)
      BY <1>4, <1>8
    <3> QED BY <1>6, <3>1
  <2>2. M2_next' \in Nodes
    <3>1. start + count + 1 \in 1 .. Len(s)
      BY <1>4, <1>8
    <3> QED BY <1>6, <3>1
  <2>3. fuzzing' \in BOOLEAN
    BY <1>1, Zenon
  <2> QED BY <1>1, <1>2, <2>1, <2>2, <2>3 DEF Typed, Phases, spliceVars, netVars
<1>12. Pointed(s, start, count, rest)'
  BY <1>1, <1>6, <1>9 DEF Pointed, Pushing
<1>13. Phased(d, count)'
  BY <1>1, <1>3, <1>8 DEF Phased
<1>14. Filled(s, start, count, rest)'
  BY <1>1 DEF Filled, Pushing, Executing
<1>15. Told(s)'
  BY <1>1 DEF Told
<1>16. Related(s, d, start, count, rest)'
  BY <1>10, <1>11, <1>12, <1>13, <1>14, <1>15 DEF Related
<1>17. IInv' /\ Parts' = Split(kl', s, start, count, rest)
  BY <1>1, <1>8, <1>16, Witnessed DEF Held
<1>18. Parts = Split(kl, s, 0, 0, 0)
  BY <1>1, PartsHere DEF Held
<1>19. wire' = wire /\ ListIs(kl', s) /\ start + count + rest <= Len(s) - 1
  BY <1>1, <1>4, <1>8 DEF netVars
<1>20. [Abstract!Next]_(Abstract!vars)
  BY <1>8, <1>17, <1>18, <1>19, Loads
<1> QED
  BY <1>17, <1>20 DEF Steps

(* A message of the mutant is pushed; if M3 is empty, M2_next follows the  *)
(* sentinel.                                                               *)
LEMMA PushMessageStep ==
    ASSUME NEW s \in Seq(Nodes), NEW d \in Seq(Nodes), NEW p \in Nat, NEW m \in Nat, NEW e \in Nat,
           Related(s, d, p, m, e), PushMessage
    PROVE  Steps
<1>1. /\ phase = "push" /\ kl' = Pushp(kl, MessageOf(pushed + 1)) /\ M2_next' = FollowTail(kl')
      /\ pushed' = pushed + 1
      /\ phase' = IF pushed + 1 \in {Len(out_buf), MaxRegionCount + 1} THEN "splice" ELSE "push"
      /\ M2_prev' = M2_prev /\ out_buf' = out_buf /\ prev_last_message' = prev_last_message
      /\ cur_it' = cur_it /\ next_it' = next_it /\ fuzzing' = fuzzing /\ executions' = executions
      /\ UNCHANGED netVars
  BY DEF PushMessage
<1>2. /\ Typed /\ Pointed(s, p, m, e) /\ Phased(d, m) /\ Filled(s, p, m, e)
      /\ Shaped(kl, s, d, p, m, e, Extra)
  BY DEF Related
<1>3. /\ fuzzing /\ d = <<>> /\ m >= 1 /\ Extra = pushed /\ pushed \in Nat
      /\ prev_last_message = s[p + m + e]
  BY <1>1, <1>2 DEF Phased, Pointed, Extra, Pushing, Typed
<1>4. /\ out_buf \in Seq(Nat) /\ Len(out_buf) \in 1 .. MaxMutant /\ Len(out_buf) >= 1
      /\ pushed < Pieces(out_buf) /\ Holds(kl, s, p + m + e, pushed, out_buf)
  BY <1>1, <1>2 DEF Filled, Pushing, Typed
<1> DEFINE n == Len(s)
           message == Piece(out_buf, pushed + 1)
<1>5. /\ kl \in KlType /\ ListIs(kl, s) /\ Accounted(kl, s, <<>>)
      /\ n = p + m + e + pushed + 1 /\ n \in Nat /\ n >= 1
      /\ p + e <= MaxSeedLength /\ p + m + e <= MaxSeedLength + MaxMutant
  BY <1>2, <1>3, SMTT(30) DEF Shaped, ListIs
<1>6. /\ Pieces(out_buf) \in 1 .. Len(out_buf) /\ pushed + 1 \in 1 .. Pieces(out_buf)
      /\ message \in Message /\ kl' = Pushp(kl, message)
      /\ phase' = IF pushed + 1 = Pieces(out_buf) THEN "splice" ELSE "push"
  <2>1. /\ Pieces(out_buf) \in 1 .. Len(out_buf)
        /\ \A i \in 1 .. Pieces(out_buf) : Piece(out_buf, i) \in Message
        /\ \A i \in 1 .. Pieces(out_buf) :
              i \in {Len(out_buf), MaxRegionCount + 1} <=> i = Pieces(out_buf)
    BY <1>4, PiecesAreMessages
  <2>2. pushed + 1 \in 1 .. Pieces(out_buf)
    BY <1>3, <1>4, <2>1
  <2>3. MessageOf(pushed + 1) = message
    BY DEF MessageOf, Piece
  <2> HIDE DEF message
  <2>4. message \in Message
    BY <2>1, <2>2 DEF message
  <2> QED BY <1>1, <2>1, <2>2, <2>3, <2>4
<1> HIDE DEF message
<1>7. n < MaxNodes
  <2>1. pushed + 1 <= MaxMutant
    <3>1. \A x, y, z, w \in Nat : x \in 1 .. y /\ y \in 1 .. z /\ z \in 1 .. w => x <= w
      OBVIOUS
    <3>2. pushed + 1 \in Nat /\ Pieces(out_buf) \in Nat /\ Len(out_buf) \in Nat /\ MaxMutant \in Nat
      BY <1>3, <1>4, <1>6, Numbers
    <3> QED BY <1>4, <1>6, <3>1, <3>2, Zenon
  <2> QED BY <1>3, <1>5, <2>1, Numbers
<1>8. PICK u : u = Append(s, Alloc(kl))
  OBVIOUS
<1>9. /\ kl' \in KlType /\ ListIs(kl', u) /\ Accounted(kl', u, <<>>)
      /\ \A i \in 1 .. n - 1 : kl'.val[s[i]] = kl.val[s[i]]
      /\ kl'.val[s[n]] = message /\ kl'.tail = Alloc(kl)
      /\ kl'.next[s[n]] = Alloc(kl) /\ \A i \in 1 .. n - 1 : kl'.next[s[i]] = kl.next[s[i]]
  <2> DEFINE k2 == Pushp(kl, message)
             t == Append(s, Alloc(kl))
  <2>1. /\ k2 \in KlType /\ ListIs(k2, t) /\ Accounted(k2, t, <<>>)
        /\ \A i \in 1 .. Len(s) - 1 : k2.val[s[i]] = kl.val[s[i]]
        /\ k2.val[s[Len(s)]] = message /\ k2.tail = Alloc(kl)
        /\ k2.next[s[Len(s)]] = Alloc(kl)
        /\ \A i \in 1 .. Len(s) - 1 : k2.next[s[i]] = kl.next[s[i]]
    <3>1. Len(s) < MaxNodes /\ kl \in KlType /\ ListIs(kl, s) /\ Accounted(kl, s, <<>>)
      BY <1>5, <1>7
    <3>2. message \in Message
      BY <1>6
    <3> QED BY <3>1, <3>2, PushExtends, SMTT(30)
  <2>2. kl' = k2 /\ u = t /\ n = Len(s)
    BY <1>6, <1>8
  <2> HIDE DEF k2, t, n
  <2> QED BY <2>1, <2>2
<1>10. u \in Seq(Nodes) /\ Len(u) = n + 1 /\ u[n + 1] = kl'.tail /\ \A i \in 1 .. n : u[i] = s[i]
  <2>1. u \in Seq(Nodes) /\ u[Len(u)] = kl'.tail
    BY <1>9 DEF ListIs
  <2>2. Len(u) = n + 1 /\ \A i \in 1 .. n : u[i] = s[i]
    BY <1>8
  <2> QED BY <2>1, <2>2
<1> HIDE DEF n
<1>11. \A i \in 1 .. n - 1 : kl'.val[u[i]] = kl.val[s[i]]
  <2>1. \A i \in 1 .. n - 1 : i \in 1 .. n
    BY <1>5
  <2> QED BY <1>9, <1>10, <2>1
<1>12. M2_next' = NextOf(kl', u, p, m, e)
  <2>1. M2_next = NextOf(kl, s, p, m, e)
    BY <1>2, <1>3 DEF Pointed
  <2>2. CASE e = 0
    <3>1. M2_next = s[n] /\ kl'.next[M2_next] = kl'.tail
      BY <1>5, <1>9, <2>1, <2>2 DEF NextOf, ListIs, n
    <3>2. M2_next' = kl'.tail
      BY <1>1, <3>1 DEF FollowTail
    <3> QED BY <2>2, <3>2 DEF NextOf
  <2>3. CASE e # 0
    <3>1. p + m + 1 \in 1 .. n - 1 /\ p + m + 1 \in 1 .. n /\ p + m + 2 \in 1 .. n + 1
          /\ (p + m + 1) + 1 = p + m + 2
      BY <1>5, <1>3, <2>3
    <3>2. M2_next = u[p + m + 1] /\ M2_next = s[p + m + 1]
      BY <1>10, <2>1, <2>3, <3>1 DEF NextOf
    <3>3. kl'.next[M2_next] = u[p + m + 2]
      <4>1. p + m + 1 \in 1 .. Len(u) - 1
        BY <1>5, <1>10, <3>1
      <4> QED BY <1>9, <3>1, <3>2, <4>1 DEF ListIs
    <3>4. u[p + m + 2] # kl'.tail
      <4>1. p + m + 2 # n + 1 /\ n + 1 \in 1 .. n + 1
        BY <1>3, <1>5, <2>3
      <4>2. \A i, j \in 1 .. n + 1 : u[i] = u[j] => i = j
        BY <1>9, <1>10 DEF ListIs, Distinct
      <4> QED BY <1>10, <3>1, <4>1, <4>2
    <3>5. M2_next' = M2_next
      BY <1>1, <3>3, <3>4 DEF FollowTail
    <3> QED BY <2>3, <3>2, <3>5 DEF NextOf
  <2> QED BY <2>2, <2>3
<1>13. M2_prev' = IF p = 0 THEN NULL ELSE u[p]
  <2>1. M2_prev = IF p = 0 THEN NULL ELSE s[p]
    BY <1>2 DEF Pointed
  <2>2. p # 0 => p \in 1 .. n
    BY <1>3, <1>5
  <2> QED BY <1>1, <1>10, <2>1, <2>2
<1>14. prev_last_message' = u[p + m + e]
  <2>1. p + m + e \in 1 .. n
    BY <1>3, <1>5
  <2> QED BY <1>1, <1>3, <1>10, <2>1
<1>15. Shaped(kl, u, <<>>, p, m, e, Extra)'
  <2>1. Extra' = pushed + 1 /\ <<>> \in Seq(Nodes)
    BY <1>1 DEF Extra, Pushing
  <2>2. Lengths(p, m, e, pushed + 1) /\ Len(u) = p + m + e + (pushed + 1) + 1
    BY <1>3, <1>5, <1>10, SMTT(30) DEF Lengths
  <2> QED BY <1>5, <1>9, <2>1, <2>2 DEF Shaped
<1>16. Typed'
  <2>1. M2_next' \in Nodes \cup {NULL}
    <3>1. kl'.tail \in Nodes
      BY <1>9 DEF KlType
    <3>2. e # 0 => p + m + 1 \in 1 .. Len(u)
      BY <1>3, <1>5, <1>10
    <3> QED BY <1>10, <1>12, <3>1, <3>2 DEF NextOf
  <2> QED BY <1>1, <1>2, <1>3, <2>1 DEF Typed, Phases, netVars
<1>17. phase' \in {"push", "splice"}
  BY <1>6
<1>18. Pointed(u, p, m, e)'
  BY <1>1, <1>3, <1>12, <1>13, <1>14 DEF Pointed
<1>19. Phased(<<>>, m)'
  BY <1>1, <1>3, <1>17 DEF Phased
<1>20. Filled(u, p, m, e)'
  <2>1. Holds(kl', u, p + m + e, pushed + 1, out_buf)
    <3>1. ASSUME NEW i \in 1 .. pushed + 1
          PROVE  kl'.val[u[p + m + e + i]] = Piece(out_buf, i)
      <4>1. CASE i = pushed + 1
        <5>1. p + m + e + i = n /\ n \in 1 .. n
          BY <1>3, <1>5, <4>1
        <5> QED BY <1>9, <1>10, <4>1, <5>1 DEF message
      <4>2. CASE i # pushed + 1
        <5>1. i \in 1 .. pushed /\ p + m + e + i \in 1 .. n - 1
          BY <1>3, <1>5, <4>2
        <5> QED BY <1>4, <1>11, <5>1 DEF Holds
      <4> QED BY <4>1, <4>2
    <3> QED BY <3>1 DEF Holds
  <2>2. IF phase' = "push" THEN pushed' < Pieces(out_buf') ELSE pushed' = Pieces(out_buf')
    <3>1. pushed' \in Nat /\ pushed' <= Pieces(out_buf) /\ Pieces(out_buf) \in Nat
      BY <1>1, <1>3, <1>6
    <3> QED BY <1>1, <1>6, <3>1
  <2>3. phase' \notin Executing
    BY <1>17 DEF Executing
  <2> QED BY <1>1, <1>4, <2>1, <2>2, <2>3 DEF Filled
<1>21. Told(u)'
  BY <1>17 DEF Told
<1>22. Related(u, <<>>, p, m, e)'
  BY <1>15, <1>16, <1>18, <1>19, <1>20, <1>21 DEF Related
<1>23. IInv' /\ Parts' = Split(kl', u, p, m, e)
  <2>1. PICK c : c = <<>>
    OBVIOUS
  <2>2. Related(u, c, p, m, e)' /\ c \in Seq(Nodes)
    BY <1>22, <2>1
  <2>3. IInv' /\ Parts' = Held(u, p, m, e)'
    BY <1>10, <2>2, Witnessed
  <2> QED BY <1>17, <2>3 DEF Held
<1>24. Parts = Split(kl, s, p, m, e)
  BY <1>1, PartsHere DEF Held
<1>25. Split(kl', u, p, m, e) = Split(kl, s, p, m, e)
  <2>1. ASSUME NEW b \in Nat, NEW l \in Nat, b + l <= p + m + e
        PROVE  Cut(kl', u, b, l) = Cut(kl, s, b, l)
    <3>1. \A i \in 1 .. l : b + i \in 1 .. n - 1
      BY <1>3, <1>5, <2>1
    <3>2. \A i \in 1 .. l : kl'.val[u[b + i]] = kl.val[s[b + i]]
      BY <1>11, <3>1
    <3> QED BY <3>2 DEF Cut
  <2>2. 0 + p <= p + m + e /\ p + m <= p + m + e /\ (p + m) + e <= p + m + e /\ p + m \in Nat
    OBVIOUS
  <2> QED BY <2>1, <2>2 DEF Split
<1>26. wire' = wire
  BY <1>1 DEF netVars
<1> QED
  BY <1>23, <1>24, <1>25, <1>26, Stutters DEF Steps

(* The mutant takes the place of M2, whose nodes leave the list.           *)
LEMMA SpliceStep ==
    ASSUME NEW s \in Seq(Nodes), NEW d \in Seq(Nodes), NEW p \in Nat, NEW m \in Nat, NEW e \in Nat,
           Related(s, d, p, m, e), Splice
    PROVE  Steps
<1> DEFINE n == Len(s)
           x == pushed
           new_M2 == kl.next[prev_last_message]
           cur_last_message == Last(NodesOf(kl))
           old_M2_start == IF M2_prev = NULL THEN kl.head ELSE kl.next[M2_prev]
           linked == IF M2_prev = NULL THEN kl.next ELSE [kl.next EXCEPT ![M2_prev] = new_M2]
           next == [linked EXCEPT ![cur_last_message] = M2_next, ![prev_last_message] = kl.tail]
<1>1. /\ phase = "splice" /\ phase' = "free"
      /\ kl' = [kl EXCEPT !.head = IF M2_prev = NULL THEN new_M2 ELSE @, !.next = next]
      /\ cur_it' = old_M2_start /\ next_it' = next[old_M2_start]
      /\ M2_prev' = M2_prev /\ M2_next' = M2_next /\ out_buf' = out_buf /\ pushed' = pushed
      /\ prev_last_message' = prev_last_message /\ fuzzing' = fuzzing
      /\ executions' = executions /\ UNCHANGED netVars
  BY DEF Splice
<1> HIDE DEF new_M2, cur_last_message, old_M2_start, next
<1>2. /\ Typed /\ Pointed(s, p, m, e) /\ Phased(d, m) /\ Filled(s, p, m, e)
      /\ Shaped(kl, s, d, p, m, e, Extra)
  BY DEF Related
<1>3. /\ fuzzing /\ d = <<>> /\ m >= 1 /\ Extra = x /\ x \in Nat
      /\ prev_last_message = s[p + m + e] /\ M2_next = NextOf(kl, s, p, m, e)
      /\ M2_prev = IF p = 0 THEN NULL ELSE s[p]
  BY <1>1, <1>2 DEF Phased, Pointed, Extra, Pushing, Typed
<1>4. /\ out_buf \in Seq(Nat) /\ Len(out_buf) \in 1 .. MaxMutant /\ Len(out_buf) >= 1
      /\ x = Pieces(out_buf) /\ Holds(kl, s, p + m + e, x, out_buf)
  BY <1>1, <1>2 DEF Filled, Pushing, Typed
<1>5. x >= 1 /\ x <= MaxMutant /\ x <= MaxRegionCount + 1
  <2>1. Pieces(out_buf) \in 1 .. Len(out_buf) /\ Pieces(out_buf) <= MaxRegionCount + 1
    BY <1>4, PiecesAreMessages
  <2>2. \A a, y, z \in Nat : a \in 1 .. y /\ y \in 1 .. z => a >= 1 /\ a <= z
    OBVIOUS
  <2>3. Pieces(out_buf) \in Nat /\ Len(out_buf) \in Nat /\ MaxMutant \in Nat
    BY <1>4, <2>1, Numbers
  <2> HIDE DEF x
  <2> QED BY <1>4, <2>1, <2>2, <2>3, Zenon
<1>6. /\ kl \in KlType /\ ListIs(kl, s) /\ Accounted(kl, s, <<>>)
      /\ n = p + m + e + x + 1 /\ n \in Nat /\ p + e <= MaxSeedLength
      /\ s[n] = kl.tail /\ s[1] = kl.head
  BY <1>2, <1>3 DEF Shaped, ListIs
<1>7. Spliceable(kl, s, p, m, e, x)
  BY <1>3, <1>5, <1>6 DEF Spliceable, Lengths
<1> HIDE DEF n, x
<1>8. /\ p + m + e \in 1 .. n - 1 /\ p + m + e + x = n - 1 /\ n - 1 \in 1 .. n - 1
      /\ p + 1 \in 1 .. n - 1 /\ (p # 0 => p \in 1 .. n - 1)
  BY <1>3, <1>5, <1>6
<1>9. /\ new_M2 = s[p + m + e + 1] /\ cur_last_message = s[p + m + e + x]
      /\ (M2_prev = NULL <=> p = 0) /\ old_M2_start = s[p + 1]
  <2>1. new_M2 = s[p + m + e + 1]
    BY <1>3, <1>6, <1>8 DEF new_M2, ListIs, n
  <2>2. cur_last_message = s[p + m + e + x]
    <3>1. Len(s) > 1 /\ Len(s) - 1 = p + m + e + x
      BY <1>6, <1>8 DEF n
    <3>2. Last(NodesOf(kl)) = s[Len(s) - 1]
      <4>1. <<>> \in Seq(Nodes)
        OBVIOUS
      <4> QED BY <1>6, <3>1, <4>1, NodesOfList
    <3> QED BY <3>1, <3>2 DEF cur_last_message
  <2>3. M2_prev = NULL <=> p = 0
    <3>1. p # 0 => s[p] \in Nodes
      BY <1>8 DEF n
    <3> QED BY <1>3, <3>1, Numbers DEF Nodes, NULL
  <2>4. old_M2_start = s[p + 1]
    <3>1. CASE p = 0
      BY <1>6, <2>3, <3>1 DEF old_M2_start
    <3>2. CASE p # 0
      <4>1. kl.next[s[p]] = s[p + 1]
        BY <1>6, <1>8, <3>2 DEF ListIs, n
      <4> QED BY <1>3, <2>3, <3>2, <4>1 DEF old_M2_start
    <3> QED BY <3>1, <3>2
  <2> QED BY <2>1, <2>2, <2>3, <2>4
<1>10. next = SplicedNext(kl, s, p, m, e, x)
  <2>1. CASE p = 0
    <3>1. linked = kl.next
      BY <1>9, <2>1 DEF linked
    <3> HIDE DEF linked
    <3> QED BY <1>3, <1>9, <2>1, <3>1 DEF next, SplicedNext
  <2>2. CASE p # 0
    <3>1. linked = [kl.next EXCEPT ![s[p]] = s[p + m + e + 1]]
      BY <1>3, <1>9, <2>2 DEF linked
    <3> HIDE DEF linked
    <3> QED BY <1>3, <1>9, <2>2, <3>1 DEF next, SplicedNext
  <2> QED BY <2>1, <2>2
<1>11. kl' = Spliced(kl, s, p, m, e, x)
  <2>1. (IF M2_prev = NULL THEN new_M2 ELSE kl.head) = (IF p = 0 THEN s[p + m + e + 1] ELSE kl.head)
    BY <1>9
  <2>2. kl' = [kl EXCEPT !.head = IF M2_prev = NULL THEN new_M2 ELSE kl.head, !.next = next]
    BY <1>1, <1>6 DEF KlType
  <2> QED BY <1>10, <2>1, <2>2, Zenon DEF Spliced
<1>12. PICK t, o : t = SplicedList(s, p, m, e, x) /\ o = OldM2(s, p, m)
  OBVIOUS
<1>13. /\ kl' \in KlType /\ ListIs(kl', t) /\ Detached(kl', o, M2_next) /\ Accounted(kl', t, o)
  <2>1. /\ Spliced(kl, s, p, m, e, x) \in KlType
        /\ ListIs(Spliced(kl, s, p, m, e, x), SplicedList(s, p, m, e, x))
        /\ Detached(Spliced(kl, s, p, m, e, x), OldM2(s, p, m), NextOf(kl, s, p, m, e))
        /\ Accounted(Spliced(kl, s, p, m, e, x), SplicedList(s, p, m, e, x), OldM2(s, p, m))
    BY <1>7, SpliceJoins
  <2> QED BY <1>3, <1>11, <1>12, <2>1, Zenon
<1>14. kl'.tail = kl.tail /\ kl'.val = kl.val /\ kl'.next = next
  BY <1>1, <1>6 DEF KlType
<1>15. /\ t \in Seq(Nodes) /\ o \in Seq(Nodes) /\ Len(t) = p + x + e + 1 /\ Len(o) = m
       /\ o[1] = s[p + 1]
       /\ \A i \in 1 .. p + x + e + 1 : t[i] = s[Was(i, p, m, e, x)]
  <2>1. t \in Seq(Nodes) /\ o \in Seq(Nodes)
    BY <1>13 DEF ListIs, Detached
  <2>2. p + x + e + 1 \in Nat
    BY <1>3
  <2>3. Len(t) = p + x + e + 1 /\ \A i \in 1 .. p + x + e + 1 : t[i] = s[Was(i, p, m, e, x)]
    BY <1>12, <2>2 DEF SplicedList
  <2>4. Len(o) = m /\ o[1] = s[p + 1]
    BY <1>3, <1>12 DEF OldM2
  <2> QED BY <2>1, <2>3, <2>4
<1>16. /\ \A i \in 1 .. p : t[i] = s[i]
       /\ \A i \in 1 .. x : t[p + i] = s[p + m + e + i]
       /\ \A i \in 1 .. e : t[p + x + i] = s[p + m + i]
  <2>1. ASSUME NEW i \in 1 .. p PROVE t[i] = s[i]
    <3>1. i \in 1 .. p + x + e + 1 /\ Was(i, p, m, e, x) = i
      BY <1>3 DEF Was
    <3> QED BY <1>15, <3>1
  <2>2. ASSUME NEW i \in 1 .. x PROVE t[p + i] = s[p + m + e + i]
    <3>1. p + i \in 1 .. p + x + e + 1 /\ Was(p + i, p, m, e, x) = p + m + e + i
      BY <1>3 DEF Was
    <3> QED BY <1>15, <3>1
  <2>3. ASSUME NEW i \in 1 .. e PROVE t[p + x + i] = s[p + m + i]
    <3>1. p + x + i \in 1 .. p + x + e + 1 /\ Was(p + x + i, p, m, e, x) = p + m + i
      BY <1>3 DEF Was
    <3> QED BY <1>15, <3>1
  <2> QED BY <2>1, <2>2, <2>3
<1>17. PICK y : y = x
  OBVIOUS
<1>18. y \in Nat /\ y >= 1 /\ y <= MaxMutant /\ y <= MaxRegionCount + 1 /\ y = Pieces(out_buf)
  BY <1>3, <1>4, <1>5, <1>17
<1>19. Shaped(kl, t, o, p, y, e, Extra)'
  <2>1. Extra' = 0
    BY <1>1 DEF Extra, Pushing
  <2>2. Lengths(p, y, e, 0) /\ Len(t) = p + y + e + 0 + 1
    BY <1>15, <1>17, <1>18 DEF Lengths
  <2>3. p + y + e <= MaxSeedLength + MaxMutant
    BY <1>6, <1>18, Numbers, SMTT(30)
  <2> QED BY <1>6, <1>13, <1>15, <2>1, <2>2, <2>3 DEF Shaped
<1>20. Pointed(t, p, y, e)'
  <2>1. M2_next = NextOf(kl', t, p, y, e)
    <3>1. CASE e = 0
      BY <1>3, <1>14, <3>1 DEF NextOf
    <3>2. CASE e # 0
      <4>1. t[p + x + 1] = s[p + m + 1]
        BY <1>16, <3>2
      <4> QED BY <1>3, <1>17, <3>2, <4>1 DEF NextOf
    <3> QED BY <3>1, <3>2
  <2>2. M2_prev = IF p = 0 THEN NULL ELSE t[p]
    BY <1>3, <1>16
  <2> QED BY <1>1, <1>3, <2>1, <2>2 DEF Pointed, Pushing
<1>21. Typed'
  <2>1. s[p + 1] \in Nodes
    <3>1. p + 1 \in 1 .. Len(s)
      BY <1>6, <1>8 DEF n
    <3> QED BY <3>1
  <2>2. next[s[p + 1]] \in Nodes \cup {NULL}
    BY <1>13, <1>14, <2>1 DEF KlType
  <2> QED BY <1>1, <1>2, <1>9, <2>1, <2>2 DEF Typed, Phases, netVars
<1>22. Phased(o, y)'
  <2>1. o # <<>>
    BY <1>3, <1>15
  <2>2. cur_it' = o[1] /\ next_it' = kl'.next[o[1]]
    BY <1>1, <1>9, <1>14, <1>15
  <2> QED BY <1>1, <1>3, <1>13, <1>18, <2>1, <2>2 DEF Phased
<1>23. Filled(t, p, y, e)'
  <2>1. Holds(kl', t, p, y, out_buf)
    BY <1>4, <1>14, <1>16, <1>17 DEF Holds
  <2> QED BY <1>1, <1>4, <1>18, <2>1 DEF Filled, Pushing
<1>24. Told(t)'
  BY <1>1 DEF Told
<1>25. Related(t, o, p, y, e)'
  BY <1>19, <1>20, <1>21, <1>22, <1>23, <1>24 DEF Related
<1>26. IInv' /\ Parts' = Split(kl', t, p, y, e)
  BY <1>1, <1>15, <1>18, <1>25, Witnessed DEF Held
<1>27. Parts = Split(kl, s, p, m, e)
  BY <1>1, PartsHere DEF Held
<1>28. Abstract!Mutate
  <2>1. Cut(kl', t, 0, p) = Cut(kl, s, 0, p)
    <3>1. \A i \in 1 .. p : kl.val[s[0 + i]] = kl'.val[t[0 + i]]
      <4>1. \A i \in 1 .. p : 0 + i = i
        OBVIOUS
      <4> QED BY <1>14, <1>16, <4>1
    <3> QED BY <3>1 DEF Cut
  <2>2. Cut(kl', t, p + y, e) = Cut(kl, s, p + m, e)
    <3>1. \A i \in 1 .. e : kl.val[s[p + m + i]] = kl'.val[t[p + y + i]]
      BY <1>14, <1>16, <1>17
    <3> QED BY <3>1 DEF Cut
  <2>3. Parts'.M2 \in Seq(Message) /\ Len(Parts'.M2) = y
    <3>1. p + y <= Len(t) - 1
      BY <1>15, <1>17, <1>18
    <3> QED BY <1>13, <1>18, <1>26, <3>1, CutIsSeq DEF Split
  <2>4. Parts.M2 # <<>>
    <3>1. p + m <= Len(s) - 1
      BY <1>3, <1>6 DEF n
    <3>2. Len(Cut(kl, s, p, m)) = m
      BY <1>6, <3>1, CutIsSeq
    <3>3. Cut(kl, s, p, m) # <<>>
      BY <1>3, <3>2
    <3> QED BY <1>27, <3>3 DEF Split
  <2>5. Parts'.M1 = Parts.M1 /\ Parts'.M3 = Parts.M3
    BY <1>26, <1>27, <2>1, <2>2 DEF Split
  <2>6. y \in 1 .. MaxRegionCount + 1
    BY <1>18, Numbers
  <2>7. wire' = wire
    BY <1>1 DEF netVars
  <2> QED BY <2>3, <2>4, <2>5, <2>6, <2>7 DEF Abstract!Mutate
<1> QED
  BY <1>26, <1>28 DEF Steps, Abstract!Next

(* A message of the old M2 goes back to the pool.                          *)
LEMMA FreeMessageStep ==
    ASSUME NEW s \in Seq(Nodes), NEW d \in Seq(Nodes), NEW p \in Nat, NEW m \in Nat, NEW e \in Nat,
           Related(s, d, p, m, e), FreeMessage
    PROVE  Steps
<1>1. /\ phase = "free" /\ kl' = FreeHead(kl, cur_it)
      /\ cur_it' = next_it /\ next_it' = kl.next[next_it]
      /\ phase' = IF next_it = M2_next THEN "connect" ELSE "free"
      /\ M2_prev' = M2_prev /\ M2_next' = M2_next /\ out_buf' = out_buf /\ pushed' = pushed
      /\ prev_last_message' = prev_last_message /\ fuzzing' = fuzzing
      /\ executions' = executions /\ UNCHANGED netVars
  BY DEF FreeMessage, FreeHead
<1>2. /\ Typed /\ Pointed(s, p, m, e) /\ Phased(d, m) /\ Filled(s, p, m, e)
      /\ Shaped(kl, s, d, p, m, e, Extra)
  BY DEF Related
<1>3. /\ fuzzing /\ m >= 1 /\ Extra = 0 /\ d # <<>> /\ Detached(kl, d, M2_next)
      /\ cur_it = d[1] /\ next_it = kl.next[d[1]] /\ M2_next = NextOf(kl, s, p, m, e)
  BY <1>1, <1>2 DEF Phased, Pointed, Extra, Pushing
<1>4. kl \in KlType /\ ListIs(kl, s) /\ Accounted(kl, s, d) /\ Len(s) = p + m + e + 1
  <2>1. Len(s) = p + m + e + 0 + 1
    BY <1>2, <1>3 DEF Shaped
  <2> QED BY <1>2, <2>1 DEF Shaped
<1>5. PICK d2 : d2 = Tail(d)
  OBVIOUS
<1>6. /\ kl' \in KlType /\ ListIs(kl', s) /\ Detached(kl', d2, M2_next) /\ Accounted(kl', s, d2)
      /\ \A i \in 1 .. Len(s) - 1 : kl'.val[s[i]] = kl.val[s[i]]
      /\ kl'.next = kl.next /\ kl'.tail = kl.tail
      /\ Len(d2) = Len(d) - 1 /\ \A i \in 1 .. Len(d) - 1 : d2[i] = d[i + 1]
  <2> DEFINE k2 == FreeHead(kl, d[1])
  <2>1. /\ k2 \in KlType /\ ListIs(k2, s) /\ Detached(k2, Tail(d), M2_next)
        /\ Accounted(k2, s, Tail(d))
        /\ \A i \in 1 .. Len(s) - 1 : k2.val[s[i]] = kl.val[s[i]]
        /\ k2.next = kl.next /\ k2.tail = kl.tail
        /\ Len(Tail(d)) = Len(d) - 1 /\ \A i \in 1 .. Len(d) - 1 : Tail(d)[i] = d[i + 1]
    BY <1>3, <1>4, FreeDrops, SMTT(30)
  <2>2. kl' = k2 /\ d2 = Tail(d)
    BY <1>1, <1>3, <1>5
  <2> HIDE DEF k2
  <2> QED BY <2>1, <2>2
<1>7. M2_next \in Ran(s) /\ M2_next \in Nodes
  <2>1. \A i \in 1 .. Len(s) : s[i] \in Ran(s) /\ s[i] \in Nodes
    BY DEF Ran
  <2>2. e # 0 => p + m + 1 \in 1 .. Len(s)
    BY <1>4
  <2>3. kl.tail = s[Len(s)] /\ Len(s) \in 1 .. Len(s)
    BY <1>4 DEF ListIs
  <2> QED BY <1>3, <2>1, <2>2, <2>3 DEF NextOf
<1>8. Len(d) \in Nat /\ Len(d) >= 1 /\ d2 \in Seq(Nodes)
  BY <1>3, <1>6 DEF Detached
<1>9. /\ next_it \in Nodes
      /\ IF next_it = M2_next THEN d2 = <<>> ELSE d2 # <<>> /\ next_it = d2[1]
  <2>1. CASE Len(d) = 1
    <3>1. next_it = M2_next
      BY <1>3, <2>1 DEF Detached
    <3>2. d2 = <<>>
      BY <1>6, <1>8, <2>1
    <3> QED BY <1>7, <3>1, <3>2
  <2>2. CASE Len(d) # 1
    <3>1. 1 \in 1 .. Len(d) - 1 /\ 1 + 1 = 2 /\ 2 \in 1 .. Len(d)
      <4>1. \A l \in Nat : l >= 1 /\ l # 1 => 1 \in 1 .. l - 1 /\ 1 + 1 = 2 /\ 2 \in 1 .. l
        OBVIOUS
      <4> QED BY <1>8, <2>2, <4>1, Zenon
    <3>2. next_it = d[2] /\ d2[1] = d[2]
      BY <1>3, <1>6, <3>1 DEF Detached
    <3>3. d[2] \in Ran(d) /\ d[2] \in Nodes
      BY <3>1 DEF Ran
    <3>4. next_it # M2_next
      BY <1>4, <1>7, <3>2, <3>3 DEF Accounted
    <3>5. d2 # <<>>
      BY <1>6, <1>8, <2>2
    <3> QED BY <3>2, <3>3, <3>4, <3>5
  <2> QED BY <2>1, <2>2
<1>10. phase' \in {"free", "connect"}
  BY <1>1
<1>11. Typed'
  <2>1. kl.next[next_it] \in Nodes \cup {NULL}
    BY <1>4, <1>9 DEF KlType
  <2> QED BY <1>1, <1>2, <1>9, <2>1 DEF Typed, Phases, netVars
<1>12. Shaped(kl, s, d2, p, m, e, Extra)'
  <2>1. Extra' = 0
    BY <1>10 DEF Extra, Pushing
  <2> QED BY <1>2, <1>3, <1>6, <1>8, <2>1 DEF Shaped
<1>13. Pointed(s, p, m, e)'
  <2>1. NextOf(kl', s, p, m, e) = NextOf(kl, s, p, m, e)
    BY <1>6 DEF NextOf
  <2> QED BY <1>1, <1>2, <1>3, <1>10, <2>1 DEF Pointed, Pushing
<1>14. Phased(d2, m)'
  <2>1. CASE next_it = M2_next
    <3>1. phase' = "connect" /\ d2 = <<>>
      BY <1>1, <1>9, <2>1
    <3> QED BY <1>1, <1>3, <3>1 DEF Phased
  <2>2. CASE next_it # M2_next
    <3>1. phase' = "free" /\ d2 # <<>> /\ cur_it' = d2[1] /\ next_it' = kl'.next[d2[1]]
      BY <1>1, <1>6, <1>9, <2>2
    <3> QED BY <1>1, <1>3, <1>6, <3>1 DEF Phased
  <2> QED BY <2>1, <2>2
<1>15. \A i \in 1 .. p + m + e : kl'.val[s[i]] = kl.val[s[i]]
  <2>1. Len(s) - 1 = p + m + e
    BY <1>4
  <2> QED BY <1>6, <2>1
<1>16. Filled(s, p, m, e)'
  <2>1. /\ Len(out_buf) \in 1 .. MaxMutant /\ m = Pieces(out_buf)
        /\ Holds(kl, s, p, m, out_buf)
    BY <1>1, <1>2, <1>3 DEF Filled, Executing
  <2>2. Holds(kl', s, p, m, out_buf)
    <3>1. \A i \in 1 .. m : p + i \in 1 .. p + m + e
      OBVIOUS
    <3> QED BY <1>15, <2>1, <3>1 DEF Holds
  <2> QED BY <1>1, <1>10, <2>1, <2>2 DEF Filled, Pushing
<1>17. Told(s)'
  BY <1>10 DEF Told
<1>18. Related(s, d2, p, m, e)'
  BY <1>11, <1>12, <1>13, <1>14, <1>16, <1>17 DEF Related
<1>19. IInv' /\ Parts' = Split(kl', s, p, m, e)
  BY <1>8, <1>10, <1>18, Witnessed DEF Held
<1>20. Parts = Split(kl, s, p, m, e)
  BY <1>1, PartsHere DEF Held
<1>21. Split(kl', s, p, m, e) = Split(kl, s, p, m, e)
  <2>1. ASSUME NEW b \in Nat, NEW l \in Nat, b + l <= p + m + e
        PROVE  Cut(kl', s, b, l) = Cut(kl, s, b, l)
    <3>1. \A i \in 1 .. l : b + i \in 1 .. p + m + e
      BY <2>1
    <3> QED BY <1>15, <3>1 DEF Cut
  <2>2. 0 + p <= p + m + e /\ p + m <= p + m + e /\ (p + m) + e <= p + m + e /\ p + m \in Nat
    OBVIOUS
  <2> QED BY <2>1, <2>2 DEF Split
<1>22. wire' = wire
  BY <1>1 DEF netVars
<1> QED
  BY <1>19, <1>20, <1>21, <1>22, Stutters DEF Steps

-----------------------------------------------------------------------------
(* The theorems                                                            *)

LEMMA InitHolds == Init => IInv /\ Abstract!Init
<1> SUFFICES ASSUME Init PROVE IInv /\ Abstract!Init
  OBVIOUS
<1>1. PICK v, z, c : v = <<0>> /\ z = 0 /\ c = <<>>
  OBVIOUS
<1>2. v \in Seq(Nodes) /\ c \in Seq(Nodes) /\ z \in Nat
  BY <1>1, EmptyList
<1>3. Related(v, c, z, z, z)
  <2>1. Typed
    <3>1. FALSE \in BOOLEAN /\ <<>> \in Seq(Nat) /\ <<>> \in Seq(Message) /\ <<>> \in Seq(Nat \cup {Unset})
      OBVIOUS
    <3>2. /\ fuzzing \in BOOLEAN /\ out_buf \in Seq(Nat) /\ wire \in Seq(Message)
          /\ response_bytes \in Seq(Nat \cup {Unset})
      BY <3>1, Zenon DEF Init, None
    <3> QED BY <3>2 DEF Init, Typed, Phases
  <2>2. Shaped(kl, v, c, z, z, z, Extra)
    <3>1. Extra = 0
      BY DEF Extra, Init, Pushing
    <3> QED BY <1>1, <3>1, EmptyList DEF Init
  <2>3. Pointed(v, z, z, z)
    BY <1>1 DEF Init, Pointed, Pushing
  <2>4. Phased(c, z)
    BY <1>1 DEF Init, Phased
  <2>5. Filled(v, z, z, z)
    BY DEF Init, Filled, Pushing, Executing
  <2>6. Told(v)
    BY DEF Init, Told
  <2> QED BY <2>1, <2>2, <2>3, <2>4, <2>5, <2>6 DEF Related
<1>4. IInv
  BY <1>2, <1>3 DEF IInv
<1>5. Parts = Split(kl, v, z, z, z)
  BY <1>3, PartsHere DEF Init, Held
<1>6. Parts.M1 = <<>> /\ Parts.M2 = <<>> /\ Parts.M3 = <<>> /\ wire = <<>>
  BY <1>1, <1>5, EmptyCut DEF Split, Init
<1> QED
  BY <1>4, <1>6 DEF Abstract!Init

LEMMA NextSteps == IInv /\ [Next]_vars => Steps
<1> SUFFICES ASSUME IInv, [Next]_vars PROVE Steps
  OBVIOUS
<1>1. PICK s \in Seq(Nodes), d \in Seq(Nodes), p \in Nat, m \in Nat, e \in Nat :
         Related(s, d, p, m, e)
  BY DEF IInv
<1>2. CASE UNCHANGED vars
  <2>1. UNCHANGED <<listVars, fuzzing>> /\ UNCHANGED spliceVars /\ UNCHANGED netVars
        /\ phase' = phase /\ executions' = executions
    BY <1>2 DEF vars
  <2>2. /\ kl' = kl /\ M2_prev' = M2_prev /\ M2_next' = M2_next /\ fuzzing' = fuzzing
        /\ out_buf' = out_buf /\ pushed' = pushed /\ prev_last_message' = prev_last_message
        /\ cur_it' = cur_it /\ next_it' = next_it /\ wire' = wire /\ it' = it
        /\ messages_sent' = messages_sent /\ response_buf_size' = response_buf_size
        /\ response_bytes' = response_bytes
    BY <2>1 DEF listVars, spliceVars, netVars
  <2>3. /\ Typed /\ Shaped(kl, s, d, p, m, e, Extra) /\ Pointed(s, p, m, e) /\ Phased(d, m)
        /\ Filled(s, p, m, e) /\ Told(s)
    BY <1>1 DEF Related
  <2>4. Typed' /\ Pointed(s, p, m, e)'
    BY <2>1, <2>2, <2>3 DEF Typed, Pointed
  <2>5. Phased(d, m)' /\ Filled(s, p, m, e)'
    BY <2>1, <2>2, <2>3 DEF Phased, Filled
  <2>6. Told(s)'
    BY <2>1, <2>2, <2>3 DEF Told
  <2>7. Shaped(kl, s, d, p, m, e, Extra)'
    BY <2>1, <2>2, <2>3 DEF Extra
  <2>8. Related(s, d, p, m, e)'
    BY <2>4, <2>5, <2>6, <2>7 DEF Related
  <2>9. IInv' /\ Parts' = Held(s, p, m, e)'
    BY <2>8, Witnessed
  <2>10. Parts = Held(s, p, m, e)
    BY <1>1, PartsHere
  <2>11. Held(s, p, m, e)' = Held(s, p, m, e)
    BY <2>1, <2>2 DEF Held
  <2> QED BY <2>2, <2>9, <2>10, <2>11, Stutters DEF Steps
<1>3. CASE Construct
  BY <1>1, <1>3, ConstructStep
<1>4. CASE FuzzOne
  BY <1>1, <1>4, FuzzOneStep
<1>5. CASE DryRun
  BY <1>1, <1>5, DryRunStep
<1>6. CASE ParseOutBuf
  BY <1>1, <1>6, ParseOutBufStep
<1>7. CASE PushMessage
  BY <1>1, <1>7, PushMessageStep
<1>8. CASE Splice
  BY <1>1, <1>8, SpliceStep
<1>9. CASE FreeMessage
  BY <1>1, <1>9, FreeMessageStep
<1>10. CASE Connect
  BY <1>1, <1>10, ConnectStep
<1>11. CASE SendMessage
  BY <1>1, <1>11, SendMessageStep
<1>12. CASE AllSent
  BY <1>1, <1>12, AllSentStep
<1>13. CASE HandleResponses
  BY <1>1, <1>13, HandleResponsesStep
<1>14. CASE Uninteresting
  BY <1>1, <1>14, UninterestingStep
<1>15. CASE Calibrate
  BY <1>1, <1>15, CalibrateStep
<1>16. CASE Delete
  BY <1>1, <1>16, DeleteStep
<1> QED
  BY <1>2, <1>3, <1>4, <1>5, <1>6, <1>7, <1>8, <1>9, <1>10, <1>11, <1>12, <1>13, <1>14,
     <1>15, <1>16 DEF Next

(* The pointers of the list are always what the lengths of its parts say.  *)
THEOREM ListInvariance == Spec => []IInv
<1>1. Init => IInv
  BY InitHolds
<1>2. IInv /\ [Next]_vars => IInv'
  BY NextSteps DEF Steps
<1> QED
  BY <1>1, <1>2, PTL DEF Spec

(* common_fuzz_stuff, splice after splice: nothing of the list leaks, no   *)
(* node is freed twice or while it is in use, and the mutant is sent whole.*)
THEOREM SplicesAreSound == Spec => []SpliceSound
<1>1. IInv => SpliceSound
  BY ImpliesTypeOK, ImpliesListSound, ImpliesMutantWhole DEF SpliceSound
<1> QED
  BY <1>1, ListInvariance, PTL

(* What send_over_network leaves in response_bytes and messages_sent is    *)
(* what was sent and received, wherever the session broke off.             *)
THEOREM RecordsAreTrue == Spec => []RecordsTrue
<1> QED
  BY ImpliesRecordsTrue, ListInvariance, PTL

(* The linked list implements the test case in three parts, step by step:  *)
(* M1 and M3 are sent as they are, a mutant replaces M2 as a whole, and    *)
(* the messages are sent in their order.                                   *)
THEOREM ListImplementsTestCase == Spec => ImplementsTestCase
<1>1. Init => Abstract!Init
  BY InitHolds
<1>2. IInv /\ [Next]_vars => [Abstract!Next]_(Abstract!vars)
  BY NextSteps DEF Steps
<1> QED
  BY <1>1, <1>2, ListInvariance, PTL DEF Spec, ImplementsTestCase, Abstract!Spec
=============================================================================
