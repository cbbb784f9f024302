-------------------------- MODULE TestCase_proofs --------------------------
(***************************************************************************)
(* What Requests, Responses and Havoc promise of every test case: how it   *)
(* is cut into messages, which states its responses show, and how its      *)
(* bytes are changed within their buffers.                                 *)
(*                                                                         *)
(* Requests keeps types, the cursors, the tiling and the extent of the     *)
(* regions, and the messages read from them.  The invariant says, turn by  *)
(* turn, where the next region starts (Covered) and that no loop over      *)
(* bytes stands before the last byte with a message begun, unless it is an *)
(* SSH identification that ends there.  Of the file of a queue entry and   *)
(* its regions, SavedAs says where each message lies.                      *)
(*                                                                         *)
(* Of Responses, ResponsesGrow holds for every alphabet and length: the    *)
(* scan of a response and that of the one a byte shorter go side by side.  *)
(*                                                                         *)
(* Of Havoc, HavocSound holds for every limit, length, token, region,      *)
(* score and stack: no tweak leaves the allocation it works on, and finds  *)
(* cannot prolong the havoc stage past its bound.                          *)
(***************************************************************************)
EXTENDS Extraction, Havoc, NaturalsInduction, WellFoundedInduction, TLAPS

ByteLoops == Delimited \cup {"dns", "ssh", "tls"}

Regions == [start_byte : Nat, end_byte : Nat]

(* Where the next region starts.                                           *)
Covered == IF regions = <<>> THEN 0 ELSE LastByteCut + 1

(* What the loops over bytes leave when they end.                          *)
Extent ==
    regions # <<>> => LastByteCut \in buf_size - 2 .. buf_size - 1
                          \cup (IF protocol = "dns" THEN buf_size .. buf_size + 2 ELSE {})

Identifying == protocol = "ssh" /\ Len(mem) >= 6 /\ SubSeq(mem, 1, 4) = <<83, 83, 72, 45>>

ByteLoopInv ==
    pc = "scan" /\ protocol \in ByteLoops =>
        /\ byte_count < buf_size =>
              /\ byte_count = cur_end /\ cur_start = Covered
              /\ cur_start =< cur_end
              /\ mem = SubSeq(buf, cur_start + 1, cur_end)
              /\ cur_end = buf_size - 1 => (mem = <<>> \/ Identifying)
        /\ byte_count >= buf_size => Extent

DicomInv ==
    pc = "scan" /\ protocol = "dicom" => byte_count = Covered /\ byte_count =< buf_size

DtlsInv ==
    pc = "scan" /\ protocol = "dtls12" =>
        /\ byte_count < buf_size /\ cur_start = Covered
        /\ cur_start < byte_count \/ (byte_count = 0 /\ cur_start = 0)

EndInv ==
    pc = "scanned" =>
        IF protocol \in {"dicom", "dtls12"} THEN regions # <<>> /\ LastByteCut = buf_size - 1
        ELSE Extent

InputInv == buf_size \in 1 .. UINT - 6

(* The state of the extractors, typed.                                     *)
ScanTypeOK ==
    /\ protocol \in Protocols /\ buf \in Seq(Bytes)
    /\ byte_count \in Nat /\ mem \in Seq(Bytes)
    /\ cur_start \in Nat /\ cur_end \in Nat
    /\ regions \in Seq(Regions)
    /\ pc \in {"scan", "scanned", "cut", "loaded", "save", "convert", "kept", "reloaded"}

ScanInv ==
    /\ InputInv /\ ScanTypeOK
    /\ RegionsTile
    /\ ByteLoopInv /\ DicomInv /\ DtlsInv /\ EndInv
    /\ RegionsCoverBuffer

-----------------------------------------------------------------------------
(* Operators.                                                              *)

(* Shifting a byte into an unsigned int leaves an unsigned int.            *)
LEMMA ShiftedType ==
    ASSUME NEW n \in Nat, NEW b \in Bytes
    PROVE  Shifted(n, b) \in 0 .. UINT - 1
BY RequestsAssumption, SMT DEF Shifted, Bytes

(* A length read from a header is an unsigned int.                         *)
LEMMA NtohlType ==
    ASSUME NEW a \in Bytes, NEW b \in Bytes, NEW c \in Bytes, NEW d \in Bytes
    PROVE  ntohl(a, b, c, d) \in 0 .. UINT - 1
<1>1. a \in Nat BY DEF Bytes
<1>2. Shifted(a, b) \in Nat BY <1>1, ShiftedType, RequestsAssumption
<1>3. Shifted(Shifted(a, b), c) \in Nat BY <1>2, ShiftedType, RequestsAssumption
<1>4. QED BY <1>3, ShiftedType DEF ntohl

(* mem and the byte just read are one part of the buffer.                  *)
LEMMA PartGrows ==
    ASSUME NEW S, NEW s \in Seq(S), NEW i \in Nat, NEW j \in Nat, i =< j, j < Len(s)
    PROVE  Append(SubSeq(s, i + 1, j), s[j + 1]) = SubSeq(s, i + 1, j + 1)
OBVIOUS

(* The length of mem.                                                      *)
LEMMA PartLength ==
    ASSUME NEW S, NEW s \in Seq(S), NEW i \in Nat, NEW j \in Nat, i =< j, j =< Len(s)
    PROVE  Len(SubSeq(s, i + 1, j)) = j - i
OBVIOUS

(* The byte that a turn reads.                                             *)
LEMMA Reading ==
    ASSUME ScanTypeOK, byte_count < buf_size
    PROVE  /\ Byte(byte_count) \in Bytes
           /\ Filled \in Seq(Bytes) /\ Len(Filled) = Len(mem) + 1
           /\ \A i \in 1 .. Len(Filled) : Filled[i] \in Bytes
BY DEF ScanTypeOK, Filled, Byte, buf_size

(* A region that starts where the regions end keeps them tiled.            *)
LEMMA RegionAdded ==
    ASSUME regions \in Seq(Regions), RegionsTile,
           NEW first \in Nat, NEW last \in Nat, first = Covered, first =< last,
           regions' = Append(regions, Region(first, last))
    PROVE  /\ regions' \in Seq(Regions) /\ RegionsTile'
           /\ regions' # <<>> /\ LastByteCut' = last /\ Covered' = last + 1
<1>1. Region(first, last) \in Regions BY DEF Region, Regions
<1>2. /\ regions' \in Seq(Regions) /\ Len(regions') = Len(regions) + 1
      /\ regions'[Len(regions')] = Region(first, last)
      /\ \A i \in 1 .. Len(regions) : regions'[i] = regions[i]
  BY <1>1
<1>3. regions' # <<>> /\ LastByteCut' = last /\ Covered' = last + 1
  BY <1>2 DEF LastByteCut, Covered, Region
<1>4. ASSUME NEW i \in DOMAIN regions'
      PROVE  /\ regions'[i].start_byte = IF i = 1 THEN 0 ELSE regions'[i - 1].end_byte + 1
             /\ regions'[i].start_byte =< regions'[i].end_byte
  <2>1. CASE i \in 1 .. Len(regions)
    <3>1. regions'[i] = regions[i] BY <2>1, <1>2
    <3>2. i = 1 \/ regions'[i - 1] = regions[i - 1] BY <2>1, <1>2
    <3>3. QED BY <3>1, <3>2, <2>1 DEF RegionsTile
  <2>2. CASE i = Len(regions) + 1
    <3>1. regions'[i] = Region(first, last) BY <2>2, <1>2
    <3>2. CASE regions = <<>> BY <2>2, <3>1, <3>2 DEF Covered, Region
    <3>3. CASE regions # <<>>
      <4>1. regions'[i - 1] = regions[Len(regions)] /\ i # 1 BY <2>2, <1>2, <3>3
      <4>2. QED BY <4>1, <3>1, <3>3 DEF Covered, LastByteCut, Region
    <3>4. QED BY <3>2, <3>3
  <2>3. QED BY <2>1, <2>2, <1>2
<1>5. QED BY <1>2, <1>3, <1>4 DEF RegionsTile

-----------------------------------------------------------------------------
(* The loops over bytes.                                                   *)

(* At the head of a turn of a loop over bytes.                             *)
LEMMA TurnOfByteLoop ==
    ASSUME ScanInv, pc = "scan", byte_count < buf_size, protocol \in ByteLoops
    PROVE  /\ byte_count = cur_end /\ cur_start = Covered /\ cur_start =< cur_end
           /\ mem = SubSeq(buf, cur_start + 1, cur_end) /\ Len(mem) = cur_end - cur_start
           /\ Filled = SubSeq(buf, cur_start + 1, cur_end + 1)
           /\ cur_end = buf_size - 1 => (mem = <<>> \/ Identifying)
<1>1. /\ byte_count = cur_end /\ cur_start = Covered /\ cur_start =< cur_end
      /\ mem = SubSeq(buf, cur_start + 1, cur_end)
      /\ cur_end = buf_size - 1 => (mem = <<>> \/ Identifying)
  BY DEF ScanInv, ByteLoopInv
<1>2. buf \in Seq(Bytes) /\ cur_start \in Nat /\ cur_end \in Nat BY DEF ScanInv, ScanTypeOK
<1>3. Len(mem) = cur_end - cur_start BY <1>1, <1>2, PartLength DEF buf_size
<1>4. Filled = SubSeq(buf, cur_start + 1, cur_end + 1)
  BY <1>1, <1>2, PartGrows DEF buf_size, Filled, Byte
<1>5. QED BY <1>1, <1>3, <1>4

(* A region is cut off: the loop goes on behind it, or the buffer is done.  *)
LEMMA CutOff ==
    ASSUME ScanInv, pc = "scan", byte_count < buf_size, protocol \in ByteLoops,
           UNCHANGED <<protocol, buf>>,
           NEW last \in Nat, cur_start =< last,
           last < buf_size \/ (protocol = "dns" /\ last =< buf_size + 2),
           regions' = Append(regions, Region(cur_start, last)),
           \/ StartAfter(last) /\ byte_count' = last + 1 /\ pc' = "scan"
           \/ /\ last = buf_size - 1
              /\ mem' \in Seq(Bytes) /\ cur_start' \in Nat /\ cur_end' \in Nat
              /\ \/ pc' = "scan" /\ byte_count' = buf_size
                 \/ pc' = "scanned" /\ byte_count' \in Nat
    PROVE  ScanInv'
<1> USE DEF buf_size
<1>1. /\ protocol' = protocol /\ buf' = buf /\ protocol \in Protocols /\ buf \in Seq(Bytes)
      /\ Len(buf) \in 1 .. UINT - 6 /\ cur_start \in Nat /\ regions \in Seq(Regions)
      /\ protocol \notin {"dicom", "dtls12"}
  BY DEF ScanInv, ScanTypeOK, InputInv, ByteLoops, Delimited
<1>2. /\ regions' \in Seq(Regions) /\ RegionsTile'
      /\ regions' # <<>> /\ LastByteCut' = last /\ Covered' = last + 1
  BY <1>1, TurnOfByteLoop, RegionAdded DEF ScanInv
<1>3. Len(buf) \in Nat /\ UINT \in Nat BY <1>1, RequestsAssumption
<1>4. CASE StartAfter(last) /\ byte_count' = last + 1 /\ pc' = "scan"
  <2>1. mem' = <<>> /\ cur_start' = last + 1 /\ cur_end' = last + 1
    BY <1>4 DEF StartAfter
  <2>2. ScanTypeOK' BY <1>1, <1>2, <1>4, <2>1 DEF ScanTypeOK
  <2>3. mem' = SubSeq(buf', cur_start' + 1, cur_end')
    BY <1>1, <2>1
  <2>4. byte_count' >= Len(buf') => Extent'
    BY <1>1, <1>2, <1>3, <1>4 DEF Extent
  <2>5. ByteLoopInv' BY <1>1, <1>2, <1>4, <2>1, <2>3, <2>4 DEF ByteLoopInv
  <2>6. QED BY <1>1, <1>2, <1>4, <2>2, <2>5
            DEF ScanInv, InputInv, DicomInv, DtlsInv, EndInv, RegionsCoverBuffer
<1>5. CASE /\ last = buf_size - 1
           /\ mem' \in Seq(Bytes) /\ cur_start' \in Nat /\ cur_end' \in Nat
           /\ \/ pc' = "scan" /\ byte_count' = buf_size
              \/ pc' = "scanned" /\ byte_count' \in Nat
  <2>1. ScanTypeOK' BY <1>1, <1>2, <1>3, <1>5 DEF ScanTypeOK
  <2>2. Extent' BY <1>1, <1>2, <1>3, <1>5 DEF Extent
  <2>3. pc' = "scan" => byte_count' = Len(buf') BY <1>1, <1>5
  <2>4. ~(Len(buf') < Len(buf')) BY <1>1, <1>3
  <2>5. ByteLoopInv' BY <2>2, <2>3, <2>4 DEF ByteLoopInv
  <2>6. QED BY <1>1, <1>2, <1>5, <2>1, <2>2, <2>5
            DEF ScanInv, InputInv, DicomInv, DtlsInv, EndInv, RegionsCoverBuffer
<1>6. QED BY <1>4, <1>5

(* The byte is kept and the loop goes on.                                  *)
LEMMA Keep ==
    ASSUME ScanInv, pc = "scan", byte_count < buf_size, protocol \in ByteLoops,
           UNCHANGED <<protocol, buf, cur_start, regions, pc>>,
           mem' = Filled, cur_end' = cur_end + 1, byte_count' = byte_count + 1,
           cur_end + 1 = buf_size - 1 => Identifying',
           cur_end + 1 = buf_size => regions = <<>> \/ cur_start = cur_end
    PROVE  ScanInv'
<1> USE DEF buf_size
<1>1. /\ protocol' = protocol /\ buf' = buf /\ protocol \in Protocols /\ buf \in Seq(Bytes)
      /\ Len(buf) \in 1 .. UINT - 6 /\ cur_start \in Nat /\ cur_end \in Nat
      /\ regions \in Seq(Regions) /\ protocol \notin {"dicom", "dtls12"}
  BY DEF ScanInv, ScanTypeOK, InputInv, ByteLoops, Delimited
<1>2. Len(buf) \in Nat BY <1>1
<1>3. ScanTypeOK' BY <1>1, Reading DEF ScanInv, ScanTypeOK
<1>4. Covered' = Covered /\ LastByteCut' = LastByteCut BY DEF Covered, LastByteCut
<1>5. byte_count' >= Len(buf') => Extent'
  <2>1. SUFFICES ASSUME byte_count' >= Len(buf), regions # <<>> PROVE Extent' BY <1>1 DEF Extent
  <2>2. cur_end + 1 = Len(buf) BY <2>1, <1>1, <1>2, TurnOfByteLoop
  <2>3. cur_start = LastByteCut + 1 BY <2>1, TurnOfByteLoop DEF Covered
  <2>4. LastByteCut \in Nat
    <3>1. Len(regions) \in DOMAIN regions BY <2>1, <1>1
    <3>2. regions[Len(regions)] \in Regions BY <3>1, <1>1
    <3>3. QED BY <3>2 DEF LastByteCut, Regions
  <2>5. LastByteCut = Len(buf) - 2 BY <2>1, <2>2, <2>3, <2>4, <1>1, <1>2
  <2>6. QED BY <2>5, <1>1, <1>2, <1>4 DEF Extent
<1>6. ByteLoopInv' BY <1>1, <1>2, <1>4, <1>5, TurnOfByteLoop, SMTT(30) DEF ByteLoopInv
<1>7. RegionsTile' BY DEF ScanInv, RegionsTile
<1>8. QED BY <1>1, <1>3, <1>6, <1>7
          DEF ScanInv, InputInv, DicomInv, DtlsInv, EndInv, RegionsCoverBuffer

(* A delimiter ends a region at the byte read, which the loop then leaves. *)
LEMMA EndRequestStep ==
    ASSUME ScanInv, EndRequest PROVE ScanInv'
<1>1. /\ pc = "scan" /\ byte_count < buf_size /\ protocol \in ByteLoops
      /\ UNCHANGED <<protocol, buf, pc>>
      /\ regions' = Append(regions, Region(cur_start, cur_end))
      /\ StartAfter(cur_end) /\ byte_count' = byte_count + 1
  BY DEF EndRequest, Scanning, ByteLoops
<1>2. cur_start =< cur_end /\ cur_end < buf_size /\ byte_count' = cur_end + 1
  BY <1>1, TurnOfByteLoop
<1>3. cur_end \in Nat BY DEF ScanInv, ScanTypeOK
<1>4. QED BY <1>1, <1>2, <1>3, CutOff

(* A byte is kept, and ends the last region if it is the last but one.     *)
LEMMA NextByteStep ==
    ASSUME ScanInv, NextByte PROVE ScanInv'
<1>1. /\ pc = "scan" /\ byte_count < buf_size /\ protocol \in Protocols \ {"dicom", "dtls12"}
      /\ UNCHANGED <<protocol, buf, cur_start>>
      /\ mem' = Filled /\ cur_end' = cur_end + 1 /\ byte_count' = byte_count + 1
      /\ IF cur_end + 1 = buf_size - 1
           THEN regions' = Append(regions, Region(cur_start, cur_end + 1)) /\ pc' = "scanned"
           ELSE UNCHANGED <<regions, pc>>
  BY DEF NextByte, Scanning
<1>2. protocol \in ByteLoops BY <1>1 DEF Protocols, ByteLoops
<1>3. /\ cur_start \in Nat /\ cur_end \in Nat /\ byte_count \in Nat /\ buf_size \in Nat
      /\ mem \in Seq(Bytes)
  BY DEF ScanInv, ScanTypeOK, buf_size
<1>4. CASE cur_end + 1 = buf_size - 1
  <2>1. mem' \in Seq(Bytes) /\ byte_count' \in Nat BY <1>1, <1>3, Reading DEF ScanInv
  <2>2. cur_start =< cur_end + 1 /\ cur_end + 1 \in Nat /\ cur_end + 1 < buf_size
    BY <1>1, <1>2, <1>3, <1>4, TurnOfByteLoop
  <2>3. cur_start' \in Nat /\ cur_end' \in Nat BY <1>1, <1>3
  <2>4. QED BY <1>1, <1>2, <1>4, <2>1, <2>2, <2>3, CutOff
<1>5. CASE cur_end + 1 # buf_size - 1
  <2>1. protocol = "ssh" => Len(mem) < 6 BY DEF NextByte, Delimited
  <2>2. cur_end + 1 = buf_size => cur_start = cur_end
    <3>1. SUFFICES ASSUME cur_end + 1 = buf_size PROVE cur_start = cur_end OBVIOUS
    <3>2. cur_end = buf_size - 1 BY <3>1, <1>3
    <3>3. mem = <<>> BY <1>1, <1>2, <1>3, <2>1, <3>2, TurnOfByteLoop DEF Identifying
    <3>4. Len(mem) = cur_end - cur_start BY <1>1, <1>2, TurnOfByteLoop
    <3>5. QED BY <1>3, <3>3, <3>4
  <2>3. QED BY <1>1, <1>2, <1>5, <2>2, Keep
<1>6. QED BY <1>4, <1>5

(* A query ends four bytes behind its null byte, wherever that is.         *)
LEMMA DnsStep ==
    ASSUME ScanInv, extract_requests_dns PROVE ScanInv'
<1>1. /\ pc = "scan" /\ byte_count < buf_size /\ protocol = "dns" /\ protocol \in ByteLoops
      /\ UNCHANGED <<protocol, buf>> /\ Len(mem) >= 12
      /\ regions' = Append(regions, Region(cur_start, cur_end + 4))
      /\ byte_count' = byte_count + 5
      /\ IF cur_end + 4 = buf_size - 1
           THEN pc' = "scanned" /\ cur_end' = cur_end + 4 /\ UNCHANGED <<mem, cur_start>>
           ELSE StartAfter(cur_end + 4) /\ pc' = "scan"
  BY DEF extract_requests_dns, Scanning, ByteLoops
<1>2. /\ cur_start \in Nat /\ cur_end \in Nat /\ byte_count \in Nat /\ buf_size \in Nat
      /\ mem \in Seq(Bytes)
  BY DEF ScanInv, ScanTypeOK, buf_size
<1>3. /\ byte_count = cur_end /\ cur_start =< cur_end
      /\ cur_end = buf_size - 1 => mem = <<>>
  BY <1>1, TurnOfByteLoop DEF Identifying
<1>4. cur_end # buf_size - 1 BY <1>1, <1>2, <1>3
<1>5. /\ cur_end + 4 \in Nat /\ cur_start =< cur_end + 4 /\ cur_end + 4 =< buf_size + 2
      /\ byte_count' = (cur_end + 4) + 1 /\ byte_count' \in Nat
  BY <1>1, <1>2, <1>3, <1>4
<1> DEFINE last == cur_end + 4
<1>6. regions' = Append(regions, Region(cur_start, last)) BY <1>1
<1>7. last \in Nat /\ cur_start =< last /\ last =< buf_size + 2 /\ byte_count' = last + 1
  BY <1>5
<1>8. CASE last = buf_size - 1
  <2>1. mem' \in Seq(Bytes) /\ cur_start' \in Nat /\ cur_end' \in Nat /\ pc' = "scanned"
    BY <1>1, <1>2, <1>8
  <2> HIDE DEF last
  <2>2. QED BY <1>1, <1>5, <1>6, <1>7, <1>8, <2>1, CutOff
<1>9. CASE last # buf_size - 1
  <2>1. StartAfter(last) /\ pc' = "scan" BY <1>1, <1>9
  <2> HIDE DEF last
  <2>2. QED BY <1>1, <1>6, <1>7, <2>1, CutOff
<1>10. QED BY <1>8, <1>9

(* A region that ends before or at the last byte.                          *)
LEMMA CutAtStep ==
    ASSUME ScanInv, pc = "scan", byte_count < buf_size, protocol \in ByteLoops,
           UNCHANGED <<protocol, buf>>,
           NEW last \in Nat, cur_start =< last, last < buf_size, CutAt(last),
           byte_count' = last + 1
    PROVE  ScanInv'
<1>1. /\ cur_start \in Nat /\ cur_end \in Nat /\ byte_count \in Nat /\ buf_size \in Nat
      /\ mem \in Seq(Bytes)
  BY DEF ScanInv, ScanTypeOK, buf_size
<1>2. regions' = Append(regions, Region(cur_start, last)) /\ pc' = "scan" BY DEF CutAt
<1>3. CASE last < buf_size - 1
  <2>1. StartAfter(last) BY <1>3 DEF CutAt
  <2>2. QED BY <1>2, <2>1, CutOff
<1>4. CASE ~(last < buf_size - 1)
  <2>1. cur_end' = last /\ mem' = mem /\ cur_start' = cur_start BY <1>4 DEF CutAt
  <2>2. last = buf_size - 1 /\ byte_count' = buf_size BY <1>1, <1>4
  <2>3. QED BY <1>1, <1>2, <2>1, <2>2, CutOff
<1>5. QED BY <1>3, <1>4

(* What is skipped ends inside the buffer, whatever the length says.       *)
LEMMA SkipStep ==
    ASSUME ScanInv, pc = "scan", byte_count < buf_size, protocol \in ByteLoops,
           UNCHANGED <<protocol, buf>>,
           Len(mem) >= 5, ~Identifying,
           NEW n \in Nat, Skip(n)
    PROVE  ScanInv'
<1> DEFINE left    == buf_size - (byte_count + 1)
           skipped == IF n < left THEN n ELSE left
           back    == IF skipped < left THEN 1 ELSE 0
           last    == cur_end + skipped - back
<1>1. byte_count' = byte_count + 1 + skipped - back /\ CutAt(last) BY DEF Skip
<1>2. /\ cur_start \in Nat /\ cur_end \in Nat /\ byte_count \in Nat /\ buf_size \in Nat
      /\ mem \in Seq(Bytes)
  BY DEF ScanInv, ScanTypeOK, buf_size
<1>3. /\ byte_count = cur_end /\ cur_start =< cur_end /\ Len(mem) = cur_end - cur_start
      /\ cur_end = buf_size - 1 => mem = <<>>
  BY TurnOfByteLoop
<1>4. cur_end # buf_size - 1 /\ cur_end < buf_size BY <1>2, <1>3
<1>5. /\ last \in Nat /\ cur_start =< last /\ last < buf_size /\ byte_count' = last + 1
  BY <1>1, <1>2, <1>3, <1>4
<1> HIDE DEF last
<1>6. QED BY <1>1, <1>5, CutAtStep

(* An identification may come to the last byte without an end.             *)
LEMMA SshIdentificationByteStep ==
    ASSUME ScanInv, SshIdentificationByte PROVE ScanInv'
<1>1. /\ pc = "scan" /\ byte_count < buf_size /\ protocol = "ssh" /\ protocol \in ByteLoops
      /\ UNCHANGED <<protocol, buf, cur_start, regions, pc>> /\ Len(mem) >= 6
      /\ SubSeq(Filled, 1, 4) = <<83, 83, 72, 45>> /\ byte_count + 1 < buf_size
      /\ mem' = Filled /\ cur_end' = cur_end + 1 /\ byte_count' = byte_count + 1
  BY DEF SshIdentificationByte, SshIdentification, Scanning, ByteLoops
<1>2. byte_count = cur_end /\ cur_end \in Nat /\ buf_size \in Nat /\ mem \in Seq(Bytes)
  BY <1>1, TurnOfByteLoop DEF ScanInv, ScanTypeOK, buf_size
<1>3. Identifying'
  <2>1. Len(Filled) >= 6 BY <1>1, <1>2, Reading DEF ScanInv
  <2>2. QED BY <1>1, <2>1 DEF Identifying
<1>4. cur_end + 1 # buf_size BY <1>1, <1>2
<1>5. QED BY <1>1, <1>3, <1>4, Keep

(* An identification ends at its line or at the last byte.                 *)
LEMMA SshIdentificationEndStep ==
    ASSUME ScanInv, SshIdentificationEnd PROVE ScanInv'
<1>1. /\ pc = "scan" /\ byte_count < buf_size /\ protocol \in ByteLoops
      /\ UNCHANGED <<protocol, buf>> /\ byte_count' = byte_count + 1 /\ CutAt(cur_end)
  BY DEF SshIdentificationEnd, Scanning, ByteLoops
<1>2. cur_end \in Nat /\ byte_count = cur_end /\ cur_start =< cur_end
  BY <1>1, TurnOfByteLoop DEF ScanInv, ScanTypeOK
<1>3. QED BY <1>1, <1>2, CutAtStep

(* The first bytes of mem are those it had before this turn.               *)
LEMMA HeaderKept ==
    ASSUME ScanTypeOK, byte_count < buf_size, Len(mem) >= 4
    PROVE  SubSeq(Filled, 1, 4) = SubSeq(mem, 1, 4)
<1>1. mem \in Seq(Bytes) /\ Byte(byte_count) \in Bytes BY Reading DEF ScanTypeOK
<1>2. \A i \in 1 .. 4 : Filled[i] = mem[i] BY <1>1 DEF Filled
<1>3. QED BY <1>1, <1>2, Reading

(* The length of a packet wraps, and is skipped as far as there is one.    *)
LEMMA SshStep ==
    ASSUME ScanInv, extract_requests_ssh PROVE ScanInv'
<1> DEFINE size == ntohl(Filled[1], Filled[2], Filled[3], Filled[4])
           mac  == IF Filled[6] \in 20 .. 49 THEN 0 ELSE 8
           skip == Wrap(Wrap(size - 2) + mac)
<1>1. /\ pc = "scan" /\ byte_count < buf_size /\ protocol = "ssh" /\ protocol \in ByteLoops
      /\ UNCHANGED <<protocol, buf>> /\ Len(mem) >= 6 /\ ~SshIdentification /\ Skip(skip)
  BY DEF extract_requests_ssh, Scanning, ByteLoops
<1>2. mem \in Seq(Bytes) /\ ScanTypeOK BY DEF ScanInv, ScanTypeOK
<1>3. Filled[1] \in Bytes /\ Filled[2] \in Bytes /\ Filled[3] \in Bytes /\ Filled[4] \in Bytes
  BY <1>1, <1>2, Reading
<1>4. size \in 0 .. UINT - 1 BY <1>3, NtohlType
<1> HIDE DEF size
<1>5. mac \in {0, 8} OBVIOUS
<1> HIDE DEF mac
<1>6. Wrap(size - 2) \in 0 .. UINT - 1 BY <1>4, RequestsAssumption DEF Wrap
<1>7. skip \in Nat BY <1>5, <1>6, RequestsAssumption DEF Wrap
<1>8. Len(mem) >= 5 /\ Len(mem) >= 4 BY <1>1, <1>2
<1>9. ~Identifying
  <2>1. SubSeq(Filled, 1, 4) = SubSeq(mem, 1, 4) BY <1>1, <1>2, <1>8, HeaderKept
  <2>2. QED BY <1>1, <2>1 DEF Identifying, SshIdentification
<1> HIDE DEF skip
<1>10. QED BY <1>1, <1>7, <1>8, <1>9, SkipStep

(* The length of a record is skipped as far as there is one.               *)
LEMMA TlsStep ==
    ASSUME ScanInv, extract_requests_tls PROVE ScanInv'
<1> DEFINE size == Filled[4] * 256 + Filled[5]
<1>1. /\ pc = "scan" /\ byte_count < buf_size /\ protocol = "tls" /\ protocol \in ByteLoops
      /\ UNCHANGED <<protocol, buf>> /\ Len(mem) >= 5 /\ Skip(size)
  BY DEF extract_requests_tls, Scanning, ByteLoops
<1>2. mem \in Seq(Bytes) /\ ScanTypeOK BY DEF ScanInv, ScanTypeOK
<1>3. Filled[4] \in Bytes /\ Filled[5] \in Bytes BY <1>1, <1>2, Reading
<1>4. \A a \in Bytes, b \in Bytes : a * 256 + b \in Nat BY DEF Bytes
<1>5. size \in Nat BY <1>3, <1>4
<1> HIDE DEF size
<1>6. QED BY <1>1, <1>5, SkipStep DEF Identifying

-----------------------------------------------------------------------------
(* The other two loops, and what follows a loop.                           *)

(* A PDU that is whole starts where the one before it ended.               *)
LEMMA DicomStep ==
    ASSUME ScanInv, extract_requests_dicom PROVE ScanInv'
<1> USE DEF buf_size
<1>1. /\ pc = "scan" /\ protocol = "dicom" /\ protocol' = protocol /\ buf' = buf
      /\ byte_count + 5 < Len(buf) /\ byte_count =< end /\ end < Len(buf)
      /\ regions' = Append(regions, Region(byte_count, end))
      /\ byte_count' = Wrap(byte_count + packet_length)
      /\ UNCHANGED <<mem, cur_start, cur_end, pc>>
  BY DEF extract_requests_dicom, Scanning, WholePdu
<1>2. /\ buf \in Seq(Bytes) /\ Len(buf) \in 1 .. UINT - 6 /\ byte_count \in Nat
      /\ regions \in Seq(Regions) /\ UINT \in Nat /\ UINT >= 65536
      /\ byte_count = Covered
  BY <1>1, RequestsAssumption DEF ScanInv, ScanTypeOK, InputInv, DicomInv
<1>3. packet_length \in 0 .. UINT - 1
  <2>1. \A i \in 0 .. Len(buf) - 1 : Byte(i) \in Bytes BY <1>2 DEF Byte
  <2>2. /\ Byte(byte_count + 2) \in Bytes /\ Byte(byte_count + 3) \in Bytes
        /\ Byte(byte_count + 4) \in Bytes /\ Byte(byte_count + 5) \in Bytes
    BY <1>1, <1>2, <2>1
  <2>3. pdu_length \in 0 .. UINT - 1 BY <2>2, NtohlType DEF pdu_length
  <2>4. QED BY <1>2, <2>3 DEF packet_length, Wrap
<1>4. end = byte_count + packet_length - 1 /\ end \in Nat
  BY <1>1, <1>2, <1>3 DEF end, Wrap
<1>5. byte_count' = end + 1 BY <1>1, <1>2, <1>3, <1>4 DEF Wrap
<1>6. regions' \in Seq(Regions) /\ RegionsTile' /\ Covered' = end + 1
  BY <1>1, <1>2, <1>4, RegionAdded DEF ScanInv
<1>7. ScanTypeOK' BY <1>1, <1>4, <1>5, <1>6 DEF ScanInv, ScanTypeOK
<1>8. DicomInv' BY <1>1, <1>2, <1>4, <1>5, <1>6 DEF DicomInv
<1>9. protocol' \notin ByteLoops BY <1>1 DEF ByteLoops, Delimited
<1>10. QED BY <1>1, <1>6, <1>7, <1>8, <1>9
           DEF ScanInv, InputInv, ByteLoopInv, DtlsInv, EndInv, RegionsCoverBuffer

(* What is not a PDU is one region to the end.                             *)
LEMMA DicomRestStep ==
    ASSUME ScanInv, DicomRest PROVE ScanInv'
<1> USE DEF buf_size
<1>1. /\ pc = "scan" /\ protocol = "dicom" /\ protocol' = protocol /\ buf' = buf
      /\ byte_count < Len(buf)
      /\ regions' = Append(regions, Region(byte_count, Len(buf) - 1))
      /\ pc' = "scanned" /\ UNCHANGED <<byte_count, mem, cur_start, cur_end>>
  BY DEF DicomRest, Scanning, cursors
<1>2. /\ buf \in Seq(Bytes) /\ Len(buf) \in Nat /\ byte_count \in Nat
      /\ regions \in Seq(Regions) /\ byte_count = Covered
  BY <1>1 DEF ScanInv, ScanTypeOK, DicomInv
<1>3. Len(buf) - 1 \in Nat /\ byte_count =< Len(buf) - 1 BY <1>1, <1>2
<1>4. /\ regions' \in Seq(Regions) /\ RegionsTile'
      /\ regions' # <<>> /\ LastByteCut' = Len(buf) - 1
  BY <1>1, <1>2, <1>3, RegionAdded DEF ScanInv
<1>5. ScanTypeOK' BY <1>1, <1>4 DEF ScanInv, ScanTypeOK
<1>6. QED BY <1>1, <1>4, <1>5
          DEF ScanInv, InputInv, ByteLoopInv, DicomInv, DtlsInv, EndInv, RegionsCoverBuffer

(* A record ends before the byte at which the next may start.              *)
LEMMA DtlsRecordStep ==
    ASSUME ScanInv, extract_requests_dtls12 PROVE ScanInv'
<1> USE DEF buf_size
<1>1. /\ pc = "scan" /\ protocol = "dtls12" /\ protocol' = protocol /\ buf' = buf
      /\ byte_count > 3 /\ byte_count + 1 < Len(buf)
      /\ regions' = Append(regions, Region(cur_start, byte_count - 1))
      /\ cur_start' = byte_count /\ byte_count' = byte_count + 1
      /\ UNCHANGED <<mem, cur_end, pc>>
  BY DEF extract_requests_dtls12, Scanning, DtlsRecordMayStart
<1>2. /\ buf \in Seq(Bytes) /\ Len(buf) \in Nat /\ byte_count \in Nat /\ cur_start \in Nat
      /\ regions \in Seq(Regions) /\ cur_start = Covered /\ cur_start < byte_count
  BY <1>1 DEF ScanInv, ScanTypeOK, DtlsInv
<1>3. byte_count - 1 \in Nat /\ cur_start =< byte_count - 1 BY <1>1, <1>2
<1>4. /\ regions' \in Seq(Regions) /\ RegionsTile' /\ Covered' = byte_count - 1 + 1
  BY <1>1, <1>2, <1>3, RegionAdded DEF ScanInv
<1>5. ScanTypeOK' BY <1>1, <1>2, <1>4 DEF ScanInv, ScanTypeOK
<1>6. DtlsInv' BY <1>1, <1>2, <1>4 DEF DtlsInv
<1>7. protocol' \notin ByteLoops BY <1>1 DEF ByteLoops, Delimited
<1>8. QED BY <1>1, <1>4, <1>5, <1>6, <1>7
          DEF ScanInv, InputInv, ByteLoopInv, DicomInv, EndInv, RegionsCoverBuffer

(* The last record ends with the buffer.                                   *)
LEMMA DtlsByteStep ==
    ASSUME ScanInv, DtlsByte PROVE ScanInv'
<1> USE DEF buf_size
<1>1. /\ pc = "scan" /\ protocol = "dtls12" /\ protocol' = protocol /\ buf' = buf
      /\ byte_count < Len(buf)
      /\ IF byte_count = Len(buf) - 1
           THEN /\ regions' = Append(regions, Region(cur_start, byte_count))
                /\ pc' = "scanned"
                /\ UNCHANGED <<byte_count, mem, cur_start, cur_end>>
           ELSE byte_count' = byte_count + 1 /\ UNCHANGED <<mem, cur_start, cur_end, regions, pc>>
  BY DEF DtlsByte, Scanning, cursors
<1>2. /\ buf \in Seq(Bytes) /\ Len(buf) \in Nat /\ byte_count \in Nat /\ cur_start \in Nat
      /\ regions \in Seq(Regions) /\ cur_start = Covered /\ cur_start =< byte_count
  BY <1>1 DEF ScanInv, ScanTypeOK, DtlsInv
<1>3. protocol' \notin ByteLoops BY <1>1 DEF ByteLoops, Delimited
<1>4. CASE byte_count = Len(buf) - 1
  <2>1. /\ regions' \in Seq(Regions) /\ RegionsTile'
        /\ regions' # <<>> /\ LastByteCut' = byte_count
    BY <1>1, <1>2, <1>4, RegionAdded DEF ScanInv
  <2>2. ScanTypeOK' BY <1>1, <1>4, <2>1 DEF ScanInv, ScanTypeOK
  <2>3. QED BY <1>1, <1>3, <1>4, <2>1, <2>2
            DEF ScanInv, InputInv, ByteLoopInv, DicomInv, DtlsInv, EndInv, RegionsCoverBuffer
<1>5. CASE byte_count # Len(buf) - 1
  <2>1. ScanTypeOK' BY <1>1, <1>2, <1>5 DEF ScanInv, ScanTypeOK
  <2>2. Covered' = Covered BY <1>1, <1>5 DEF Covered, LastByteCut
  <2>3. DtlsInv' BY <1>1, <1>2, <1>5, <2>2 DEF DtlsInv
  <2>4. RegionsTile' BY <1>1, <1>5 DEF ScanInv, RegionsTile
  <2>5. QED BY <1>1, <1>3, <1>5, <2>1, <2>3, <2>4
            DEF ScanInv, InputInv, ByteLoopInv, DicomInv, EndInv, RegionsCoverBuffer
<1>6. QED BY <1>4, <1>5

(* The loops leave what they found.                                        *)
LEMMA EndOfBufferStep ==
    ASSUME ScanInv, EndOfBuffer PROVE ScanInv'
<1> USE DEF buf_size
<1>1. /\ pc = "scan" /\ byte_count >= Len(buf) /\ pc' = "scanned"
      /\ UNCHANGED <<protocol, buf, byte_count, mem, cur_start, cur_end, regions>>
  BY DEF EndOfBuffer, cursors
<1>2. /\ protocol \in Protocols /\ buf \in Seq(Bytes) /\ Len(buf) \in Nat /\ Len(buf) > 0
      /\ byte_count \in Nat /\ regions \in Seq(Regions)
  BY RequestsAssumption DEF ScanInv, ScanTypeOK, InputInv
<1>3. ScanTypeOK' /\ RegionsTile' BY <1>1 DEF ScanInv, ScanTypeOK, RegionsTile
<1>4. EndInv'
  <2>1. CASE protocol \in ByteLoops
    <3>1. protocol \notin {"dicom", "dtls12"} BY <2>1 DEF ByteLoops, Delimited
    <3>2. Extent BY <1>1, <2>1 DEF ScanInv, ByteLoopInv
    <3>3. Extent' BY <1>1, <3>2 DEF Extent, LastByteCut
    <3>4. QED BY <1>1, <3>1, <3>3 DEF EndInv
  <2>2. CASE protocol = "dicom"
    <3>1. Covered = Len(buf) BY <1>1, <1>2, <2>2 DEF ScanInv, DicomInv
    <3>2. regions # <<>> /\ LastByteCut + 1 = Len(buf) BY <1>2, <3>1 DEF Covered
    <3>3. regions[Len(regions)] \in Regions BY <1>2, <3>2
    <3>4. LastByteCut = Len(buf) - 1 BY <1>2, <3>2, <3>3 DEF LastByteCut, Regions
    <3>5. QED BY <1>1, <2>2, <3>2, <3>4 DEF EndInv, LastByteCut
  <2>3. CASE protocol = "dtls12"
    BY <1>1, <1>2, <2>3 DEF ScanInv, DtlsInv
  <2>4. QED BY <1>2, <2>1, <2>2, <2>3 DEF Protocols, ByteLoops
<1>5. QED BY <1>1, <1>3, <1>4
          DEF ScanInv, InputInv, ByteLoopInv, DicomInv, DtlsInv, RegionsCoverBuffer

(* Nothing found: the buffer is one region.                                *)
LEMMA ReturnStep ==
    ASSUME ScanInv, Return PROVE ScanInv'
<1> USE DEF buf_size
<1>1. /\ pc = "scanned" /\ pc' = "cut"
      /\ regions' = IF regions = <<>> THEN <<Region(0, Len(buf) - 1)>> ELSE regions
      /\ UNCHANGED <<protocol, buf, byte_count, mem, cur_start, cur_end>>
  BY DEF Return, cursors
<1>2. /\ protocol \in Protocols /\ buf \in Seq(Bytes) /\ Len(buf) \in Nat /\ Len(buf) > 0
      /\ regions \in Seq(Regions)
  BY RequestsAssumption DEF ScanInv, ScanTypeOK, InputInv
<1>3. CASE regions = <<>>
  <2>1. protocol \notin {"dicom", "dtls12"} BY <1>1, <1>3 DEF ScanInv, EndInv
  <2>2. /\ 0 \in Nat /\ Len(buf) - 1 \in Nat /\ 0 = Covered /\ 0 =< Len(buf) - 1
        /\ regions' = Append(regions, Region(0, Len(buf) - 1))
    BY <1>1, <1>2, <1>3 DEF Covered
  <2> DEFINE zero == 0
             last == Len(buf) - 1
  <2>3. /\ zero \in Nat /\ last \in Nat /\ zero = Covered /\ zero =< last
        /\ regions' = Append(regions, Region(zero, last))
    BY <2>2
  <2> HIDE DEF zero, last
  <2>4. regions' \in Seq(Regions) /\ RegionsTile' /\ regions' # <<>> /\ LastByteCut' = last
    BY <1>2, <2>3, RegionAdded DEF ScanInv
  <2>5. LastByteCut' = Len(buf) - 1 BY <2>4 DEF last
  <2>6. ScanTypeOK' BY <1>1, <2>4 DEF ScanInv, ScanTypeOK
  <2>7. RegionsCoverBuffer' BY <1>1, <1>2, <2>4, <2>5 DEF RegionsCoverBuffer
  <2>8. QED BY <1>1, <2>4, <2>6, <2>7
            DEF ScanInv, InputInv, ByteLoopInv, DicomInv, DtlsInv, EndInv
<1>4. CASE regions # <<>>
  <2>1. UNCHANGED <<regions, LastByteCut>> BY <1>1, <1>4 DEF LastByteCut
  <2>2. ScanTypeOK' /\ RegionsTile' BY <1>1, <2>1 DEF ScanInv, ScanTypeOK, RegionsTile
  <2>3. RegionsCoverBuffer'
    <3>1. CASE protocol \in {"dicom", "dtls12"}
      BY <1>1, <1>2, <1>4, <2>1, <3>1 DEF ScanInv, EndInv, RegionsCoverBuffer
    <3>2. CASE protocol \notin {"dicom", "dtls12"}
      BY <1>1, <1>2, <1>4, <2>1, <3>2 DEF ScanInv, EndInv, Extent, RegionsCoverBuffer
    <3>3. QED BY <3>1, <3>2
  <2>4. QED BY <1>1, <2>2, <2>3
            DEF ScanInv, InputInv, ByteLoopInv, DicomInv, DtlsInv, EndInv
<1>5. QED BY <1>3, <1>4

(* The loops that handle the messages leave the extractor's state alone.   *)
LEMMA AfterwardsStep ==
    ASSUME ScanInv, pc \notin {"scan", "scanned"},
           UNCHANGED <<protocol, buf, byte_count, mem, cur_start, cur_end, regions>>,
           pc' = pc \/ pc' \in {"loaded", "save", "convert", "kept", "reloaded"}
    PROVE  ScanInv'
<1>1. LastByteCut' = LastByteCut /\ buf_size' = buf_size BY DEF LastByteCut, buf_size
<1>2. ScanTypeOK' BY DEF ScanInv, ScanTypeOK
<1>3. RegionsTile' /\ InputInv' BY <1>1 DEF ScanInv, RegionsTile, InputInv
<1>4. RegionsCoverBuffer' BY <1>1 DEF ScanInv, RegionsCoverBuffer
<1>5. QED BY <1>2, <1>3, <1>4 DEF ScanInv, ByteLoopInv, DicomInv, DtlsInv, EndInv

-----------------------------------------------------------------------------
(* The messages.                                                           *)

SavedRegions == {r \in [start_byte : Int, end_byte : Int] : Size(r) \in Nat}

ListTypeOK ==
    /\ kl_messages \in Seq(Seq(Bytes)) /\ fpos \in Nat
    /\ messages_sent \in Nat /\ message_count \in Nat
    /\ file \in Seq(Bytes) /\ file_regions \in Seq(SavedRegions)
    /\ reloaded \in Seq(Seq(Bytes))

(* Message i is region i of the buffer, filled up with zeros.              *)
ReadAt(messages, i) ==
    LET start == regions[i].start_byte IN
    /\ Len(messages[i]) = Size(regions[i])
    /\ \A k \in 1 .. Size(regions[i]) :
          messages[i][k] = IF start + k =< buf_size THEN Byte(start + k - 1) ELSE 0

(* The messages read so far, and how far the file has been read.           *)
ReadInv ==
    /\ pc \in {"scan", "scanned"} => kl_messages = <<>> /\ fpos = 0
    /\ pc \in {"cut", "loaded"} =>
          /\ Len(kl_messages) =< Len(regions)
          /\ fpos = IF kl_messages = <<>> THEN 0
                    ELSE Smaller(regions[Len(kl_messages)].end_byte + 1, buf_size)
          /\ \A i \in 1 .. Len(kl_messages) : ReadAt(kl_messages, i)
    /\ pc = "loaded" => Len(kl_messages) = Len(regions)

ListInv == ListTypeOK /\ ReadInv

(* What fread leaves in a message, typed and byte by byte.                 *)
LEMMA FreadType ==
    ASSUME NEW s \in Seq(Bytes), NEW at \in Nat, NEW size \in Nat
    PROVE  /\ Fread(s, at, size) \in Seq(Bytes) /\ Len(Fread(s, at, size)) = size
           /\ \A k \in 1 .. size :
                 Fread(s, at, size)[k] = IF at + k =< Len(s) THEN s[at + k] ELSE 0
<1> DEFINE read == Fread(s, at, size)
<1>1. read = [k \in 1 .. size |-> IF at + k =< Len(s) THEN s[at + k] ELSE 0] BY DEF Fread
<1>2. \A k \in 1 .. size : read[k] = IF at + k =< Len(s) THEN s[at + k] ELSE 0 BY <1>1
<1>3. 0 \in Bytes BY DEF Bytes
<1>4. \A k \in 1 .. size : at + k =< Len(s) => s[at + k] \in Bytes
  <2>1. \A k \in 1 .. size : at + k =< Len(s) => at + k \in 1 .. Len(s) OBVIOUS
  <2>2. QED BY <2>1
<1>5. read \in [1 .. size -> Bytes] BY <1>1, <1>3, <1>4
<1>6. read \in Seq(Bytes) /\ Len(read) = size BY <1>5
<1> HIDE DEF read
<1>7. QED BY <1>2, <1>6 DEF read

(* Reading message after message follows the regions, since they tile.     *)
LEMMA ConstructStep ==
    ASSUME ScanInv, ListInv, construct_kl_messages PROVE ListInv'
<1> DEFINE n == Len(kl_messages) + 1
           size == Size(regions[n])
           start == regions[n].start_byte
           message == Fread(buf, fpos, size)
<1>1. /\ pc = "cut" /\ pc' = "cut" /\ Len(kl_messages) < Len(regions)
      /\ fpos' = Smaller(fpos + size, Len(buf))
      /\ kl_messages' = Append(kl_messages, message)
      /\ UNCHANGED <<buf, regions, messages_sent, message_count, file, file_regions, reloaded>>
  BY DEF construct_kl_messages, ConstructMessage, saving
<1>2. /\ buf \in Seq(Bytes) /\ Len(buf) \in Nat /\ regions \in Seq(Regions)
      /\ kl_messages \in Seq(Seq(Bytes)) /\ fpos \in Nat
  BY DEF ScanInv, ScanTypeOK, ListInv, ListTypeOK
<1>3. n \in DOMAIN regions /\ n \in Nat BY <1>1, <1>2
<1>4. /\ regions[n] \in Regions /\ start = (IF n = 1 THEN 0 ELSE regions[n - 1].end_byte + 1)
      /\ start =< regions[n].end_byte
  BY <1>2, <1>3 DEF ScanInv, RegionsTile
<1>5. start \in Nat /\ regions[n].end_byte \in Nat BY <1>4 DEF Regions
<1>6. size \in Nat /\ size = regions[n].end_byte - start + 1 BY <1>4, <1>5 DEF Size
<1>7. fpos = Smaller(start, Len(buf))
  <2>1. CASE kl_messages = <<>>
    BY <1>1, <1>2, <1>4, <2>1 DEF ListInv, ReadInv, Smaller
  <2>2. CASE kl_messages # <<>>
    <3>1. n # 1 /\ n - 1 = Len(kl_messages) BY <1>2, <2>2
    <3>2. QED BY <1>1, <1>4, <2>2, <3>1 DEF ListInv, ReadInv, buf_size
  <2>3. QED BY <2>1, <2>2
<1> HIDE DEF n, size, start
<1>8. /\ message \in Seq(Bytes) /\ Len(message) = size
      /\ \A k \in 1 .. size :
            message[k] = IF fpos + k =< Len(buf) THEN buf[fpos + k] ELSE 0
  BY <1>2, <1>6, FreadType
<1>9. \A k \in 1 .. size :
         message[k] = IF start + k =< Len(buf) THEN buf[start + k] ELSE 0
  BY <1>2, <1>5, <1>6, <1>7, <1>8 DEF Smaller
<1> HIDE DEF message
<1>10. /\ kl_messages' \in Seq(Seq(Bytes)) /\ Len(kl_messages') = n
       /\ kl_messages'[n] = message
       /\ \A i \in 1 .. Len(kl_messages) : kl_messages'[i] = kl_messages[i]
  BY <1>1, <1>2, <1>8 DEF n
<1>11. fpos' = Smaller(regions[n].end_byte + 1, Len(buf)) /\ fpos' \in Nat
  <2>1. start =< regions[n].end_byte BY <1>4
  <2>2. CASE start =< Len(buf)
    <3>1. fpos = start BY <1>2, <1>5, <1>7, <2>2 DEF Smaller
    <3>2. fpos + size = regions[n].end_byte + 1 BY <1>5, <1>6, <3>1
    <3>3. QED BY <1>1, <1>2, <1>5, <3>2 DEF Smaller
  <2>3. CASE ~(start =< Len(buf))
    <3>1. fpos = Len(buf) BY <1>2, <1>5, <1>7, <2>3 DEF Smaller
    <3>2. fpos' = Len(buf) BY <1>1, <1>2, <1>6, <3>1 DEF Smaller
    <3>3. ~(regions[n].end_byte + 1 =< Len(buf)) BY <1>2, <1>5, <2>1, <2>3
    <3>4. QED BY <1>2, <1>5, <3>2, <3>3 DEF Smaller
  <2>4. QED BY <2>2, <2>3
<1>12. ListTypeOK' BY <1>1, <1>10, <1>11 DEF ListInv, ListTypeOK
<1>13. \A i \in 1 .. Len(kl_messages') : ReadAt(kl_messages, i)'
  <2>1. SUFFICES ASSUME NEW i \in 1 .. Len(kl_messages') PROVE ReadAt(kl_messages, i)' OBVIOUS
  <2>2. CASE i = n
    <3>1. \A k \in 1 .. size : start + k - 1 + 1 = start + k BY <1>5, <1>6
    <3>2. /\ Len(kl_messages'[n]) = Size(regions[n])
          /\ \A k \in 1 .. Size(regions[n]) :
                kl_messages'[n][k] = IF regions[n].start_byte + k =< Len(buf)
                                       THEN buf[regions[n].start_byte + k - 1 + 1] ELSE 0
      BY <1>8, <1>9, <1>10, <3>1 DEF size, start
    <3>3. QED BY <1>1, <2>2, <3>2 DEF ReadAt, Byte, buf_size
  <2>3. CASE i # n
    <3>1. i \in 1 .. Len(kl_messages) BY <1>2, <1>10, <2>3 DEF n
    <3>2. ReadAt(kl_messages, i) BY <1>1, <3>1 DEF ListInv, ReadInv
    <3>3. QED BY <1>1, <1>10, <3>1, <3>2 DEF ReadAt, Byte, buf_size
  <2>4. QED BY <2>2, <2>3
<1>14. ReadInv'
  <2>1. kl_messages' # <<>> /\ Len(kl_messages') =< Len(regions')
    <3>1. n \in Nat /\ n >= 1 /\ n =< Len(regions) BY <1>1, <1>2 DEF n
    <3>2. Len(kl_messages') # 0 BY <1>10, <3>1
    <3>3. QED BY <1>1, <1>10, <3>1, <3>2
  <2>2. QED BY <1>1, <1>10, <1>11, <1>13, <2>1 DEF ReadInv, buf_size
<1>15. QED BY <1>12, <1>14 DEF ListInv

(* The lists stay as they are while the buffer is cut.                     *)
LEMMA ListsWaitStep ==
    ASSUME ScanInv', ListInv, UNCHANGED <<kl_messages, fpos, messages_sent, message_count,
                                          file, file_regions, reloaded>>,
           pc \in {"scan", "scanned"}, pc' \in {"scan", "scanned", "cut"}
    PROVE  ListInv'
<1>1. ListTypeOK' BY DEF ListInv, ListTypeOK
<1>2. kl_messages' = <<>> /\ fpos' = 0 BY DEF ListInv, ReadInv
<1>3. Len(regions') \in Nat BY DEF ScanInv, ScanTypeOK
<1>4. ReadInv' BY <1>2, <1>3 DEF ReadInv
<1>5. QED BY <1>1, <1>4 DEF ListInv

(* All regions are read: the messages are those of the seed.               *)
LEMMA LoadedStep ==
    ASSUME ListInv, Loaded PROVE ListInv'
<1>1. /\ pc = "cut" /\ pc' = "loaded" /\ Len(kl_messages) = Len(regions)
      /\ UNCHANGED <<kl_messages, fpos, messages_sent, message_count, file, file_regions,
                     reloaded, buf, regions>>
  BY DEF Loaded, lists, saving
<1>2. ListTypeOK' BY <1>1 DEF ListInv, ListTypeOK
<1>3. ReadInv' BY <1>1 DEF ListInv, ReadInv, ReadAt, Byte, buf_size
<1>4. QED BY <1>2, <1>3 DEF ListInv

(* From the execution on only the types of the lists matter.               *)
LEMMA ExecuteStep ==
    ASSUME ListInv, Execute PROVE ListInv'
<1>1. /\ pc' = "save" /\ messages_sent' \in 0 .. Len(kl_messages) + 1
      /\ UNCHANGED <<kl_messages, fpos, message_count, file, file_regions, reloaded>>
  BY DEF Execute
<1>2. kl_messages \in Seq(Seq(Bytes)) BY DEF ListInv, ListTypeOK
<1>3. messages_sent' \in Nat BY <1>1, <1>2
<1>4. ListTypeOK' /\ ReadInv' BY <1>1, <1>3 DEF ListInv, ListTypeOK, ReadInv
<1>5. QED BY <1>4 DEF ListInv

(* A file of bytes stays one when a message is added.                      *)
LEMMA SaveStep ==
    ASSUME ListInv, save_kl_messages_to_file PROVE ListInv'
<1>1. /\ pc' \in {"save", "convert"}
      /\ UNCHANGED <<kl_messages, fpos, messages_sent, file_regions, reloaded>>
      /\ \/ /\ message_count < Len(kl_messages)
            /\ file' = file \o kl_messages[message_count + 1]
            /\ message_count' = message_count + 1
         \/ UNCHANGED <<file, message_count>>
  BY DEF save_kl_messages_to_file
<1>2. /\ kl_messages \in Seq(Seq(Bytes)) /\ file \in Seq(Bytes) /\ message_count \in Nat
  BY DEF ListInv, ListTypeOK
<1>3. message_count < Len(kl_messages) => kl_messages[message_count + 1] \in Seq(Bytes)
  BY <1>2
<1>4. file' \in Seq(Bytes) /\ message_count' \in Nat
  <2>1. ASSUME NEW message \in Seq(Bytes) PROVE file \o message \in Seq(Bytes)
    BY <1>2, <2>1
  <2>2. file' \in Seq(Bytes) BY <1>1, <1>2, <1>3, <2>1
  <2>3. message_count' \in Nat BY <1>1, <1>2
  <2>4. QED BY <2>2, <2>3
<1>5. ListTypeOK' /\ ReadInv' BY <1>1, <1>4 DEF ListInv, ListTypeOK, ReadInv
<1>6. QED BY <1>5 DEF ListInv

(* A region of a saved message has a size that is not negative.            *)
LEMMA ConvertStep ==
    ASSUME ListInv, convert_kl_messages_to_regions PROVE ListInv'
<1> DEFINE region_count == Len(file_regions) + 1
           start == IF file_regions = <<>> THEN 0
                    ELSE file_regions[Len(file_regions)].end_byte + 1
           region == Region(start, start + Len(kl_messages[region_count]) - 1)
<1>1. /\ pc' \in {"convert", "kept"}
      /\ UNCHANGED <<kl_messages, messages_sent, message_count, file, reloaded>>
      /\ \/ /\ region_count =< Len(kl_messages)
            /\ file_regions' = Append(file_regions, region) /\ fpos' = fpos
         \/ file_regions' = file_regions /\ fpos' = 0
  BY DEF convert_kl_messages_to_regions
<1>2. /\ kl_messages \in Seq(Seq(Bytes)) /\ file_regions \in Seq(SavedRegions) /\ fpos \in Nat
  BY DEF ListInv, ListTypeOK
<1>3. start \in Int
  <2>1. file_regions # <<>> => file_regions[Len(file_regions)] \in SavedRegions BY <1>2
  <2>2. QED BY <2>1 DEF SavedRegions
<1>4. region_count =< Len(kl_messages) => Len(kl_messages[region_count]) \in Nat BY <1>2
<1> HIDE DEF start
<1>5. region_count =< Len(kl_messages) => region \in SavedRegions
  BY <1>3, <1>4 DEF SavedRegions, Region, Size
<1> HIDE DEF region, region_count
<1>6. file_regions' \in Seq(SavedRegions) /\ fpos' \in Nat
  <2>1. ASSUME NEW r \in SavedRegions PROVE Append(file_regions, r) \in Seq(SavedRegions)
    BY <1>2, <2>1
  <2>2. fpos' \in Nat BY <1>1, <1>2
  <2>3. file_regions' \in Seq(SavedRegions) BY <1>1, <1>2, <1>5, <2>1
  <2>4. QED BY <2>2, <2>3
<1>7. ListTypeOK' /\ ReadInv' BY <1>1, <1>6 DEF ListInv, ListTypeOK, ReadInv
<1>8. QED BY <1>7 DEF ListInv

(* Reading the saved entry back gives messages of bytes.                   *)
LEMMA LoadKeptStep ==
    ASSUME ListInv, LoadKept PROVE ListInv'
<1> DEFINE n == Len(reloaded) + 1
           size == Size(file_regions[n])
<1>1. /\ pc = "kept" /\ pc' = "kept" /\ Len(reloaded) < Len(file_regions)
      /\ fpos' = Smaller(fpos + size, Len(file))
      /\ reloaded' = Append(reloaded, Fread(file, fpos, size))
      /\ UNCHANGED <<kl_messages, messages_sent, message_count, file, file_regions>>
  BY DEF LoadKept, ConstructMessage, saving
<1>2. /\ reloaded \in Seq(Seq(Bytes)) /\ file_regions \in Seq(SavedRegions)
      /\ fpos \in Nat /\ file \in Seq(Bytes)
  BY DEF ListInv, ListTypeOK
<1>3. file_regions[n] \in SavedRegions BY <1>1, <1>2
<1>4. size \in Nat BY <1>3 DEF SavedRegions
<1> HIDE DEF size
<1>5. Fread(file, fpos, size) \in Seq(Bytes) BY <1>2, <1>4, FreadType
<1>6. reloaded' \in Seq(Seq(Bytes)) /\ fpos' \in Nat BY <1>1, <1>2, <1>4, <1>5 DEF Smaller
<1>7. ListTypeOK' /\ ReadInv' BY <1>1, <1>6 DEF ListInv, ListTypeOK, ReadInv
<1>8. QED BY <1>7 DEF ListInv

(* The saved entry is read.                                                *)
LEMMA ReloadedStep ==
    ASSUME ListInv, Reloaded PROVE ListInv'
<1>1. /\ pc' = "reloaded"
      /\ UNCHANGED <<kl_messages, fpos, messages_sent, message_count, file, file_regions,
                     reloaded>>
  BY DEF Reloaded, lists, saving
<1>2. QED BY <1>1 DEF ListInv, ListTypeOK, ReadInv

-----------------------------------------------------------------------------

IInv == ScanInv /\ ListInv

(* The invariant holds before the first byte is read.                      *)
LEMMA InitInv == Init => IInv
<1>1. SUFFICES ASSUME Init PROVE IInv OBVIOUS
<1>2. PICK input \in Inputs : protocol = input[1] /\ buf = input[2] BY <1>1 DEF Init
<1>3. protocol \in Protocols /\ buf \in Seq(Bytes) /\ Len(buf) \in 1 .. UINT - 6
  BY <1>2, RequestsAssumption
<1>4. /\ byte_count = 0 /\ mem = <<>> /\ cur_start = 0 /\ cur_end = 0
      /\ regions = <<>> /\ pc = "scan"
      /\ kl_messages = <<>> /\ fpos = 0 /\ messages_sent = 0 /\ message_count = 0
      /\ file = <<>> /\ file_regions = <<>> /\ reloaded = <<>>
  BY <1>1 DEF Init
<1>5. Len(buf) > 0 /\ Len(buf) \in Nat BY <1>3, RequestsAssumption
<1>6. InputInv /\ ScanTypeOK /\ RegionsTile
  BY <1>3, <1>4 DEF InputInv, ScanTypeOK, RegionsTile, buf_size
<1>7. ByteLoopInv /\ DicomInv /\ DtlsInv /\ EndInv /\ RegionsCoverBuffer
  <2>1. mem = SubSeq(buf, cur_start + 1, cur_end) BY <1>3, <1>4
  <2>2. QED BY <1>4, <1>5, <2>1 DEF ByteLoopInv, DicomInv, DtlsInv, EndInv,
                                   RegionsCoverBuffer, Covered, Extent, buf_size
<1>8. ListInv BY <1>4 DEF ListInv, ListTypeOK, ReadInv
<1>9. QED BY <1>6, <1>7, <1>8 DEF IInv, ScanInv

(* Every step preserves the invariant: the scans first, the lists after.   *)
LEMMA NextInv == IInv /\ [Next]_vars => IInv'
<1>1. SUFFICES ASSUME ScanInv, ListInv, [Next]_vars PROVE ScanInv' /\ ListInv' BY DEF IInv
<1>2. ASSUME UNCHANGED vars PROVE ScanInv' /\ ListInv'
  <2>1. UNCHANGED <<protocol, buf, byte_count, mem, cur_start, cur_end, regions, pc,
                    kl_messages, fpos, messages_sent, message_count, file, file_regions,
                    reloaded>>
    BY <1>2 DEF vars, cursors, lists, saving
  <2>2. ScanInv'
    BY <1>1, <2>1 DEF ScanInv, InputInv, ScanTypeOK, RegionsTile, ByteLoopInv, DicomInv, DtlsInv,
                EndInv, RegionsCoverBuffer, Covered, Extent, Identifying, LastByteCut, buf_size
  <2>3. ListInv'
    BY <1>1, <2>1 DEF ListInv, ListTypeOK, ReadInv, ReadAt, Byte, buf_size
  <2>4. QED BY <2>2, <2>3
<1>3. ASSUME \/ EndRequest \/ NextByte \/ extract_requests_dns
             \/ SshIdentificationByte \/ SshIdentificationEnd \/ extract_requests_ssh
             \/ extract_requests_tls \/ extract_requests_dicom \/ DicomRest
             \/ extract_requests_dtls12 \/ DtlsByte \/ EndOfBuffer \/ Return
      PROVE  ScanInv' /\ ListInv'
  <2>1. ScanInv'
    BY <1>1, <1>3, EndRequestStep, NextByteStep, DnsStep, SshIdentificationByteStep,
       SshIdentificationEndStep, SshStep, TlsStep, DicomStep, DicomRestStep,
       DtlsRecordStep, DtlsByteStep, EndOfBufferStep, ReturnStep
  <2>2. /\ UNCHANGED <<kl_messages, fpos, messages_sent, message_count, file, file_regions,
                       reloaded>>
        /\ pc \in {"scan", "scanned"} /\ pc' \in {"scan", "scanned", "cut"}
    BY <1>3 DEF EndRequest, NextByte, extract_requests_dns, SshIdentificationByte,
       SshIdentificationEnd, extract_requests_ssh, extract_requests_tls,
       extract_requests_dicom, DicomRest, extract_requests_dtls12, DtlsByte,
       EndOfBuffer, Return, Scanning, Skip, CutAt, lists, saving
  <2>3. QED BY <1>1, <2>1, <2>2, ListsWaitStep
<1>4. ASSUME \/ construct_kl_messages \/ Loaded \/ Execute
             \/ save_kl_messages_to_file \/ convert_kl_messages_to_regions
             \/ LoadKept \/ Reloaded
      PROVE  ScanInv' /\ ListInv'
  <2>1. ListInv'
    BY <1>1, <1>4, ConstructStep, LoadedStep, ExecuteStep, SaveStep, ConvertStep,
       LoadKeptStep, ReloadedStep
  <2>2. /\ UNCHANGED <<protocol, buf, byte_count, mem, cur_start, cur_end, regions>>
        /\ pc \notin {"scan", "scanned"}
        /\ pc' = pc \/ pc' \in {"loaded", "save", "convert", "kept", "reloaded"}
    BY <1>4 DEF construct_kl_messages, ConstructMessage, Loaded, Execute,
       save_kl_messages_to_file, convert_kl_messages_to_regions, LoadKept, Reloaded, cursors
  <2>3. QED BY <1>1, <2>1, <2>2, AfterwardsStep
<1>5. QED BY <1>1, <1>2, <1>3, <1>4 DEF Next, Done

(* The inductive invariant holds throughout.                             *)
THEOREM Invariance == Spec => []IInv
<1>1. QED BY InitInv, NextInv, PTL DEF Spec

(* Type correctness: whatever the bytes, no extractor computes a region    *)
(* with a negative end, and no list leaves its type.                       *)
THEOREM TypeCorrectness == Spec => []TypeOK
<1>1. IInv => TypeOK
  <2>1. SUFFICES ASSUME ScanTypeOK, ListTypeOK PROVE TypeOK BY DEF IInv, ScanInv, ListInv
  <2>2. SavedRegions \subseteq [start_byte : Int, end_byte : Int] BY DEF SavedRegions
  <2>3. file_regions \in Seq([start_byte : Int, end_byte : Int])
    <3>1. file_regions \in Seq(SavedRegions) BY <2>1 DEF ListTypeOK
    <3>2. ASSUME NEW S, NEW T, S \subseteq T, NEW s \in Seq(S) PROVE s \in Seq(T)
      BY <3>2
    <3>3. QED BY <2>2, <3>1, <3>2
  <2>4. QED BY <2>1, <2>3 DEF ScanTypeOK, ListTypeOK, TypeOK, Regions
<1>2. QED BY <1>1, Invariance, PTL

(* In every loop over bytes the cursors stay in step.                      *)
THEOREM CursorsStayInStep == Spec => []CursorsInStep
<1>1. IInv => CursorsInStep
  <2>1. SUFFICES ASSUME ScanTypeOK, ByteLoopInv, pc = "scan", byte_count < buf_size,
                        protocol \notin {"dicom", "dtls12"}
                 PROVE  byte_count = cur_end /\ mem = SubSeq(buf, cur_start + 1, cur_end)
    BY DEF IInv, ScanInv, CursorsInStep
  <2>2. protocol \in ByteLoops BY <2>1 DEF ScanTypeOK, Protocols, ByteLoops
  <2>3. QED BY <2>1, <2>2 DEF ByteLoopInv
<1>2. QED BY <1>1, Invariance, PTL

(* The regions of any buffer tile it from its first byte on.               *)
THEOREM RegionsAlwaysTile == Spec => []RegionsTile
<1>1. IInv => RegionsTile BY DEF IInv, ScanInv
<1>2. QED BY <1>1, Invariance, PTL

(* What an extractor returns reaches to the last byte of the buffer or to  *)
(* the one before, and only that of DNS reaches behind it.                 *)
THEOREM BufferCovered == Spec => []RegionsCoverBuffer
<1>1. IInv => RegionsCoverBuffer BY DEF IInv, ScanInv
<1>2. QED BY <1>1, Invariance, PTL

(* The messages that fuzz_one loads are the regions of the seed.           *)
THEOREM MessagesFromRegions == Spec => []MessagesAreRegions
<1>1. IInv => MessagesAreRegions
  <2>1. SUFFICES ASSUME ScanTypeOK, ReadInv, pc = "loaded"
                 PROVE  /\ Len(kl_messages) = Len(regions)
                        /\ \A i \in DOMAIN regions : ReadAt(kl_messages, i)
    BY DEF IInv, ScanInv, ListInv, MessagesAreRegions, ReadAt
  <2>2. regions \in Seq(Regions) BY <2>1 DEF ScanTypeOK
  <2>3. QED BY <2>1, <2>2 DEF ReadInv
<1>2. QED BY <1>1, Invariance, PTL

(* Whatever the buffer and the length that is read in it, the extractors   *)
(* cut it into its messages, and these are what fuzz_one sends.            *)
THEOREM CutIsSound == Spec => []CutSound
<1>1. QED
  BY TypeCorrectness, CursorsStayInStep, RegionsAlwaysTile, BufferCovered, MessagesFromRegions, PTL
     DEF CutSound
-----------------------------------------------------------------------------
(* What is saved comes back.                                               *)

(* The messages that are saved: those that were sent.                      *)
Kept == Smaller(messages_sent, Len(kl_messages))

(* The first n messages lie in the file one behind the other, the i-th     *)
(* from off[i - 1] up to off[i].                                           *)
Laid(off, n, messages, contents) ==
    /\ off[0] = 0
    /\ \A i \in 0 .. n : off[i] =< Len(contents)
    /\ \A i \in 1 .. n :
          /\ off[i] = off[i - 1] + Len(messages[i])
          /\ \A k \in 1 .. Len(messages[i]) : contents[off[i - 1] + k] = messages[i][k]

(* The i-th region of the file is where the i-th message lies.             *)
CutAs(off, cuts) == \A i \in 1 .. Len(cuts) : cuts[i] = Region(off[i - 1], off[i] - 1)

(* The first messages are those that were read back.                       *)
ReadBack(back, messages) == \A i \in 1 .. Len(back) : back[i] = messages[i]

(* The loops that save, convert and load go through the same messages.     *)
SavedAs(off) ==
    /\ pc \in {"scan", "scanned", "cut", "loaded"} => message_count = 0 /\ file = <<>>
    /\ pc \in {"scan", "scanned", "cut", "loaded", "save"} => file_regions = <<>>
    /\ pc \notin {"kept", "reloaded"} => reloaded = <<>>
    /\ pc \in {"save", "convert", "kept", "reloaded"} =>
          /\ message_count =< Kept /\ Len(file) = off[message_count]
          /\ Laid(off, message_count, kl_messages, file)
    /\ pc \in {"convert", "kept", "reloaded"} =>
          /\ message_count = Kept /\ Len(file_regions) =< Kept /\ CutAs(off, file_regions)
    /\ pc \in {"kept", "reloaded"} =>
          /\ Len(file_regions) = Kept
          /\ Len(reloaded) =< Kept /\ ReadBack(reloaded, kl_messages)
    /\ pc = "kept" => fpos = off[Len(reloaded)]
    /\ pc = "reloaded" => Len(reloaded) = Kept

SavedInv == \E off \in [Nat -> Nat] : SavedAs(off)

(* The messages that are saved are messages that there are.                *)
LEMMA KeptType ==
    ASSUME ListTypeOK
    PROVE  Kept \in Nat /\ Kept =< Len(kl_messages) /\ Kept =< messages_sent
           /\ \A n \in Nat : n < Len(kl_messages) /\ n < messages_sent <=> n < Kept
BY DEF ListTypeOK, Kept, Smaller

(* The length of a sequence.                                               *)
LEMMA LengthOfSeq ==
    ASSUME NEW S, NEW s \in Seq(S) PROVE Len(s) \in Nat
OBVIOUS

(* A message of a list of messages.                                        *)
LEMMA ElementOfSeq ==
    ASSUME NEW messages \in Seq(Seq(Bytes)), NEW i \in 1 .. Len(messages)
    PROVE  messages[i] \in Seq(Bytes) /\ Len(messages[i]) \in Nat
<1>1. ASSUME NEW S, NEW s \in Seq(S), NEW j \in 1 .. Len(s) PROVE s[j] \in S
  BY <1>1
<1>2. messages[i] \in Seq(Bytes) BY <1>1
<1>3. QED BY <1>2, LengthOfSeq

(* What LaidOnward says of two sequences that are joined.                  *)
LEMMA JoinedBytes ==
    ASSUME NEW s \in Seq(Bytes), NEW more \in Seq(Bytes)
    PROVE  /\ Len(s \o more) = Len(s) + Len(more)
           /\ \A k \in 1 .. Len(s) : (s \o more)[k] = s[k]
           /\ \A k \in 1 .. Len(more) : (s \o more)[Len(s) + k] = more[k]
OBVIOUS

(* One more message at the end of the file.                                *)
LEMMA LaidOnward ==
    ASSUME NEW messages \in Seq(Seq(Bytes)), NEW contents \in Seq(Bytes),
           NEW off \in [Nat -> Nat], NEW n \in Nat, n < Len(messages),
           Laid(off, n, messages, contents), Len(contents) = off[n]
    PROVE  \E next \in [Nat -> Nat] :
              /\ Laid(next, n + 1, messages, contents \o messages[n + 1])
              /\ Len(contents \o messages[n + 1]) = next[n + 1]
<1> DEFINE message == messages[n + 1]
           longer == contents \o message
           next == [off EXCEPT ![n + 1] = off[n] + Len(message)]
<1>1. message \in Seq(Bytes) /\ Len(message) \in Nat
  <2>1. n + 1 \in 1 .. Len(messages) OBVIOUS
  <2>2. messages[n + 1] \in Seq(Bytes) BY <2>1, ElementOfSeq
  <2> HIDE DEF longer, next
  <2>3. message \in Seq(Bytes) BY <2>2 DEF message
  <2> HIDE DEF message
  <2>4. QED BY <2>3
<1>2. /\ Len(longer) = Len(contents) + Len(message)
      /\ \A k \in 1 .. Len(contents) : longer[k] = contents[k]
      /\ \A k \in 1 .. Len(message) : longer[Len(contents) + k] = message[k]
  <2> HIDE DEF message, next, longer
  <2>1. /\ Len(contents \o message) = Len(contents) + Len(message)
        /\ \A k \in 1 .. Len(contents) : (contents \o message)[k] = contents[k]
        /\ \A k \in 1 .. Len(message) : (contents \o message)[Len(contents) + k] = message[k]
    BY <1>1, JoinedBytes, Zenon
  <2>2. longer = contents \o message BY DEF longer
  <2>3. QED BY <2>1, <2>2, Zenon
<1>3. message = messages[n + 1] BY DEF message
<1> HIDE DEF message, longer
<1>4. next \in [Nat -> Nat]
  <2> DEFINE filled == off[n] + Len(message)
  <2>1. filled \in Nat
    <3>1. off[n] \in Nat OBVIOUS
    <3>2. \A a, b \in Nat : a + b \in Nat OBVIOUS
    <3>3. QED BY <1>1, <3>1, <3>2, Zenon
  <2> HIDE DEF filled
  <2>2. [off EXCEPT ![n + 1] = filled] \in [Nat -> Nat] BY <2>1
  <2>3. QED BY <2>2 DEF filled
<1>5. next[n + 1] = off[n] + Len(message) /\ \A i \in 0 .. n : next[i] = off[i] BY <1>1
<1> HIDE DEF next
<1>6. \A i \in 0 .. n + 1 : next[i] =< Len(longer)
  <2>1. SUFFICES ASSUME NEW i \in 0 .. n + 1 PROVE next[i] =< Len(longer) OBVIOUS
  <2>2. CASE i = n + 1 BY <1>1, <1>2, <1>5, <2>2
  <2>3. CASE i # n + 1
    <3>1. i \in 0 .. n /\ next[i] = off[i] BY <1>5, <2>3
    <3>2. off[i] =< Len(contents) /\ off[i] \in Nat
      <4>1. off[i] =< Len(contents) BY <3>1 DEF Laid
      <4>2. QED BY <3>1, <4>1
    <3>3. QED BY <1>1, <1>2, <3>1, <3>2
  <2>4. QED BY <2>2, <2>3
<1>7. ASSUME NEW i \in 1 .. n + 1
      PROVE  /\ next[i] = next[i - 1] + Len(messages[i])
             /\ \A k \in 1 .. Len(messages[i]) : longer[next[i - 1] + k] = messages[i][k]
  <2>1. CASE i = n + 1
    <3>1. i - 1 = n /\ next[i - 1] = off[n] /\ messages[i] = message BY <1>3, <1>5, <2>1
    <3>2. QED BY <1>2, <1>5, <2>1, <3>1
  <2>2. CASE i # n + 1
    <3>1. i \in 1 .. n /\ i \in 0 .. n /\ i - 1 \in 0 .. n BY <2>2
    <3>2. next[i] = off[i] /\ next[i - 1] = off[i - 1] BY <1>5, <3>1
    <3>3. /\ off[i] = off[i - 1] + Len(messages[i]) /\ off[i] =< Len(contents)
          /\ \A k \in 1 .. Len(messages[i]) : contents[off[i - 1] + k] = messages[i][k]
      BY <3>1 DEF Laid
    <3>4. Len(messages[i]) \in Nat /\ off[i - 1] \in Nat
      <4>1. i \in 1 .. Len(messages) /\ i - 1 \in Nat BY <3>1
      <4>2. Len(messages[i]) \in Nat BY <4>1, ElementOfSeq
      <4>3. QED BY <4>1, <4>2
    <3>5. ASSUME NEW k \in 1 .. Len(messages[i]) PROVE off[i - 1] + k \in 1 .. Len(contents)
      <4>1. Len(contents) \in Nat BY LengthOfSeq
      <4>2. \A at, l, c \in Nat : at + l =< c => \A j \in 1 .. l : at + j \in 1 .. c
        OBVIOUS
      <4>3. off[i - 1] + Len(messages[i]) =< Len(contents) BY <3>3
      <4>4. QED BY <3>4, <4>1, <4>2, <4>3, Zenon
    <3>6. QED BY <1>2, <3>2, <3>3, <3>5
  <2>3. QED BY <2>1, <2>2
<1>8. next[0] = 0
  <2>1. off[0] = 0 BY DEF Laid
  <2>2. 0 \in 0 .. n OBVIOUS
  <2>3. QED BY <1>5, <2>1, <2>2
<1>9. Laid(next, n + 1, messages, longer) BY <1>6, <1>7, <1>8 DEF Laid
<1>10. Len(longer) = next[n + 1] BY <1>2, <1>5
<1>11. QED BY <1>3, <1>4, <1>9, <1>10 DEF longer

(* What is read where a message lies is that message.                      *)
LEMMA FreadLaid ==
    ASSUME NEW messages \in Seq(Seq(Bytes)), NEW contents \in Seq(Bytes),
           NEW off \in [Nat -> Nat], NEW n \in Nat, n =< Len(messages),
           Laid(off, n, messages, contents), NEW i \in 1 .. n
    PROVE  /\ Size(Region(off[i - 1], off[i] - 1)) = Len(messages[i])
           /\ Fread(contents, off[i - 1], Len(messages[i])) = messages[i]
           /\ Smaller(off[i - 1] + Len(messages[i]), Len(contents)) = off[i]
<1> DEFINE message == messages[i]
           at == off[i - 1]
<1>1. /\ off[i] = at + Len(message) /\ off[i] =< Len(contents)
      /\ \A k \in 1 .. Len(message) : contents[at + k] = message[k]
  <2>1. i \in 0 .. n OBVIOUS
  <2> HIDE DEF message, at
  <2>2. off[i] =< Len(contents) BY <2>1 DEF Laid
  <2>3. /\ off[i] = off[i - 1] + Len(messages[i])
        /\ \A k \in 1 .. Len(messages[i]) : contents[off[i - 1] + k] = messages[i][k]
    BY DEF Laid
  <2>4. QED BY <2>2, <2>3, Zenon DEF message, at
<1>2. message \in Seq(Bytes) /\ at \in Nat
  <2>1. i \in 1 .. Len(messages) /\ i - 1 \in Nat OBVIOUS
  <2> HIDE DEF message, at
  <2>2. messages[i] \in Seq(Bytes) /\ off[i - 1] \in Nat BY <2>1, ElementOfSeq
  <2>3. QED BY <2>2 DEF message, at
<1> HIDE DEF message, at
<1>3. Len(message) \in Nat /\ Len(contents) \in Nat BY <1>2, LengthOfSeq, Zenon
<1>4. Size(Region(at, off[i] - 1)) = Len(message) BY <1>1, <1>2, <1>3 DEF Size, Region
<1>5. Fread(contents, at, Len(message)) = message
  <2>1. \A k \in 1 .. Len(message) : at + k =< Len(contents) BY <1>1, <1>2, <1>3
  <2>2. Fread(contents, at, Len(message)) = [k \in 1 .. Len(message) |-> message[k]]
    BY <1>1, <2>1 DEF Fread
  <2>3. message = [k \in 1 .. Len(message) |-> message[k]] BY <1>2
  <2>4. QED BY <2>2, <2>3
<1>6. Smaller(at + Len(message), Len(contents)) = off[i] BY <1>1, <1>3 DEF Smaller
<1>7. QED BY <1>4, <1>5, <1>6 DEF message, at

(* One more message is saved, or the loop ends behind the last one sent.   *)
LEMMA SaveKeeps ==
    ASSUME ListTypeOK, NEW off \in [Nat -> Nat], SavedAs(off), save_kl_messages_to_file
    PROVE  SavedInv'
<1>1. /\ pc = "save"
      /\ UNCHANGED <<kl_messages, messages_sent, file_regions, reloaded>>
      /\ \/ /\ message_count < Len(kl_messages) /\ message_count < messages_sent
            /\ file' = file \o kl_messages[message_count + 1]
            /\ message_count' = message_count + 1 /\ pc' = "save"
         \/ /\ ~(message_count < Len(kl_messages) /\ message_count < messages_sent)
            /\ pc' = "convert" /\ UNCHANGED <<file, message_count>>
  BY DEF save_kl_messages_to_file
<1>2. /\ message_count =< Kept /\ Len(file) = off[message_count]
      /\ Laid(off, message_count, kl_messages, file)
      /\ file_regions = <<>> /\ reloaded = <<>>
  BY <1>1 DEF SavedAs
<1>3. /\ kl_messages \in Seq(Seq(Bytes)) /\ file \in Seq(Bytes) /\ message_count \in Nat
      /\ Kept \in Nat /\ Kept' = Kept
      /\ message_count < Len(kl_messages) /\ message_count < messages_sent
            <=> message_count < Kept
  BY <1>1, KeptType DEF ListTypeOK, Kept
<1>4. CASE message_count < Kept
  <2>1. PICK next \in [Nat -> Nat] :
           /\ Laid(next, message_count + 1, kl_messages, file \o kl_messages[message_count + 1])
           /\ Len(file \o kl_messages[message_count + 1]) = next[message_count + 1]
    BY <1>2, <1>3, <1>4, LaidOnward
  <2>2. /\ pc' = "save" /\ message_count' = message_count + 1 /\ message_count' =< Kept'
        /\ Laid(next, message_count', kl_messages', file') /\ Len(file') = next[message_count']
    <3>1. pc' = "save" /\ message_count' = message_count + 1
      BY <1>1, <1>3, <1>4
    <3>2. file' = file \o kl_messages[message_count + 1] /\ kl_messages' = kl_messages
      BY <1>1, <1>3, <1>4
    <3>3. message_count' =< Kept' BY <1>3, <1>4, <3>1
    <3>4. QED BY <2>1, <3>1, <3>2, <3>3
  <2>3. SavedAs(next)' BY <1>1, <1>2, <2>2 DEF SavedAs
  <2>4. QED BY <2>3 DEF SavedInv
<1>5. CASE ~(message_count < Kept)
  <2>1. /\ pc' = "convert" /\ message_count' = Kept' /\ file' = file
        /\ message_count' = message_count
    <3>1. pc' = "convert" /\ file' = file /\ message_count' = message_count
      BY <1>1, <1>3, <1>5
    <3>2. message_count = Kept BY <1>2, <1>3, <1>5
    <3>3. QED BY <1>3, <3>1, <3>2
  <2>2. CutAs(off, file_regions') /\ Len(file_regions') =< Kept'
    BY <1>1, <1>2, <1>3 DEF CutAs
  <2>3. SavedAs(off)' BY <1>1, <1>2, <1>3, <2>1, <2>2 DEF SavedAs
  <2>4. QED BY <2>3 DEF SavedInv
<1>6. QED BY <1>4, <1>5

(* A region begins where the one before it ends, as its message does.      *)
LEMMA ConvertKeeps ==
    ASSUME ListTypeOK, NEW off \in [Nat -> Nat], SavedAs(off), convert_kl_messages_to_regions
    PROVE  SavedInv'
<1> DEFINE region_count == Len(file_regions) + 1
           start == IF file_regions = <<>> THEN 0
                    ELSE file_regions[Len(file_regions)].end_byte + 1
           region == Region(start, start + Len(kl_messages[region_count]) - 1)
<1>1. /\ pc = "convert"
      /\ UNCHANGED <<kl_messages, messages_sent, message_count, file, reloaded>>
      /\ \/ /\ region_count =< Len(kl_messages) /\ region_count =< messages_sent
            /\ file_regions' = Append(file_regions, region) /\ pc' = "convert"
         \/ /\ ~(region_count =< Len(kl_messages) /\ region_count =< messages_sent)
            /\ file_regions' = file_regions /\ pc' = "kept" /\ fpos' = 0
  BY DEF convert_kl_messages_to_regions
<1>2. /\ message_count = Kept /\ Len(file) = off[message_count]
      /\ Laid(off, message_count, kl_messages, file)
      /\ Len(file_regions) =< Kept /\ CutAs(off, file_regions) /\ reloaded = <<>>
  BY <1>1 DEF SavedAs
<1>3. /\ kl_messages \in Seq(Seq(Bytes)) /\ file_regions \in Seq(SavedRegions)
      /\ messages_sent \in Nat /\ Kept \in Nat /\ Kept' = Kept /\ Kept =< Len(kl_messages)
      /\ Len(file_regions) \in Nat /\ Len(kl_messages) \in Nat
  <2> HIDE DEF region_count, start, region
  <2>1. /\ kl_messages \in Seq(Seq(Bytes)) /\ file_regions \in Seq(SavedRegions)
        /\ messages_sent \in Nat
    BY DEF ListTypeOK
  <2>2. Len(file_regions) \in Nat /\ Len(kl_messages) \in Nat
    BY <2>1, LengthOfSeq, Zenon
  <2>3. Kept' = Kept BY <1>1 DEF Kept
  <2>4. QED BY <2>1, <2>2, <2>3, KeptType
<1>4. region_count =< Len(kl_messages) /\ region_count =< messages_sent <=> region_count =< Kept
  <2> HIDE DEF start, region
  <2>1. region_count \in Nat BY <1>3
  <2> HIDE DEF region_count
  <2>2. \A a, b, c \in Nat : c =< a /\ c =< b <=> c =< Smaller(a, b)
    BY DEF Smaller
  <2>3. QED BY <1>3, <2>1, <2>2, Zenon DEF Kept
<1>5. CASE region_count =< Kept
  <2>1. start = off[region_count - 1]
    <3>1. CASE file_regions = <<>> BY <1>2, <3>1 DEF Laid
    <3>2. CASE file_regions # <<>>
      <4>1. Len(file_regions) \in 1 .. Len(file_regions) BY <1>3, <3>2
      <4>2. file_regions[Len(file_regions)]
               = Region(off[Len(file_regions) - 1], off[Len(file_regions)] - 1)
        BY <1>2, <4>1 DEF CutAs
      <4>3. off[Len(file_regions)] \in Nat BY <1>3
      <4>4. QED BY <1>3, <3>2, <4>2, <4>3 DEF Region
    <3>3. QED BY <3>1, <3>2
  <2>2. /\ off[region_count] = off[region_count - 1] + Len(kl_messages[region_count])
        /\ region_count \in Nat /\ region_count >= 1
    <3> HIDE DEF start, region
    <3>1. region_count \in Nat /\ region_count >= 1
      <4>1. \A l \in Nat : l + 1 \in Nat /\ l + 1 >= 1 OBVIOUS
      <4>2. QED BY <1>3, <4>1, Zenon
    <3> HIDE DEF region_count
    <3>2. region_count \in 1 .. message_count BY <1>2, <1>3, <1>5, <3>1
    <3>3. QED BY <1>2, <3>1, <3>2 DEF Laid
  <2>3. region = Region(off[region_count - 1], off[region_count] - 1)
    <3> HIDE DEF start, region_count
    <3>1. region_count \in 1 .. Len(kl_messages) BY <1>3, <1>5, <2>2
    <3>2. Len(kl_messages[region_count]) \in Nat BY <1>3, <3>1, ElementOfSeq
    <3>3. start \in Nat BY <2>1, <2>2
    <3>4. start + Len(kl_messages[region_count]) - 1 = off[region_count] - 1
      <4>1. off[region_count] = start + Len(kl_messages[region_count])
        BY <2>1, <2>2, Zenon
      <4>2. \A a, l, b \in Nat : b = a + l => a + l - 1 = b - 1
        OBVIOUS
      <4>3. off[region_count] \in Nat BY <2>2
      <4>4. QED BY <3>2, <3>3, <4>1, <4>2, <4>3, Zenon
    <3>5. QED BY <2>1, <3>4, Zenon DEF region
  <2>4. /\ file_regions' = Append(file_regions, region) /\ pc' = "convert"
    BY <1>1, <1>4, <1>5
  <2> HIDE DEF region
  <2>5. /\ Len(file_regions') = region_count /\ file_regions'[region_count] = region
        /\ \A i \in 1 .. Len(file_regions) : file_regions'[i] = file_regions[i]
    BY <1>3, <2>4
  <2>6. CutAs(off, file_regions')
    <3>1. SUFFICES ASSUME NEW i \in 1 .. region_count
                   PROVE  file_regions'[i] = Region(off[i - 1], off[i] - 1)
      BY <2>5 DEF CutAs
    <3>2. CASE i = region_count
      <4> HIDE DEF region_count, start
      <4>1. QED BY <2>3, <2>5, <3>2
    <3>3. CASE i # region_count
      <4>1. i \in 1 .. Len(file_regions)
        <5>1. \A l \in Nat : \A j \in 1 .. l + 1 : j # l + 1 => j \in 1 .. l OBVIOUS
        <5>2. QED BY <1>3, <3>3, <5>1, Zenon
      <4>2. QED BY <1>2, <2>5, <4>1 DEF CutAs
    <3>4. QED BY <3>2, <3>3
  <2> HIDE DEF region_count
  <2>7. Len(file_regions') =< Kept' BY <1>3, <1>5, <2>5
  <2>8. SavedAs(off)' BY <1>1, <1>2, <1>3, <2>4, <2>6, <2>7 DEF SavedAs
  <2>9. QED BY <2>8 DEF SavedInv
<1>6. CASE ~(region_count =< Kept)
  <2>1. /\ file_regions' = file_regions /\ pc' = "kept" /\ fpos' = 0 BY <1>1, <1>4, <1>6
  <2>2. Len(file_regions') = Kept' BY <1>2, <1>3, <1>6, <2>1
  <2>3. /\ Len(reloaded') = 0 /\ off[0] = 0 /\ ReadBack(reloaded', kl_messages')
    BY <1>1, <1>2 DEF Laid, ReadBack
  <2> HIDE DEF region_count
  <2>4. SavedAs(off)' BY <1>1, <1>2, <1>3, <2>1, <2>2, <2>3 DEF SavedAs
  <2>5. QED BY <2>4 DEF SavedInv
<1>7. QED BY <1>5, <1>6

(* The next message read is the next one saved.                            *)
LEMMA LoadKeptKeeps ==
    ASSUME ListTypeOK, NEW off \in [Nat -> Nat], SavedAs(off), LoadKept
    PROVE  SavedInv'
<1> DEFINE n == Len(reloaded) + 1
           size == Size(file_regions[n])
<1>1. /\ pc = "kept" /\ pc' = "kept" /\ Len(reloaded) < Len(file_regions)
      /\ fpos' = Smaller(fpos + size, Len(file))
      /\ reloaded' = Append(reloaded, Fread(file, fpos, size))
      /\ UNCHANGED <<kl_messages, messages_sent, message_count, file, file_regions>>
  BY DEF LoadKept, ConstructMessage, saving
<1>2. /\ message_count = Kept /\ Len(file) = off[message_count]
      /\ Laid(off, message_count, kl_messages, file)
      /\ Len(file_regions) = Kept /\ CutAs(off, file_regions)
      /\ ReadBack(reloaded, kl_messages) /\ fpos = off[Len(reloaded)]
  BY <1>1 DEF SavedAs
<1>3. /\ kl_messages \in Seq(Seq(Bytes)) /\ file \in Seq(Bytes)
      /\ reloaded \in Seq(Seq(Bytes)) /\ Len(reloaded) \in Nat
      /\ Kept \in Nat /\ Kept' = Kept /\ Kept =< Len(kl_messages)
  BY <1>1, KeptType DEF ListTypeOK, Kept
<1>4. n \in 1 .. Kept /\ n - 1 = Len(reloaded) BY <1>1, <1>2, <1>3
<1>5. file_regions[n] = Region(off[n - 1], off[n] - 1) BY <1>2, <1>4 DEF CutAs
<1> HIDE DEF n
<1>6. /\ Size(Region(off[n - 1], off[n] - 1)) = Len(kl_messages[n])
      /\ Fread(file, off[n - 1], Len(kl_messages[n])) = kl_messages[n]
      /\ Smaller(off[n - 1] + Len(kl_messages[n]), Len(file)) = off[n]
  BY <1>2, <1>3, <1>4, FreadLaid
<1>7. size = Len(kl_messages[n]) /\ fpos = off[n - 1] BY <1>2, <1>4, <1>5, <1>6
<1> HIDE DEF size
<1>8. fpos' = off[n] /\ reloaded' = Append(reloaded, kl_messages[n]) BY <1>1, <1>6, <1>7
<1>9. kl_messages[n] \in Seq(Bytes) BY <1>3, <1>4
<1>10. /\ Len(reloaded') = n /\ reloaded'[n] = kl_messages[n]
       /\ \A i \in 1 .. n - 1 : reloaded'[i] = reloaded[i]
  <2>1. PICK message \in Seq(Bytes) : message = kl_messages[n]
    BY <1>9
  <2>2. n = Len(reloaded) + 1
    BY <1>3, <1>4
  <2>3. /\ Len(Append(reloaded, message)) = Len(reloaded) + 1
        /\ Append(reloaded, message)[Len(reloaded) + 1] = message
        /\ \A i \in 1 .. Len(reloaded) : Append(reloaded, message)[i] = reloaded[i]
    BY <1>3
  <2>4. reloaded' = Append(reloaded, message) /\ n - 1 = Len(reloaded)
    BY <1>4, <1>8, <2>1
  <2> QED
    BY <2>1, <2>2, <2>3, <2>4
<1>11. ReadBack(reloaded', kl_messages)
  <2>1. SUFFICES ASSUME NEW i \in 1 .. n PROVE reloaded'[i] = kl_messages[i]
    BY <1>10 DEF ReadBack
  <2>2. i = n \/ i \in 1 .. n - 1 BY <1>4
  <2>3. QED BY <1>2, <1>4, <1>10, <2>2 DEF ReadBack
<1>12. Len(reloaded') =< Kept /\ fpos' = off[Len(reloaded')] BY <1>3, <1>4, <1>8, <1>10
<1>13. SavedAs(off)' BY <1>1, <1>2, <1>3, <1>11, <1>12 DEF SavedAs
<1>14. QED BY <1>13 DEF SavedInv

(* Nothing else writes the file, its regions or what is read back.         *)
LEMMA OtherKeeps ==
    ASSUME ListTypeOK, NEW off \in [Nat -> Nat], SavedAs(off),
           UNCHANGED <<message_count, file, file_regions, reloaded>>,
           \/ pc \in {"scan", "scanned", "cut"} /\ pc' \in {"scan", "scanned", "cut", "loaded"}
           \/ pc = "loaded" /\ pc' = "save" /\ messages_sent' \in Nat /\ UNCHANGED kl_messages
           \/ /\ \/ pc' = pc
                 \/ pc = "kept" /\ pc' = "reloaded" /\ Len(reloaded) = Len(file_regions)
              /\ UNCHANGED <<kl_messages, fpos, messages_sent>>
    PROVE  SavedInv'
<1>1. CASE pc \in {"scan", "scanned", "cut"} /\ pc' \in {"scan", "scanned", "cut", "loaded"}
  <2>1. SavedAs(off)' BY <1>1 DEF SavedAs
  <2>2. QED BY <2>1 DEF SavedInv
<1>2. CASE pc = "loaded" /\ pc' = "save" /\ messages_sent' \in Nat /\ UNCHANGED kl_messages
  <2>1. message_count' = 0 /\ file' = <<>> /\ file_regions' = <<>> /\ reloaded' = <<>>
    BY <1>2 DEF SavedAs
  <2>2. Kept' \in Nat
    <3>1. Len(kl_messages') \in Nat BY <1>2 DEF ListTypeOK
    <3>2. QED BY <1>2, <3>1 DEF Kept, Smaller
  <2>3. PICK start : start = [i \in Nat |-> 0] OBVIOUS
  <2>4. start \in [Nat -> Nat] /\ start[0] = 0 BY <2>3
  <2>5. Laid(start, 0, kl_messages', <<>>) BY <2>4 DEF Laid
  <2>6. SavedAs(start)' BY <1>2, <2>1, <2>2, <2>4, <2>5 DEF SavedAs
  <2>7. QED BY <2>4, <2>6 DEF SavedInv
<1>3. CASE /\ \/ pc' = pc
              \/ pc = "kept" /\ pc' = "reloaded" /\ Len(reloaded) = Len(file_regions)
           /\ UNCHANGED <<kl_messages, fpos, messages_sent>>
  <2>1. Kept' = Kept BY <1>3 DEF Kept
  <2>2. SavedAs(off)' BY <1>3, <2>1 DEF SavedAs
  <2>3. QED BY <2>2 DEF SavedInv
<1>4. QED BY <1>1, <1>2, <1>3

(* The file, its regions and its messages agree at every step.             *)
LEMMA SavedNext == IInv /\ SavedInv /\ [Next]_vars => SavedInv'
<1>1. SUFFICES ASSUME ScanInv, ListTypeOK, SavedInv, [Next]_vars PROVE SavedInv'
  BY DEF IInv, ListInv
<1>2. PICK off \in [Nat -> Nat] : SavedAs(off) BY <1>1 DEF SavedInv
<1>3. CASE save_kl_messages_to_file BY <1>1, <1>2, <1>3, SaveKeeps
<1>4. CASE convert_kl_messages_to_regions BY <1>1, <1>2, <1>4, ConvertKeeps
<1>5. CASE LoadKept BY <1>1, <1>2, <1>5, LoadKeptKeeps
<1>6. ASSUME \/ EndRequest \/ NextByte \/ extract_requests_dns
             \/ SshIdentificationByte \/ SshIdentificationEnd \/ extract_requests_ssh
             \/ extract_requests_tls \/ extract_requests_dicom \/ DicomRest
             \/ extract_requests_dtls12 \/ DtlsByte \/ EndOfBuffer \/ Return
      PROVE  SavedInv'
  <2>1. /\ UNCHANGED <<kl_messages, fpos, messages_sent, message_count, file, file_regions,
                       reloaded>>
        /\ pc \in {"scan", "scanned"} /\ pc' \in {"scan", "scanned", "cut"}
    BY <1>6 DEF EndRequest, NextByte, extract_requests_dns, SshIdentificationByte,
       SshIdentificationEnd, extract_requests_ssh, extract_requests_tls,
       extract_requests_dicom, DicomRest, extract_requests_dtls12, DtlsByte,
       EndOfBuffer, Return, Scanning, Skip, CutAt, lists, saving
  <2>2. QED BY <1>1, <1>2, <2>1, OtherKeeps
<1>7. ASSUME construct_kl_messages \/ Loaded PROVE SavedInv'
  <2>1. /\ UNCHANGED <<message_count, file, file_regions, reloaded>>
        /\ pc = "cut" /\ pc' \in {"cut", "loaded"}
    BY <1>7 DEF construct_kl_messages, ConstructMessage, Loaded, lists, saving
  <2>2. QED BY <1>1, <1>2, <2>1, OtherKeeps
<1>8. ASSUME Execute PROVE SavedInv'
  <2>1. /\ UNCHANGED <<message_count, file, file_regions, reloaded>>
        /\ pc = "loaded" /\ pc' = "save" /\ messages_sent' \in 0 .. Len(kl_messages) + 1
        /\ UNCHANGED kl_messages
    BY <1>8 DEF Execute
  <2>2. messages_sent' \in Nat BY <1>1, <2>1 DEF ListTypeOK
  <2>3. QED BY <1>1, <1>2, <2>1, <2>2, OtherKeeps
<1>9. ASSUME Reloaded \/ UNCHANGED vars PROVE SavedInv'
  <2>1. /\ UNCHANGED <<message_count, file, file_regions, reloaded>>
        /\ \/ pc' = pc
           \/ pc = "kept" /\ pc' = "reloaded" /\ Len(reloaded) = Len(file_regions)
        /\ UNCHANGED <<kl_messages, fpos, messages_sent>>
    <3>1. CASE Reloaded BY <3>1 DEF Reloaded, lists, saving
    <3>2. CASE UNCHANGED vars
      <4>1. UNCHANGED <<lists, pc>> BY <3>2 DEF vars
      <4>2. QED BY <4>1 DEF lists, saving
    <3>3. QED BY <1>9, <3>1, <3>2
  <2>2. QED BY <1>1, <1>2, <2>1, OtherKeeps
<1>10. QED BY <1>1, <1>3, <1>4, <1>5, <1>6, <1>7, <1>8, <1>9 DEF Next, Done

(* A queue entry gives back the messages that were sent of it: the three   *)
(* loops of save_kl_messages_to_file, convert_kl_messages_to_regions and   *)
(* construct_kl_messages agree on where each begins and on the last one.   *)
THEOREM SavedAlwaysComeBack == Spec => []SavedMessagesComeBack
<1>1. Init => SavedInv
  <2>1. SUFFICES ASSUME Init PROVE SavedInv OBVIOUS
  <2>2. /\ pc = "scan" /\ message_count = 0 /\ file = <<>> /\ file_regions = <<>>
        /\ reloaded = <<>>
    BY <2>1 DEF Init
  <2>3. PICK off : off = [i \in Nat |-> 0] OBVIOUS
  <2>4. off \in [Nat -> Nat] /\ SavedAs(off) BY <2>2, <2>3 DEF SavedAs
  <2>5. QED BY <2>4 DEF SavedInv
<1>2. IInv /\ SavedInv => SavedMessagesComeBack
  <2>1. SUFFICES ASSUME ListTypeOK, SavedInv, pc = "reloaded"
                 PROVE  reloaded = SubSeq(kl_messages, 1, Kept)
    BY DEF IInv, ListInv, SavedMessagesComeBack, Kept
  <2>2. PICK off \in [Nat -> Nat] : SavedAs(off) BY <2>1 DEF SavedInv
  <2>3. Len(reloaded) = Kept /\ \A i \in 1 .. Kept : reloaded[i] = kl_messages[i]
    BY <2>1, <2>2 DEF SavedAs, ReadBack
  <2>4. /\ reloaded \in Seq(Seq(Bytes)) /\ kl_messages \in Seq(Seq(Bytes))
        /\ Kept \in Nat /\ Kept =< Len(kl_messages)
    BY <2>1, KeptType DEF ListTypeOK
  <2> HIDE DEF Kept
  <2>5. SubSeq(kl_messages, 1, Kept) = [i \in 1 .. Kept |-> kl_messages[i]] BY <2>4
  <2>6. reloaded = [i \in 1 .. Kept |-> reloaded[i]] BY <2>3, <2>4
  <2>7. QED BY <2>3, <2>5, <2>6
<1>3. QED BY <1>1, <1>2, SavedNext, Invariance, PTL DEF Spec

-----------------------------------------------------------------------------
(***************************************************************************)
(* Arithmetic of the score and of the number of rounds                     *)
(***************************************************************************)

\* The numbers behind the two assumptions, for the steps that need no more.
LEMMA HavocNumbers ==
    /\ MAX_FILE \in Nat /\ MAX_FILE >= 1
    /\ HAVOC_BLK_SMALL \in Nat /\ HAVOC_BLK_MEDIUM \in Nat
    /\ HAVOC_BLK_LARGE \in Nat /\ HAVOC_BLK_XL \in Nat
    /\ 1 <= HAVOC_BLK_SMALL /\ HAVOC_BLK_SMALL <= HAVOC_BLK_MEDIUM
    /\ HAVOC_BLK_MEDIUM <= HAVOC_BLK_LARGE /\ HAVOC_BLK_LARGE <= HAVOC_BLK_XL
    /\ Limit \in Nat /\ Limit >= 100
    /\ havoc_div \in Nat /\ havoc_div >= 1
BY SizesAssumption, RoundsAssumption DEF Limit

\* A quotient of natural numbers grows with its dividend.
LEMMA QuotientGrows ==
    ASSUME NEW a \in Nat, NEW b \in Nat, NEW d \in Nat, d >= 1, a <= b
    PROVE  a \div d \in Nat /\ b \div d \in Nat /\ a \div d <= b \div d
OBVIOUS

\* calculate_score: every score is between 1 and the limit, so that a stage always has a
\* length and a find always has something to double.
LEMMA ScoreInLimits ==
    ASSUME NEW exec_us \in Nat, NEW bitmap_size \in Nat, NEW depth \in Nat, handicap \in Nat
    PROVE  calculate_score(exec_us, bitmap_size, depth) \in 1..Limit
<1>1. SpeedScore(exec_us) \in Nat /\ SpeedScore(exec_us) >= 10
  BY DEF SpeedScore
<1> DEFINE a == SpeedScore(exec_us)
           b == TimesCoverage(a, bitmap_size)
           c == TimesHandicap(b)
           d == TimesDepth(c, depth)
<1>2. b \in Nat /\ b >= 2
  <2>1. a \in Nat /\ a >= 10
    BY <1>1
  <2> HIDE DEF a
  <2> QED BY <2>1 DEF TimesCoverage
<1>3. c \in Nat /\ c >= 2
  <2> HIDE DEF b
  <2> QED BY <1>2 DEF TimesHandicap
<1>4. d \in Nat /\ d >= 2
  <2> HIDE DEF c
  <2> QED BY <1>3 DEF TimesDepth
<1>5. UpToLimit(d) \in 1..Limit
  <2> HIDE DEF d
  <2> QED BY <1>4, HavocNumbers DEF UpToLimit, MinOf
<1> QED BY <1>5 DEF calculate_score

\* The handicap that is left is a number.
LEMMA HandicapFalls ==
    ASSUME handicap \in Nat
    PROVE  HandicapLeft \in Nat
BY DEF HandicapLeft

\* No stage starts with more rounds than the longest one: the number of rounds grows with
\* the cycles and with the score.
LEMMA RoundsBounded ==
    ASSUME NEW cycles \in Nat, cycles <= HAVOC_CYCLES_INIT, NEW score \in 1..Limit
    PROVE  /\ Rounds(cycles, score) \in Nat /\ LongestStart \in Nat
           /\ Rounds(cycles, score) <= LongestStart
<1> DEFINE a == cycles * score
           b == HAVOC_CYCLES_INIT * Limit
<1>1. HAVOC_CYCLES_INIT \in Nat /\ HAVOC_MIN \in Nat
  BY RoundsAssumption
<1>2. a \in Nat /\ b \in Nat /\ a <= b
  <2>1. a \in Nat /\ b \in Nat /\ HAVOC_CYCLES_INIT * score \in Nat /\ score \in Nat
    BY <1>1, HavocNumbers
  <2>2. cycles * score <= HAVOC_CYCLES_INIT * score
    BY <1>1, HavocNumbers
  <2>3. HAVOC_CYCLES_INIT * score <= HAVOC_CYCLES_INIT * Limit
    BY <1>1, HavocNumbers
  <2> QED BY <2>1, <2>2, <2>3
<1> HIDE DEF a, b
<1> DEFINE p == a \div havoc_div
           q == b \div havoc_div
<1>3. p \in Nat /\ q \in Nat /\ p <= q
  BY <1>2, HavocNumbers, QuotientGrows
<1> HIDE DEF p, q
<1>4. p \div 100 \in Nat /\ q \div 100 \in Nat /\ p \div 100 <= q \div 100
  BY <1>3, QuotientGrows
<1> DEFINE m == p \div 100
           n == q \div 100
<1>5. Rounds(cycles, score) = (IF m < HAVOC_MIN THEN HAVOC_MIN ELSE m)
  BY DEF Rounds, a, p
<1>6. LongestStart = (IF n < HAVOC_MIN THEN HAVOC_MIN ELSE n)
  BY DEF LongestStart, Rounds, b, q
<1>7. m \in Nat /\ n \in Nat /\ m <= n
  BY <1>4
<1> HIDE DEF m, n
<1> QED BY <1>1, <1>5, <1>6, <1>7

(***************************************************************************)
(* The tweaks                                                              *)
(***************************************************************************)

\* choose_block_len: with a limit of at least one byte, the block has at least one byte and
\* no more than the limit, also where the limit is below the range that was drawn, nor more
\* than the longest block.
LEMMA BlocksFit ==
    ASSUME NEW limit \in Nat, limit >= 1
    PROVE  \A n \in choose_block_len(limit) :
              n \in Nat /\ n >= 1 /\ n <= limit /\ n <= HAVOC_BLK_XL
<1> SUFFICES ASSUME NEW r \in BlockRanges, NEW n \in LensOfRange(r, limit)
             PROVE  n \in Nat /\ n >= 1 /\ n <= limit /\ n <= HAVOC_BLK_XL
  BY DEF choose_block_len
<1>1. r[1] \in Nat /\ r[2] \in Nat /\ 1 <= r[1] /\ r[1] <= r[2] /\ r[2] <= HAVOC_BLK_XL
      /\ HAVOC_BLK_XL \in Nat
  BY HavocNumbers DEF BlockRanges
<1> DEFINE low  == IF r[1] >= limit THEN 1 ELSE r[1]
           high == MinOf(r[2], limit)
<1>2. /\ low \in Nat /\ high \in Nat /\ 1 <= low /\ low <= high /\ high <= limit
      /\ high <= HAVOC_BLK_XL
  BY <1>1 DEF MinOf
<1>3. PICK u \in UR(high - low + 1) : n = low + u
  BY DEF LensOfRange
<1> HIDE DEF low, high
<1> QED BY <1>1, <1>2, <1>3 DEF UR

\* What a tweak must leave of a buffer of temp_len bytes.
Fits(t) ==
    /\ t.len \in Nat /\ t.size \in Nat
    /\ t.len > 0 /\ t.len <= t.size /\ t.end <= t.size
    /\ t.len <= MAX_FILE \/ t.len <= temp_len

\* The state between two tweaks.
BufferFits ==
    temp_len \in Nat /\ out_size \in Nat /\ temp_len >= 1 /\ temp_len <= out_size

\* A tweak that keeps the length and writes up to a position inside the buffer.
LEMMA OverwriteFits ==
    ASSUME BufferFits, NEW last \in Int, last <= temp_len
    PROVE  Fits(Tweak(temp_len, out_size, last))
BY DEF BufferFits, Fits, Tweak

\* A tweak that makes a buffer of its own, not longer than MAX_FILE.
LEMMA ResizeFits ==
    ASSUME NEW n \in Nat, n >= 1, n <= MAX_FILE
    PROVE  Fits(Resize(n))
BY DEF Fits, Resize, Tweak

\* Nothing to do leaves what was there.
LEMMA NothingFits ==
    ASSUME BufferFits
    PROVE  \A t \in Nothing : Fits(t)
BY DEF BufferFits, Fits, Nothing, Tweak

\* Cases 0 to 10.
LEMMA SetBytesFit ==
    ASSUME BufferFits, NEW width \in Nat
    PROVE  \A t \in SetBytes(width) : Fits(t)
<1> SUFFICES ASSUME NEW t \in SetBytes(width) PROVE Fits(t)
  OBVIOUS
<1>1. CASE temp_len < width
  BY <1>1, NothingFits DEF SetBytes
<1>2. CASE ~(temp_len < width)
  <2>1. PICK at \in UR(temp_len - width + 1) : t = Tweak(temp_len, out_size, at + width)
    BY <1>2 DEF SetBytes
  <2>2. at + width \in Int /\ at + width <= temp_len
    BY <2>1 DEF UR, BufferFits
  <2> QED BY <2>1, <2>2, OverwriteFits
<1> QED BY <1>1, <1>2

\* Cases 11 and 12: something is left.
LEMMA DeleteBytesFit ==
    ASSUME BufferFits
    PROVE  \A t \in DeleteBytes : Fits(t)
<1> SUFFICES ASSUME NEW t \in DeleteBytes PROVE Fits(t)
  OBVIOUS
<1>1. CASE temp_len < 2
  BY <1>1, NothingFits DEF DeleteBytes
<1>2. CASE ~(temp_len < 2)
  <2>1. PICK n \in choose_block_len(temp_len - 1) :
          t = Tweak(temp_len - n, out_size, temp_len - n)
    BY <1>2 DEF DeleteBytes
  <2>2. temp_len - 1 \in Nat /\ temp_len - 1 >= 1
    BY <1>2 DEF BufferFits
  <2>3. n \in Nat /\ n >= 1 /\ n <= temp_len - 1
    BY <2>1, <2>2, BlocksFit
  <2> QED BY <2>1, <2>3 DEF BufferFits, Fits, Tweak
<1> QED BY <1>1, <1>2

\* Case 13: there is room for the longest block.
LEMMA CloneBytesFit ==
    ASSUME BufferFits
    PROVE  \A t \in CloneBytes : Fits(t)
<1> SUFFICES ASSUME NEW t \in CloneBytes PROVE Fits(t)
  OBVIOUS
<1>1. CASE temp_len + HAVOC_BLK_XL >= MAX_FILE
  BY <1>1, NothingFits DEF CloneBytes
<1>2. CASE ~(temp_len + HAVOC_BLK_XL >= MAX_FILE)
  <2>1. PICK n \in choose_block_len(temp_len) \cup choose_block_len(HAVOC_BLK_XL) :
          t = Resize(temp_len + n)
    BY <1>2 DEF CloneBytes
  <2>2. n \in Nat /\ n >= 1 /\ n <= HAVOC_BLK_XL
    BY <2>1, BlocksFit, HavocNumbers DEF BufferFits
  <2>3. temp_len + n \in Nat /\ temp_len + n >= 1 /\ temp_len + n <= MAX_FILE
    BY <1>2, <2>2, HavocNumbers DEF BufferFits
  <2> QED BY <2>1, <2>3, ResizeFits
<1> QED BY <1>1, <1>2

\* Case 14: the block ends inside the buffer.
LEMMA OverwriteBytesFit ==
    ASSUME BufferFits
    PROVE  \A t \in OverwriteBytes : Fits(t)
<1> SUFFICES ASSUME NEW t \in OverwriteBytes PROVE Fits(t)
  OBVIOUS
<1>1. CASE temp_len < 2
  BY <1>1, NothingFits DEF OverwriteBytes
<1>2. CASE ~(temp_len < 2)
  <2>1. PICK n \in choose_block_len(temp_len - 1) :
          t \in {Tweak(temp_len, out_size, to + n) : to \in UR(temp_len - n + 1)}
    BY <1>2 DEF OverwriteBytes
  <2>2. PICK to \in UR(temp_len - n + 1) : t = Tweak(temp_len, out_size, to + n)
    BY <2>1
  <2>3. temp_len - 1 \in Nat /\ temp_len - 1 >= 1
    BY <1>2 DEF BufferFits
  <2>4. n \in Nat
    BY <2>1, <2>3, BlocksFit
  <2>5. to + n \in Int /\ to + n <= temp_len
    BY <2>2, <2>4 DEF UR, BufferFits
  <2> QED BY <2>2, <2>5, OverwriteFits
<1> QED BY <1>1, <1>2

\* Cases 15 and 16: a token is as long as it is.
LEMMA TokensFit ==
    ASSUME BufferFits
    PROVE  \A t \in OverwriteToken \cup InsertToken : Fits(t)
<1>1. \A n \in TokenLengths : n \in Nat /\ n >= 1
  BY SizesAssumption
<1>2. ASSUME NEW t \in OverwriteToken PROVE Fits(t)
  <2>1. PICK n \in TokenLengths :
          t \in IF n > temp_len THEN Nothing
                ELSE {Tweak(temp_len, out_size, at + n) : at \in UR(temp_len - n + 1)}
    BY <1>2 DEF OverwriteToken
  <2>2. CASE n > temp_len
    BY <2>1, <2>2, NothingFits
  <2>3. CASE ~(n > temp_len)
    <3>1. PICK at \in UR(temp_len - n + 1) : t = Tweak(temp_len, out_size, at + n)
      BY <2>1, <2>3
    <3>2. n \in Nat
      BY <1>1
    <3>3. at + n \in Int /\ at + n <= temp_len
      BY <3>1, <3>2 DEF UR, BufferFits
    <3> QED BY <3>1, <3>3, OverwriteFits
  <2> QED BY <2>2, <2>3
<1>3. ASSUME NEW t \in InsertToken PROVE Fits(t)
  <2>1. PICK n \in TokenLengths :
          t \in IF temp_len + n >= MAX_FILE THEN Nothing ELSE {Resize(temp_len + n)}
    BY <1>3 DEF InsertToken
  <2>2. CASE temp_len + n >= MAX_FILE
    BY <2>1, <2>2, NothingFits
  <2>3. CASE ~(temp_len + n >= MAX_FILE)
    <3>1. t = Resize(temp_len + n)
      BY <2>1, <2>3
    <3>2. temp_len + n \in Nat /\ temp_len + n >= 1 /\ temp_len + n <= MAX_FILE
      BY <1>1, <2>3, HavocNumbers DEF BufferFits
    <3> QED BY <3>1, <3>2, ResizeFits
  <2> QED BY <2>2, <2>3
<1> QED BY <1>2, <1>3

\* Cases 17 to 20: a region is never longer than MAX_FILE.
LEMMA RegionsFit ==
    ASSUME BufferFits
    PROVE  \A t \in ReplaceByRegion \cup AddRegion \cup DuplicateRegion : Fits(t)
<1>1. \A n \in SourceRegions : n \in Nat /\ n >= 1 /\ n <= MAX_FILE
  BY SizesAssumption DEF SourceRegions
<1>2. ASSUME NEW t \in ReplaceByRegion PROVE Fits(t)
  BY <1>1, <1>2, ResizeFits DEF ReplaceByRegion
<1>3. ASSUME NEW t \in AddRegion PROVE Fits(t)
  <2>1. PICK n \in SourceRegions : temp_len + n < MAX_FILE /\ t = Resize(temp_len + n)
    BY <1>3 DEF AddRegion
  <2>2. temp_len + n \in Nat /\ temp_len + n >= 1 /\ temp_len + n <= MAX_FILE
    BY <1>1, <2>1, HavocNumbers DEF BufferFits
  <2> QED BY <2>1, <2>2, ResizeFits
<1>4. ASSUME NEW t \in DuplicateRegion PROVE Fits(t)
  <2>1. CASE temp_len * 2 >= MAX_FILE
    BY <1>4, <2>1, NothingFits DEF DuplicateRegion
  <2>2. CASE ~(temp_len * 2 >= MAX_FILE)
    <3>1. t = Resize(temp_len * 2)
      BY <1>4, <2>2 DEF DuplicateRegion
    <3>2. temp_len * 2 \in Nat /\ temp_len * 2 >= 1 /\ temp_len * 2 <= MAX_FILE
      BY <2>2, HavocNumbers DEF BufferFits
    <3> QED BY <3>1, <3>2, ResizeFits
  <2> QED BY <2>1, <2>2
<1> QED BY <1>2, <1>3, <1>4

\* No tweak that havoc may draw leaves the allocation or empties the buffer.
LEMMA TweaksFit ==
    ASSUME BufferFits
    PROVE  \A t \in Tweaks : Fits(t)
<1> SUFFICES ASSUME NEW t \in Tweaks PROVE Fits(t)
  OBVIOUS
<1>1. \/ t \in Nothing \/ t \in SetBytes(1) \/ t \in SetBytes(2) \/ t \in SetBytes(4)
      \/ t \in DeleteBytes \/ t \in CloneBytes \/ t \in OverwriteBytes
      \/ t \in OverwriteToken \cup InsertToken
      \/ t \in ReplaceByRegion \cup AddRegion \cup DuplicateRegion
  BY DEF Tweaks
<1>2. ASSUME t \in SetBytes(1) \/ t \in SetBytes(2) \/ t \in SetBytes(4) PROVE Fits(t)
  <2>1. 1 \in Nat /\ 2 \in Nat /\ 4 \in Nat
    OBVIOUS
  <2> QED BY <1>2, <2>1, SetBytesFit
<1> QED BY <1>1, <1>2, NothingFits, DeleteBytesFit, CloneBytesFit, OverwriteBytesFit,
           TokensFit, RegionsFit

(***************************************************************************)
(* The inductive invariant                                                 *)
(***************************************************************************)

\* What each step of fuzz_one finds in the buffers: between two mutants the original, as
\* long as its allocations at least, and in between a mutant that fits.
Buffers ==
    /\ stage # "idle" => M2_len >= 1 /\ len >= 1 /\ in_size = len
    /\ stage = "round" => temp_len = len /\ len <= out_size
    /\ stage = "tweak" => temp_len >= 1 /\ temp_len <= out_size

HavocInv == HavocTypes /\ Buffers /\ HavocBounded

\* What the invariant says of a buffer between two tweaks is the property.
LEMMA HavocInvHolds ==
    ASSUME HavocInv
    PROVE  HavocSound
<1>1. ASSUME stage = "tweak"
      PROVE  /\ temp_len > 0 /\ temp_len <= out_size
             /\ len <= in_size /\ (stacked = 0 /\ temp_len >= len => len <= out_size)
  BY <1>1 DEF HavocInv, HavocTypes, Buffers
<1>2. ASSUME stage = "tweak", NEW t \in Tweaks
      PROVE  /\ t.len > 0 /\ t.len <= t.size /\ t.end <= t.size
             /\ t.len <= MAX_FILE \/ t.len <= temp_len
  <2>1. BufferFits
    BY <1>2 DEF HavocInv, HavocTypes, Buffers, BufferFits
  <2> QED BY <2>1, TweaksFit DEF Fits
<1>3. BuffersHold
  BY <1>1, <1>2 DEF BuffersHold
<1> QED BY <1>3 DEF HavocInv, HavocSound

\* fuzz_one has not started.
LEMMA HavocBegins ==
    ASSUME HavocInit
    PROVE  HavocInv
<1>1. handicap \in Nat /\ SPLICE_CYCLES \in Nat
  BY RoundsAssumption DEF HavocInit
<1>2. HavocTypes
  BY <1>1 DEF HavocInit, HavocTypes
<1> QED BY <1>2 DEF HavocInit, HavocInv, Buffers, HavocBounded

\* A stage that starts with the score of the entry keeps the bound.
LEMMA StageStarts ==
    ASSUME NEW n \in Nat, n >= 1, NEW cycles \in Nat, cycles <= HAVOC_CYCLES_INIT,
           NEW score \in 1..Limit, StartHavoc(n, cycles, score), orig_perf' = score
    PROVE  /\ stage' = "round" /\ len' = n /\ in_size' = n /\ out_size' = n /\ temp_len' = n
           /\ stage_cur' \in Nat /\ stage_max' \in Nat /\ perf_score' \in Nat
           /\ orig_perf' \in Nat
           /\ HavocBounded'
<1>1. /\ Rounds(cycles, score) \in Nat /\ LongestStart \in Nat
      /\ Rounds(cycles, score) <= LongestStart
  BY RoundsBounded
<1> DEFINE r == Rounds(cycles, score)
           m == LongestStart
<1>2. r \in Nat /\ m \in Nat /\ r <= m /\ score \in Nat /\ Limit \in Nat
  BY <1>1, HavocNumbers
<1>3. stage_max' = r /\ perf_score' = score /\ stage_cur' = 0
  BY DEF StartHavoc
<1> HIDE DEF r, m
<1>4. r * score <= m * score
  BY <1>2
<1>5. score >= 1 /\ score <= Limit /\ score <= 2 * Limit
  BY <1>2
<1>6. HavocBounded' <=> (stage' # "idle" =>
        /\ orig_perf' >= 1 /\ orig_perf' <= Limit /\ perf_score' <= 2 * Limit
        /\ stage_max' * orig_perf' <= m * perf_score')
  BY DEF HavocBounded, m, LongestStart, Rounds, Limit
<1>7. HavocBounded'
  BY <1>3, <1>4, <1>5, <1>6
<1> QED BY <1>2, <1>3, <1>7 DEF StartHavoc

\* A find doubles the rounds with the score, and only while the score is within its limit.
LEMMA ProlongKeepsBound ==
    ASSUME HavocInv, stage # "idle", UNCHANGED orig_perf,
           Prolong \/ UNCHANGED <<stage_max, perf_score>>
    PROVE  stage_max' \in Nat /\ perf_score' \in Nat /\ HavocBounded'
<1> DEFINE m == LongestStart
           k == Limit
<1>1. m \in Nat /\ k \in Nat
  <2>1. HAVOC_CYCLES_INIT \in Nat /\ Limit \in 1..Limit
    BY RoundsAssumption, HavocNumbers
  <2> QED BY <2>1, RoundsBounded, HavocNumbers
<1>2. /\ stage_max \in Nat /\ perf_score \in Nat /\ orig_perf \in Nat
      /\ orig_perf >= 1 /\ orig_perf <= k /\ perf_score <= 2 * k
      /\ stage_max * orig_perf <= m * perf_score
  BY DEF HavocInv, HavocTypes, HavocBounded, m, k
<1>3. HavocBounded' <=> (stage' # "idle" =>
        /\ orig_perf' >= 1 /\ orig_perf' <= k /\ perf_score' <= 2 * k
        /\ stage_max' * orig_perf' <= m * perf_score')
  BY DEF HavocBounded, m, k, LongestStart, Rounds, Limit
<1>4. \/ perf_score <= k /\ stage_max' = stage_max * 2 /\ perf_score' = perf_score * 2
      \/ UNCHANGED <<stage_max, perf_score>>
  BY DEF Prolong, k
<1> HIDE DEF m, k
<1>5. CASE perf_score <= k /\ stage_max' = stage_max * 2 /\ perf_score' = perf_score * 2
  <2> DEFINE x == stage_max * orig_perf
             y == m * perf_score
  <2>1. x \in Nat /\ y \in Nat /\ x <= y
    BY <1>1, <1>2
  <2>2. (stage_max * 2) * orig_perf = 2 * x /\ m * (perf_score * 2) = 2 * y
    BY <1>1, <1>2
  <2>3. 2 * x <= 2 * y
    <3> HIDE DEF x, y
    <3> QED BY <2>1
  <2>4. stage_max' * orig_perf <= m * perf_score'
    BY <1>5, <2>2, <2>3
  <2>5. perf_score' <= 2 * k /\ stage_max' \in Nat /\ perf_score' \in Nat
    BY <1>1, <1>2, <1>5
  <2> QED BY <1>2, <1>3, <2>4, <2>5
<1>6. CASE UNCHANGED <<stage_max, perf_score>>
  BY <1>2, <1>3, <1>6
<1> QED BY <1>4, <1>5, <1>6

\* What does not touch the score and the stage keeps their bound.
LEMMA BoundStays ==
    ASSUME HavocInv, UNCHANGED rounds, stage # "idle"
    PROVE  HavocBounded'
<1>1. UNCHANGED <<orig_perf, perf_score, stage_max>>
  BY DEF rounds
<1> QED BY <1>1 DEF HavocInv, HavocBounded, LongestStart, Rounds, Limit

\* Everything is freed.
LEMMA EndsFreed ==
    ASSUME HavocInv, EndFuzzOne
    PROVE  HavocInv'
<1>1. SPLICE_CYCLES \in Nat
  BY RoundsAssumption
<1>2. HavocTypes'
  BY <1>1 DEF HavocInv, EndFuzzOne, HavocTypes
<1> QED BY <1>2 DEF EndFuzzOne, HavocInv, Buffers, HavocBounded

\* A step that starts a stage of n bytes with the score of the entry.
LEMMA StageKeepsInv ==
    ASSUME HavocInv, NEW n \in Lengths, NEW cycles \in Nat, cycles <= HAVOC_CYCLES_INIT,
           NEW score \in 1..Limit, StartHavoc(n, cycles, score), orig_perf' = score,
           M2_len' \in Nat, M2_len' >= 1, stacked' = stacked,
           splice_cycle' \in 0..SPLICE_CYCLES, handicap' \in Nat
    PROVE  HavocInv'
<1>1. n \in Nat /\ n >= 1
  BY SizesAssumption
<1>2. /\ stage' = "round" /\ len' = n /\ in_size' = n /\ out_size' = n /\ temp_len' = n
      /\ stage_cur' \in Nat /\ stage_max' \in Nat /\ perf_score' \in Nat
      /\ orig_perf' \in Nat
      /\ HavocBounded'
  BY <1>1, StageStarts
<1>3. HavocTypes'
  BY <1>1, <1>2 DEF HavocInv, HavocTypes
<1>4. Buffers'
  BY <1>1, <1>2 DEF Buffers
<1> QED BY <1>2, <1>3, <1>4 DEF HavocInv

\* Every step of fuzz_one.
LEMMA HavocSteps ==
    ASSUME HavocInv, [HavocNext]_havocVars
    PROVE  HavocInv'
<1>0. SPLICE_CYCLES \in Nat
  BY RoundsAssumption
<1>1. CASE Begin
  <2>1. PICK n \in Lengths, exec_us \in ExecTimes, bitmap_size \in BitmapSizes,
             depth \in Depths, doing_det \in BOOLEAN :
          /\ M2_len' = n /\ orig_perf' = calculate_score(exec_us, bitmap_size, depth)
          /\ StartHavoc(n, IF doing_det THEN HAVOC_CYCLES_INIT ELSE HAVOC_CYCLES,
                        calculate_score(exec_us, bitmap_size, depth))
    BY <1>1 DEF Begin
  <2> DEFINE score  == calculate_score(exec_us, bitmap_size, depth)
             cycles == IF doing_det THEN HAVOC_CYCLES_INIT ELSE HAVOC_CYCLES
  <2>2. exec_us \in Nat /\ bitmap_size \in Nat /\ depth \in Nat /\ handicap \in Nat
    BY RoundsAssumption DEF HavocInv, HavocTypes
  <2>3. score \in 1..Limit
    BY <2>2, ScoreInLimits
  <2>4. cycles \in Nat /\ cycles <= HAVOC_CYCLES_INIT
    BY RoundsAssumption
  <2>5. handicap' \in Nat
    BY <1>1, <2>2, HandicapFalls DEF Begin
  <2>6. M2_len' \in Nat /\ M2_len' >= 1
    BY <2>1, SizesAssumption
  <2>7. stacked' = stacked /\ splice_cycle' \in 0..SPLICE_CYCLES
    BY <1>0, <1>1 DEF Begin
  <2>8. StartHavoc(n, cycles, score) /\ orig_perf' = score
    BY <2>1
  <2> HIDE DEF score, cycles
  <2> QED BY <2>3, <2>4, <2>5, <2>6, <2>7, <2>8, StageKeepsInv
<1>2. CASE StartRound
  <2>1. HavocTypes'
    BY <1>2, SizesAssumption DEF StartRound, HavocInv, HavocTypes, buffers, rounds
  <2>2. Buffers'
    BY <1>2 DEF StartRound, HavocInv, HavocTypes, Buffers, buffers
  <2>3. HavocBounded'
    BY <1>2, BoundStays DEF StartRound
  <2> QED BY <2>1, <2>2, <2>3 DEF HavocInv
<1>3. CASE TweakOnce
  <2>1. PICK t \in Tweaks : temp_len' = t.len /\ out_size' = t.size
    BY <1>3 DEF TweakOnce
  <2>2. BufferFits
    BY <1>3 DEF TweakOnce, HavocInv, HavocTypes, Buffers, BufferFits
  <2>3. Fits(t)
    BY <2>2, TweaksFit
  <2>4. temp_len' \in Nat /\ out_size' \in Nat /\ temp_len' >= 1 /\ temp_len' <= out_size'
    BY <2>1, <2>3 DEF Fits
  <2>5. HavocTypes'
    BY <1>3, <2>4 DEF TweakOnce, HavocInv, HavocTypes, rounds
  <2>6. Buffers'
    BY <1>3, <2>4 DEF TweakOnce, HavocInv, Buffers
  <2>7. HavocBounded'
    BY <1>3, BoundStays DEF TweakOnce
  <2> QED BY <2>5, <2>6, <2>7 DEF HavocInv
<1>4. CASE RunMutant
  <2>1. stage_max' \in Nat /\ perf_score' \in Nat /\ HavocBounded'
    BY <1>4, ProlongKeepsBound DEF RunMutant
  <2>2. HavocTypes'
    BY <1>4, <2>1 DEF RunMutant, HavocInv, HavocTypes
  <2>3. Buffers'
    BY <1>4 DEF RunMutant, HavocInv, HavocTypes, Buffers
  <2> QED BY <2>1, <2>2, <2>3 DEF HavocInv
<1>5. CASE Abandon \/ EndSplicing
  BY <1>5, EndsFreed DEF Abandon, EndSplicing
<1>6. CASE EndRounds
  <2>1. HavocTypes'
    BY <1>6 DEF EndRounds, HavocInv, HavocTypes, buffers, rounds
  <2>2. Buffers'
    BY <1>6 DEF EndRounds, HavocInv, HavocTypes, Buffers, buffers
  <2>3. HavocBounded'
    BY <1>6, BoundStays DEF EndRounds
  <2> QED BY <2>1, <2>2, <2>3 DEF HavocInv
<1>7. CASE RetrySplicing
  <2>1. HavocTypes'
    BY <1>0, <1>7 DEF RetrySplicing, MaySplice, HavocInv, HavocTypes, rounds
  <2>2. Buffers'
    BY <1>7 DEF RetrySplicing, HavocInv, HavocTypes, Buffers
  <2>3. HavocBounded'
    BY <1>7, BoundStays DEF RetrySplicing
  <2> QED BY <2>1, <2>2, <2>3 DEF HavocInv
<1>8. CASE SpliceWithOther
  <2>1. PICK n \in Lengths : StartHavoc(n, SPLICE_HAVOC, orig_perf)
    BY <1>8 DEF SpliceWithOther
  <2>2. orig_perf \in 1..Limit
    BY <1>8, HavocNumbers DEF SpliceWithOther, HavocInv, HavocTypes, HavocBounded
  <2>3. SPLICE_HAVOC \in Nat /\ SPLICE_HAVOC <= HAVOC_CYCLES_INIT
    BY RoundsAssumption
  <2>4. M2_len' \in Nat /\ M2_len' >= 1 /\ handicap' \in Nat
    BY <1>8 DEF SpliceWithOther, HavocInv, HavocTypes, Buffers
  <2>5. splice_cycle' \in 0..SPLICE_CYCLES
    BY <1>0, <1>8 DEF SpliceWithOther, MaySplice, HavocInv, HavocTypes
  <2>6. orig_perf' = orig_perf /\ stacked' = stacked
    BY <1>8 DEF SpliceWithOther
  <2> QED BY <2>1, <2>2, <2>3, <2>4, <2>5, <2>6, StageKeepsInv
<1>9. CASE UNCHANGED havocVars
  <2>1. UNCHANGED <<stage, M2_len, len, in_size, out_size, temp_len, orig_perf, perf_score,
                    stage_cur, stage_max, stacked, splice_cycle, handicap>>
    BY <1>9 DEF havocVars, buffers, rounds
  <2>2. HavocBounded'
    BY <2>1 DEF HavocInv, HavocBounded, LongestStart, Rounds, Limit
  <2> QED BY <2>1, <2>2 DEF HavocInv, HavocTypes, Buffers
<1> QED BY <1>1, <1>2, <1>3, <1>4, <1>5, <1>6, <1>7, <1>8, <1>9 DEF HavocNext, Step

\* The state of the havoc stage is as the table of its buffers says.
THEOREM HavocInvariance == HavocSpec => []HavocInv
<1>1. HavocInit => HavocInv
  BY HavocBegins
<1>2. HavocInv /\ [HavocNext]_havocVars => HavocInv'
  BY HavocSteps
<1> QED BY <1>1, <1>2, PTL DEF HavocSpec

\* The run's property: whatever is stacked, spliced or found, a tweak stays inside the
\* allocation it works on, a mutant is neither empty nor made longer than MAX_FILE, the
\* original fits when it is copied back, and finds prolong a stage to a bound only.
THEOREM HavocIsSound == HavocSpec => []HavocSound
<1>1. HavocInv => HavocSound
  BY HavocInvHolds
<1> QED BY <1>1, HavocInvariance, PTL

(***************************************************************************)
(* Responses: the codes of a longer response go on from those of a shorter *)
(* one.  The scan of a steady extractor is a function of its state and the *)
(* buffer (NextState); Leads says of two states that it takes the scan     *)
(* from one to the other, without counting the steps.  While a response is *)
(* scanned, the scan of the response one byte shorter either leads on from *)
(* the same state to the end that annotates it, or has ended: RespInv.     *)
(***************************************************************************)

(* A sequence without its last member.                                     *)
LEMMA AllButTheLast ==
    ASSUME NEW S, NEW s \in Seq(S), s # <<>>
    PROVE  /\ Len(SubSeq(s, 1, Len(s) - 1)) = Len(s) - 1
           /\ \A i \in 1 .. Len(s) - 1 : SubSeq(s, 1, Len(s) - 1)[i] = s[i]
<1>1. PICK n \in Nat \ {0} : n = Len(s)
  OBVIOUS
<1>2. Len(SubSeq(s, 1, n - 1)) = n - 1
  OBVIOUS
<1>3. \A i \in 1 .. n - 1 : SubSeq(s, 1, n - 1)[i] = s[1 + i - 1]
  OBVIOUS
<1>4. \A i \in 1 .. n - 1 : 1 + i - 1 = i
  OBVIOUS
<1> QED
  BY <1>1, <1>2, <1>3, <1>4, Zenon

\* Width is a number wide enough for the bytes that have a meaning.
USE WidthAssumption

Numbers == 0 .. Width - 1

(* The state of an extractor, typed.                                       *)
RespTypes ==
    /\ extractor \in ResponseExtractors /\ scan \in {"scan", "done"}
    /\ response_buf \in Seq(Alphabet[extractor])
    /\ Len(response_buf) <= MaxResponse[extractor]
    /\ annotation \in Seq(Nat) /\ state_sequence \in Seq(Nat)
    /\ scanned \in 0 .. 3 * Width
    /\ mem_count \in Nat /\ mem_count <= scanned /\ mem_count <= Len(response_buf)
    /\ extractor \in {"ssh", "dtls12", "dicom"} => mem_count = 0
    /\ window \in [0 .. Responses!MemSize -> Numbers]
    /\ IF state_sequence = <<>> THEN extractor = "dicom" /\ response_buf = <<>>
       ELSE state_sequence[1] = 0

(* The result of DICOM, which looks at the first byte only.                *)
PduStates == IF response_buf = <<>> THEN <<>> ELSE <<0, response_buf[1]>>

PduInv ==
    extractor = "dicom" =>
        /\ scan = "done" => state_sequence = PduStates
        /\ annotation = <<>> \/ (Len(response_buf) > 1 /\ annotation = PduStates)

-----------------------------------------------------------------------------
(* A scan as a function of its state: the counter, the cursor, the window, *)
(* its count and the codes, as in scanVars of Responses.                   *)
LineExtractors == {"smtp", "ftp", "rtsp", "sip", "http"}

Steady(e) == e \notin Responses!Unsteady \cup {"dicom"}

CodeAt(e) == IF e \in {"smtp", "ftp"} THEN 0 ELSE IF e = "sip" THEN 1 ELSE 2

LineEndsAt(m, count) == count > 0 /\ m[count - 1] = Responses!CR /\ m[count] = Responses!LF

StatusAt(e, m, count) == e \in {"smtp", "ftp"} \/ (count >= 1 /\ m[0] = Responses!Magic)

CodeOf(e, m) == Responses!Atoi(Responses!Window(m, CodeAt(e), 3))

AfterLineByte(e, at, m, count, codes) ==
    IF ~LineEndsAt(m, count) THEN <<"scan", at + 1, m, count + 1, codes>>
    ELSE IF ~StatusAt(e, m, count) THEN <<"scan", at + 1, m, 0, codes>>
    ELSE IF CodeOf(e, m) = 0 THEN <<"done", at + 1, m, count, codes>>
    ELSE <<"scan", at + 1, m, 0, Append(codes, CodeOf(e, m))>>

(* Where a TLS record ends in a buffer of so many bytes, and the next one  *)
(* begins.                                                                 *)
Ends(size, at, skipped) == IF at + 1 + skipped < size THEN at + 1 + skipped ELSE size

Begins(size, at, skipped) ==
    IF Ends(size, at, skipped) < size THEN Ends(size, at, skipped) - 1
    ELSE Ends(size, at, skipped)

AfterTlsByte(size, at, m, count, codes) ==
    IF count >= Responses!TlsHeader
    THEN <<"scan", Begins(size, at, (m[1] - 1) % Width), m, 0,
           Append(codes, Responses!TlsCode(m))>>
    ELSE <<"scan", at + 1, m, count + 1, codes>>

AfterDnsByte(at, m, count, codes) ==
    IF count >= Responses!DnsHeader /\ m[count] = 0
    THEN <<"scan", at + 6, m, 0, Append(codes, 20 * m[1] + m[2])>>
    ELSE <<"scan", at + 1, m, count + 1, codes>>

AfterByte(e, size, at, m, count, codes) ==
    IF e \in LineExtractors THEN AfterLineByte(e, at, m, count, codes)
    ELSE IF e = "tls" THEN AfterTlsByte(size, at, m, count, codes)
    ELSE IF e = "dns" THEN AfterDnsByte(at, m, count, codes)
    ELSE <<"scan", at, m, count, codes>>

(* Ended scans stay where they are, and so do those past their bound.      *)
NextState(e, buffer, s) ==
    IF s[1] # "scan" THEN s
    ELSE IF s[2] >= Len(buffer) THEN <<"done", s[2], s[3], s[4], s[5]>>
    ELSE IF Len(s[5]) > MaxResponse[e] + 1 THEN s
    ELSE AfterByte(e, Len(buffer), s[2], [s[3] EXCEPT ![s[4]] = buffer[s[2] + 1]], s[4], s[5])

Leads(e, buffer, a, b) ==
    \A S : a \in S /\ (\A s \in S : NextState(e, buffer, s) \in S) => b \in S

Current == <<scan, scanned, window, mem_count, state_sequence>>
Initial == <<"scan", 0, [i \in 0 .. Responses!MemSize |-> 0], 0, <<0>>>>
Shorter == SubSeq(response_buf, 1, Len(response_buf) - 1)

(* The shorter scan has an end, and goes on to it from here.               *)
GoesOn ==
    \E last : /\ last[1] = "done" /\ last[5] = annotation
              /\ Leads(extractor, Shorter, Current, last)

Grows == Responses!IsPrefix(annotation, state_sequence)

SteadyInv ==
    Steady(extractor) =>
        /\ Leads(extractor, response_buf, Initial, Current)
        /\ IF response_buf = <<>> THEN annotation = <<>> ELSE GoesOn \/ Grows

RespInv == running = "responses" => RespTypes /\ PduInv /\ SteadyInv

-----------------------------------------------------------------------------
(* Leads is reflexive, goes on by a step at either end, and does not leave *)
(* an ended scan.                                                          *)
LEMMA LeadsToItself == \A e, buffer, a : Leads(e, buffer, a, a)
<1>1. QED BY Zenon DEF Leads

LEMMA LeadsOn ==
    \A e, buffer, a, b : Leads(e, buffer, a, b) => Leads(e, buffer, a, NextState(e, buffer, b))
<1>1. QED BY Zenon DEF Leads

LEMMA LeadsFurther ==
    \A e, buffer, a, b :
        Leads(e, buffer, a, b) /\ a # b => Leads(e, buffer, NextState(e, buffer, a), b)
<1>1. SUFFICES ASSUME NEW e, NEW buffer, NEW a, NEW b, Leads(e, buffer, a, b), a # b,
                      NEW S, NextState(e, buffer, a) \in S,
                      \A s \in S : NextState(e, buffer, s) \in S
               PROVE  b \in S
  BY Zenon DEF Leads
<1>2. b \in S \cup {a}
  <2>1. a \in S \cup {a} OBVIOUS
  <2>2. \A s \in S \cup {a} : NextState(e, buffer, s) \in S \cup {a} BY <1>1, Zenon
  <2>3. QED BY <1>1, <2>1, <2>2, Zenon DEF Leads
<1>3. QED BY <1>1, <1>2

LEMMA LeadsNowhere ==
    \A e, buffer, a, b : Leads(e, buffer, a, b) /\ NextState(e, buffer, a) = a => b = a
<1>1. SUFFICES ASSUME NEW e, NEW buffer, NEW a, NEW b, Leads(e, buffer, a, b),
                      NextState(e, buffer, a) = a
               PROVE  b = a
  OBVIOUS
<1>2. b \in {a} BY <1>1, Zenon DEF Leads
<1>3. QED BY <1>2

-----------------------------------------------------------------------------
(* Every set of numbers has a least one.                                   *)
LEMMA LeastNumber ==
    ASSUME NEW T \in SUBSET Nat, T # {}
    PROVE  \E low \in T : \A k \in T : low <= k
<1> DEFINE R == {ss \in Nat \X Nat : ss[1] < ss[2]}
<1>1. IsWellFoundedOn(R, Nat)
  BY NatLessThanWellFounded DEF OpToRel
<1> HIDE DEF R
<1>2. PICK low \in T : \A k \in T : ~(<<k, low>> \in R)
  BY <1>1, WFMin
<1>3. \A k \in T : ~(k < low)
  BY <1>2 DEF R
<1>4. \A k \in T : k \in Nat
  OBVIOUS
<1> QED
  BY <1>3, <1>4

(* Numbers read from a window are natural.                                 *)
LEMMA LeastOf ==
    ASSUME NEW n \in Nat, NEW I \in SUBSET (1 .. n)
    PROVE  (IF I # {} THEN Responses!Min(I) ELSE 0) \in 0 .. n
<1>1. ASSUME I # {} PROVE Responses!Min(I) \in I
  <2>1. I \in SUBSET Nat OBVIOUS
  <2>2. \E i \in I : \A j \in I : i <= j BY <1>1, <2>1, LeastNumber
  <2>3. QED BY <2>2, Zenon DEF Responses!Min
<1>2. CASE I = {} BY <1>2
<1>3. CASE I # {}
  <2>1. PICK low \in I : low = Responses!Min(I) BY <1>1, <1>3
  <2>2. low \in 0 .. n OBVIOUS
  <2>3. (IF I # {} THEN Responses!Min(I) ELSE 0) = low BY <1>3, <2>1, Zenon
  <2>4. QED BY <2>2, <2>3
<1>4. QED BY <1>2, <1>3

LEMMA NumberIsNatural ==
    ASSUME NEW d \in Seq(Nat)
    PROVE  Responses!Number(d) \in Nat
<1>1. Len(d) \in Nat /\ \A i \in 1 .. Len(d) : d[i] \in Nat OBVIOUS
<1>2. CASE Len(d) = 0
  <2>1. Responses!Number(d) = 0 BY <1>2 DEF Responses!Number
  <2>2. QED BY <2>1
<1>3. CASE Len(d) = 1
  <2>1. d[1] \in Nat BY <1>1, <1>3
  <2>2. QED BY <1>3, <2>1 DEF Responses!Number
<1>4. CASE Len(d) = 2
  <2>1. d[1] \in Nat /\ d[2] \in Nat BY <1>1, <1>4
  <2>2. QED BY <1>4, <2>1 DEF Responses!Number
<1>5. CASE Len(d) = 3
  <2>1. d[1] \in Nat /\ d[2] \in Nat /\ d[3] \in Nat BY <1>1, <1>5
  <2>2. QED BY <1>5, <2>1 DEF Responses!Number
<1>6. CASE Len(d) >= 4
  <2>1. PICK p \in Nat : p = d[1] BY <1>1, <1>6
  <2>2. PICK q \in Nat : q = d[2] BY <1>1, <1>6
  <2>3. PICK r \in Nat : r = d[3] BY <1>1, <1>6
  <2>4. PICK t \in Nat : t = d[4] BY <1>1, <1>6
  <2>5. Len(d) # 0 /\ Len(d) # 1 /\ Len(d) # 2 /\ Len(d) # 3 BY <1>1, <1>6
  <2>6. Responses!Number(d) = 1000 * d[1] + 100 * d[2] + 10 * d[3] + d[4]
    BY <2>5, Zenon DEF Responses!Number
  <2>7. Responses!Number(d) = 1000 * p + 100 * q + 10 * r + t
    BY <2>1, <2>2, <2>3, <2>4, <2>6
  <2>8. 1000 * p + 100 * q + 10 * r + t \in Nat OBVIOUS
  <2>9. QED BY <2>7, <2>8, Zenon
<1>7. Len(d) = 0 \/ Len(d) = 1 \/ Len(d) = 2 \/ Len(d) = 3 \/ Len(d) >= 4
  <2>1. \A k \in Nat : k = 0 \/ k = 1 \/ k = 2 \/ k = 3 \/ k >= 4 OBVIOUS
  <2>2. QED BY <1>1, <2>1, Zenon
<1>8. QED BY <1>2, <1>3, <1>4, <1>5, <1>6, <1>7, Zenon

LEMMA AtoiIsNatural == \A s \in Seq(Nat) : Responses!Atoi(s) \in Nat
<1>1. SUFFICES ASSUME NEW s \in Seq(Nat) PROVE Responses!Atoi(s) \in Nat OBVIOUS
<1> DEFINE blank == {Responses!CR, Responses!LF}
           begin == Responses!SelectInSeq(s, LAMBDA b : b \notin blank)
           rest  == IF begin = 0 THEN <<>> ELSE SubSeq(s, begin, Len(s))
           stop   == Responses!SelectInSeq(rest, LAMBDA b : ~Responses!IsDigit(b))
           digits == IF stop = 0 THEN rest ELSE SubSeq(rest, 1, stop - 1)
<1>2. Responses!Atoi(s) = Responses!Number(digits) BY Zenon DEF Responses!Atoi
<1>3. begin \in 0 .. Len(s)
  <2>1. Len(s) \in Nat BY <1>1
  <2> DEFINE I == {i \in 1 .. Len(s) : s[i] \notin blank}
  <2>2. begin = IF I # {} THEN Responses!Min(I) ELSE 0 BY Zenon DEF Responses!SelectInSeq
  <2>3. I \in SUBSET (1 .. Len(s)) OBVIOUS
  <2> HIDE DEF begin, I
  <2>4. QED BY <2>1, <2>2, <2>3, LeastOf
<1> HIDE DEF begin
<1>4. rest \in Seq(Nat) BY <1>1, <1>3
<1> HIDE DEF rest
<1>5. stop \in 0 .. Len(rest)
  <2>1. Len(rest) \in Nat BY <1>4
  <2> DEFINE I == {i \in 1 .. Len(rest) : ~Responses!IsDigit(rest[i])}
  <2>2. stop = IF I # {} THEN Responses!Min(I) ELSE 0 BY Zenon DEF Responses!SelectInSeq
  <2>3. I \in SUBSET (1 .. Len(rest)) OBVIOUS
  <2> HIDE DEF stop, I
  <2>4. QED BY <2>1, <2>2, <2>3, LeastOf
<1> HIDE DEF stop
<1>6. digits \in Seq(Nat) BY <1>4, <1>5
<1> HIDE DEF digits
<1>7. QED BY <1>2, <1>6, NumberIsNatural

-----------------------------------------------------------------------------
(* What every scan of a response keeps: the response, the types, and the   *)
(* codes so far.                                                           *)
Emits ==
    \/ state_sequence' = state_sequence
    \/ \E code \in Nat : state_sequence' = Append(state_sequence, code)

ScanKeeps ==
    /\ UNCHANGED <<extractor, response_buf, annotation>>
    /\ scan = "scan" /\ scan' \in {"scan", "done"}
    /\ window' \in [0 .. Responses!MemSize -> Numbers]
    /\ scanned' \in 0 .. 3 * Width
    /\ mem_count' \in Nat /\ mem_count' <= scanned' /\ mem_count' <= Len(response_buf)
    /\ extractor \in {"ssh", "dtls12", "dicom"} => mem_count' = 0
    /\ Emits

WindowNext == [window EXCEPT ![mem_count] = response_buf[scanned + 1]]

(* Where the scan stands, in numbers.                                      *)
LEMMA Places ==
    ASSUME RespTypes
    PROVE  /\ Len(response_buf) \in 0 .. Width /\ MaxResponse[extractor] \in 0 .. Width
           /\ Responses!MemSize = MaxResponse[extractor] + 8
           /\ mem_count \in 0 .. Responses!MemSize /\ scanned \in 0 .. 3 * Width
           /\ Numbers = 0 .. Width - 1
           /\ \A i \in 1 .. Len(response_buf) : response_buf[i] \in Numbers
           /\ \A i \in Int : Responses!BytesAt(i) \subseteq
                 IF i < Len(response_buf) THEN {response_buf[i + 1]} ELSE Numbers
<1>1. extractor \in ResponseExtractors /\ response_buf \in Seq(Alphabet[extractor])
      /\ Len(response_buf) <= MaxResponse[extractor] /\ mem_count \in Nat
      /\ mem_count <= Len(response_buf) /\ scanned \in 0 .. 3 * Width
  BY DEF RespTypes
<1>2. MaxResponse[extractor] \in 0 .. Width /\ Alphabet[extractor] \subseteq 0 .. Width - 1
  BY <1>1, ResponseAssumption, Zenon
<1>3. Numbers = 0 .. Width - 1 BY DEF Numbers
<1>4. Responses!MemSize = MaxResponse[extractor] + 8 BY DEF Responses!MemSize
<1>5. \A i \in 1 .. Len(response_buf) : response_buf[i] \in Numbers
  <2>1. PICK bytes \in Seq(Alphabet[extractor]) : bytes = response_buf BY <1>1
  <2>2. \A i \in 1 .. Len(bytes) : bytes[i] \in Alphabet[extractor] OBVIOUS
  <2>3. QED BY <1>2, <1>3, <2>1, <2>2
<1>6. Len(response_buf) \in Nat BY <1>1
<1>7. \A i \in Int : Responses!BytesAt(i) \subseteq
         IF i < Len(response_buf) THEN {response_buf[i + 1]} ELSE Numbers
  <2>1. {0} \cup Alphabet[extractor] \subseteq Numbers
    <3>1. 0 \in 0 .. Width - 1 OBVIOUS
    <3>2. QED BY <1>2, <1>3, <3>1, Zenon
  <2>2. SUFFICES ASSUME NEW i \in Int
                 PROVE  Responses!BytesAt(i) \subseteq
                           IF i < Len(response_buf) THEN {response_buf[i + 1]} ELSE Numbers
    OBVIOUS
  <2>3. QED BY <2>1, Zenon DEF Responses!BytesAt, Responses!buf_size
<1> DEFINE n == Len(response_buf)
           most == MaxResponse[extractor]
<1>8. n \in 0 .. Width /\ mem_count \in 0 .. most + 8
  <2>1. n \in Nat /\ n <= most /\ most \in 0 .. Width /\ mem_count \in Nat /\ mem_count <= n
    BY <1>1, <1>2, <1>6, Zenon
  <2> HIDE DEF n, most
  <2>2. QED BY <2>1
<1>9. mem_count \in 0 .. Responses!MemSize BY <1>4, <1>8, Zenon
<1>10. scanned \in 0 .. 3 * Width BY <1>1
<1>11. QED BY <1>2, <1>3, <1>4, <1>5, <1>7, <1>8, <1>9, <1>10

LEMMA Written ==
    ASSUME RespTypes, scanned < Len(response_buf)
    PROVE  /\ WindowNext \in [0 .. Responses!MemSize -> Numbers]
           /\ WindowNext = Responses!NextByte
<1>1. scanned + 1 \in 1 .. Len(response_buf)
  <2>1. scanned \in 0 .. 3 * Width /\ Len(response_buf) \in 0 .. Width BY Places, Zenon
  <2>2. QED BY <2>1
<1>2. response_buf[scanned + 1] \in Numbers BY <1>1, Places
<1>3. window \in [0 .. Responses!MemSize -> Numbers] BY DEF RespTypes
<1>4. QED BY <1>2, <1>3 DEF WindowNext, Responses!NextByte

LEMMA CodesAreNatural ==
    ASSUME RespTypes, NEW m \in [0 .. Responses!MemSize -> Numbers],
           NEW from \in 0 .. 4, NEW count \in 0 .. 4
    PROVE  Responses!Atoi(Responses!Window(m, from, count)) \in Nat
<1>1. \A i \in 1 .. count : m[from + i - 1] \in Nat
  <2>1. SUFFICES ASSUME NEW i \in 1 .. count PROVE m[from + i - 1] \in Nat OBVIOUS
  <2>2. PICK most \in 0 .. Width : Responses!MemSize = most + 8 BY Places, Zenon
  <2>3. Numbers = 0 .. Width - 1 BY Places, Zenon
  <2>4. from + i - 1 \in 0 .. Responses!MemSize BY <2>2
  <2>5. \A k \in 0 .. Responses!MemSize : m[k] \in Numbers OBVIOUS
  <2>6. m[from + i - 1] \in Numbers BY <2>4, <2>5, Zenon
  <2>7. \A k \in 0 .. Width - 1 : k \in Nat OBVIOUS
  <2>8. QED BY <2>3, <2>6, <2>7, Zenon
<1>2. [i \in 1 .. count |-> m[from + i - 1]] \in Seq(Nat) BY <1>1
<1>3. Responses!Window(m, from, count) \in Seq(Nat) BY <1>2 DEF Responses!Window
<1>4. QED BY <1>3, AtoiIsNatural

-----------------------------------------------------------------------------
(* One lemma for each kind of extractor.                                   *)
LEMMA LineScan ==
    ASSUME RespTypes,
           \/ Responses!extract_response_codes_smtp \/ Responses!extract_response_codes_ftp
           \/ Responses!extract_response_codes_rtsp \/ Responses!extract_response_codes_sip
           \/ Responses!extract_response_codes_http
    PROVE  /\ scan = "scan" /\ scanned < Len(response_buf) /\ extractor \in LineExtractors
           /\ Len(state_sequence) <= MaxResponse[extractor] + 1
           /\ UNCHANGED <<extractor, response_buf, annotation>>
           /\ Current' = AfterLineByte(extractor, scanned, WindowNext, mem_count, state_sequence)
<1> USE DEF Responses!ScanLine, Responses!Scanning, Responses!buf_size, Responses!Bounded
<1>1. PICK e \in LineExtractors, at \in {0, 1, 2} :
         /\ e = extractor /\ at = CodeAt(e)
         /\ scan = "scan" /\ scanned < Len(response_buf)
         /\ Len(state_sequence) <= MaxResponse[extractor] + 1
         /\ UNCHANGED <<extractor, response_buf, annotation>>
         /\ window' = Responses!NextByte /\ scanned' = scanned + 1
         /\ IF Responses!LineEnds(Responses!NextByte)
            THEN IF StatusAt(e, Responses!NextByte, mem_count)
                 THEN Responses!LineCode(
                         Responses!Atoi(Responses!Window(Responses!NextByte, at, 3)))
                 ELSE mem_count' = 0 /\ UNCHANGED <<scan, state_sequence>>
            ELSE mem_count' = mem_count + 1 /\ UNCHANGED <<scan, state_sequence>>
  <2>1. CASE Responses!extract_response_codes_smtp
    <3>1. "smtp" \in LineExtractors /\ CodeAt("smtp") = 0
          /\ StatusAt("smtp", Responses!NextByte, mem_count)
      BY DEF LineExtractors, CodeAt, StatusAt
    <3>2. QED BY <2>1, <3>1, Zenon DEF Responses!extract_response_codes_smtp, Responses!AnyLine
  <2>2. CASE Responses!extract_response_codes_ftp
    <3>1. "ftp" \in LineExtractors /\ CodeAt("ftp") = 0
          /\ StatusAt("ftp", Responses!NextByte, mem_count)
      BY DEF LineExtractors, CodeAt, StatusAt
    <3>2. QED BY <2>2, <3>1, Zenon DEF Responses!extract_response_codes_ftp, Responses!AnyLine
  <2>3. CASE Responses!extract_response_codes_rtsp
    <3>1. "rtsp" \in LineExtractors /\ CodeAt("rtsp") = 2
          /\ StatusAt("rtsp", Responses!NextByte, mem_count)
                = Responses!StatusLine(Responses!NextByte)
      BY DEF LineExtractors, CodeAt, StatusAt, Responses!StatusLine
    <3>2. QED BY <2>3, <3>1, Zenon DEF Responses!extract_response_codes_rtsp
  <2>4. CASE Responses!extract_response_codes_sip
    <3>1. "sip" \in LineExtractors /\ CodeAt("sip") = 1
          /\ StatusAt("sip", Responses!NextByte, mem_count)
                = Responses!StatusLine(Responses!NextByte)
      BY DEF LineExtractors, CodeAt, StatusAt, Responses!StatusLine
    <3>2. QED BY <2>4, <3>1, Zenon DEF Responses!extract_response_codes_sip
  <2>5. CASE Responses!extract_response_codes_http
    <3>1. "http" \in LineExtractors /\ CodeAt("http") = 2
          /\ StatusAt("http", Responses!NextByte, mem_count)
                = Responses!StatusLine(Responses!NextByte)
      BY DEF LineExtractors, CodeAt, StatusAt, Responses!StatusLine
    <3>2. QED BY <2>5, <3>1, Zenon DEF Responses!extract_response_codes_http
  <2>6. QED BY <2>1, <2>2, <2>3, <2>4, <2>5
<1>2. WindowNext = Responses!NextByte BY <1>1, Written
<1>3. CodeOf(e, WindowNext) = Responses!Atoi(Responses!Window(Responses!NextByte, at, 3))
  BY <1>1, <1>2, Zenon DEF CodeOf
<1>4. LineEndsAt(WindowNext, mem_count) = Responses!LineEnds(Responses!NextByte)
  BY <1>2, Zenon DEF LineEndsAt, Responses!LineEnds
<1>5. Current' = AfterLineByte(e, scanned, WindowNext, mem_count, state_sequence)
  <2>1. CASE ~Responses!LineEnds(Responses!NextByte)
    <3>1. /\ scan' = "scan" /\ scanned' = scanned + 1 /\ window' = WindowNext
          /\ mem_count' = mem_count + 1 /\ state_sequence' = state_sequence
      BY <1>1, <1>2, <2>1, Zenon
    <3>2. QED BY <1>4, <2>1, <3>1, Zenon DEF Current, AfterLineByte
  <2>2. CASE /\ Responses!LineEnds(Responses!NextByte)
             /\ ~StatusAt(e, Responses!NextByte, mem_count)
    <3>1. /\ scan' = "scan" /\ scanned' = scanned + 1 /\ window' = WindowNext
          /\ mem_count' = 0 /\ state_sequence' = state_sequence
      BY <1>1, <1>2, <2>2, Zenon
    <3>2. QED BY <1>2, <1>4, <2>2, <3>1, Zenon DEF Current, AfterLineByte
  <2>3. CASE /\ Responses!LineEnds(Responses!NextByte)
             /\ StatusAt(e, Responses!NextByte, mem_count)
    <3>1. /\ scanned' = scanned + 1 /\ window' = WindowNext
          /\ Responses!LineCode(CodeOf(e, WindowNext))
      BY <1>1, <1>2, <1>3, <2>3, Zenon
    <3>2. CASE CodeOf(e, WindowNext) = 0
      <4>1. scan' = "done" /\ mem_count' = mem_count /\ state_sequence' = state_sequence
        BY <3>1, <3>2, Zenon DEF Responses!LineCode
      <4>2. QED BY <1>2, <1>4, <2>3, <3>1, <3>2, <4>1, Zenon DEF Current, AfterLineByte
    <3>3. CASE CodeOf(e, WindowNext) # 0
      <4>1. /\ scan' = "scan" /\ mem_count' = 0
            /\ state_sequence' = Append(state_sequence, CodeOf(e, WindowNext))
        BY <1>1, <3>1, <3>3, Zenon DEF Responses!LineCode, Responses!Emit
      <4>2. QED BY <1>2, <1>4, <2>3, <3>1, <3>3, <4>1, Zenon DEF Current, AfterLineByte
    <3>4. QED BY <3>2, <3>3, Zenon
  <2>4. QED BY <2>1, <2>2, <2>3, Zenon
<1>6. QED BY <1>1, <1>5, Zenon

LEMMA TlsScan ==
    ASSUME RespTypes, Responses!extract_response_codes_tls
    PROVE  /\ scan = "scan" /\ scanned < Len(response_buf) /\ extractor = "tls"
           /\ Len(state_sequence) <= MaxResponse[extractor] + 1
           /\ UNCHANGED <<extractor, response_buf, annotation>>
           /\ Current' = AfterTlsByte(Len(response_buf), scanned, WindowNext, mem_count,
                                      state_sequence)
<1> USE DEF Responses!extract_response_codes_tls, Responses!Scanning, Responses!buf_size,
            Responses!Bounded
<1>1. /\ scan = "scan" /\ scanned < Len(response_buf) /\ extractor = "tls"
      /\ Len(state_sequence) <= MaxResponse[extractor] + 1
      /\ UNCHANGED <<extractor, response_buf, annotation, scan>>
      /\ window' = Responses!NextByte
  BY Zenon
<1>2. /\ WindowNext = Responses!NextByte
      /\ WindowNext \in [0 .. Responses!MemSize -> Numbers]
  BY <1>1, Written
<1> DEFINE skipped == (WindowNext[1] - 1) % Width
           size == Len(response_buf)
<1>3. CASE ~(mem_count >= Responses!TlsHeader)
  <2>1. /\ scanned' = scanned + 1 /\ mem_count' = mem_count + 1
        /\ state_sequence' = state_sequence
    BY <1>3, Zenon
  <2>2. QED BY <1>1, <1>2, <1>3, <2>1, Zenon DEF Current, AfterTlsByte
<1>4. CASE mem_count >= Responses!TlsHeader
  <2>1. /\ scanned' = Responses!NextRecord(Responses!Min({size, scanned + 1 + skipped}))
        /\ mem_count' = 0
        /\ state_sequence' = Append(state_sequence, Responses!TlsCode(WindowNext))
    BY <1>2, <1>4, Zenon DEF Responses!Emit
  <2>2. skipped \in Nat /\ scanned \in Nat /\ size \in Nat
    <3>1. WindowNext[1] \in Numbers
      <4>1. PICK most \in 0 .. Width : Responses!MemSize = most + 8 BY Places, Zenon
      <4>2. 1 \in 0 .. Responses!MemSize BY <4>1
      <4>3. QED BY <1>2, <4>2, Zenon
    <3>2. Numbers = 0 .. Width - 1 /\ scanned \in 0 .. 3 * Width /\ size \in 0 .. Width BY Places, Zenon
    <3>3. \A k \in 0 .. Width - 1 : (k - 1) % Width \in Nat BY WidthAssumption
    <3>4. skipped \in Nat BY <3>1, <3>2, <3>3, Zenon
    <3> HIDE DEF skipped, size
    <3>5. QED BY <3>2, <3>4
  <2>3. Responses!Min({size, scanned + 1 + skipped}) = Ends(size, scanned, skipped)
    <3> HIDE DEF skipped, size
    <3>1. PICK low \in {size, scanned + 1 + skipped} :
             \A k \in {size, scanned + 1 + skipped} : low =< k
      BY <2>2
    <3>2. Responses!Min({size, scanned + 1 + skipped}) \in {size, scanned + 1 + skipped}
          /\ \A k \in {size, scanned + 1 + skipped} :
                Responses!Min({size, scanned + 1 + skipped}) =< k
      BY <3>1, Zenon DEF Responses!Min
    <3>3. PICK least : least = Responses!Min({size, scanned + 1 + skipped}) OBVIOUS
    <3>4. least \in {size, scanned + 1 + skipped} /\ least =< size
          /\ least =< scanned + 1 + skipped
      BY <3>2, <3>3, Zenon
    <3>5. least = Ends(size, scanned, skipped) BY <2>2, <3>4 DEF Ends
    <3>6. QED BY <3>3, <3>5
  <2>4. scanned' = Begins(size, scanned, skipped)
    BY <2>1, <2>3, Zenon DEF Responses!NextRecord, Begins
  <2>5. QED BY <1>1, <1>2, <1>4, <2>1, <2>4, Zenon DEF Current, AfterTlsByte
<1>5. QED BY <1>1, <1>3, <1>4, Zenon

LEMMA DnsScan ==
    ASSUME RespTypes, Responses!extract_response_codes_dns
    PROVE  /\ scan = "scan" /\ scanned < Len(response_buf) /\ extractor = "dns"
           /\ Len(state_sequence) <= MaxResponse[extractor] + 1
           /\ UNCHANGED <<extractor, response_buf, annotation>>
           /\ Current' = AfterDnsByte(scanned, WindowNext, mem_count, state_sequence)
<1> USE DEF Responses!extract_response_codes_dns, Responses!Scanning, Responses!buf_size,
            Responses!Bounded
<1>1. /\ scan = "scan" /\ scanned < Len(response_buf) /\ extractor = "dns"
      /\ Len(state_sequence) <= MaxResponse[extractor] + 1
      /\ UNCHANGED <<extractor, response_buf, annotation, scan>>
      /\ window' = Responses!NextByte
  BY Zenon
<1>2. WindowNext = Responses!NextByte BY <1>1, Written
<1>3. CASE mem_count >= Responses!DnsHeader /\ WindowNext[mem_count] = 0
  <2>1. /\ scanned' = scanned + 6 /\ mem_count' = 0
        /\ state_sequence' = Append(state_sequence, 20 * WindowNext[1] + WindowNext[2])
    BY <1>2, <1>3, Zenon DEF Responses!Emit
  <2>2. QED BY <1>1, <1>2, <1>3, <2>1, Zenon DEF Current, AfterDnsByte
<1>4. CASE ~(mem_count >= Responses!DnsHeader /\ WindowNext[mem_count] = 0)
  <2>1. /\ scanned' = scanned + 1 /\ mem_count' = mem_count + 1
        /\ state_sequence' = state_sequence
    BY <1>2, <1>4, Zenon
  <2>2. QED BY <1>1, <1>2, <1>4, <2>1, Zenon DEF Current, AfterDnsByte
<1>5. QED BY <1>1, <1>3, <1>4, Zenon

-----------------------------------------------------------------------------
(* Each of them keeps what a scan keeps.                                   *)
LEMMA CursorMoves ==
    \A size \in 0 .. Width, p \in 0 .. 3 * Width, q \in Nat : \A at, count :
        /\ q <= p /\ q <= size /\ p < size
        /\ \/ at = p + 1 /\ count \in {0, q, q + 1}
           \/ at \in 0 .. 3 * Width /\ count = 0
        => at \in 0 .. 3 * Width /\ count \in Nat /\ count <= at /\ count <= size
<1>1. QED OBVIOUS

LEMMA Advances ==
    ASSUME RespTypes, scan = "scan", scanned < Len(response_buf),
           UNCHANGED <<extractor, response_buf, annotation>>,
           extractor \notin {"ssh", "dtls12", "dicom"},
           scan' \in {"scan", "done"}, window' = WindowNext, Emits,
           \/ scanned' = scanned + 1 /\ mem_count' \in {0, mem_count, mem_count + 1}
           \/ scanned' \in 0 .. 3 * Width /\ mem_count' = 0
    PROVE  ScanKeeps
<1>1. window' \in [0 .. Responses!MemSize -> Numbers] BY Written
<1>2. PICK size \in 0 .. Width : size = Len(response_buf) BY Places
<1>3. scanned \in 0 .. 3 * Width /\ mem_count \in Nat /\ mem_count <= scanned /\ mem_count <= size
      /\ scanned < size
  BY <1>2, Places, Zenon DEF RespTypes
<1>4. scanned' \in 0 .. 3 * Width /\ mem_count' \in Nat /\ mem_count' <= scanned'
      /\ mem_count' <= size
  BY <1>3, CursorMoves, Zenon
<1>5. scanned' \in 0 .. 3 * Width BY <1>4, WidthAssumption
<1>6. QED BY <1>1, <1>2, <1>4, <1>5, Zenon DEF ScanKeeps

LEMMA LineKeeps ==
    ASSUME RespTypes, scan = "scan", scanned < Len(response_buf), extractor \in LineExtractors,
           UNCHANGED <<extractor, response_buf, annotation>>,
           Current' = AfterLineByte(extractor, scanned, WindowNext, mem_count, state_sequence)
    PROVE  ScanKeeps
<1>1. CodeOf(extractor, WindowNext) \in Nat
  <2>1. CodeAt(extractor) \in 0 .. 4 BY DEF CodeAt
  <2>2. WindowNext \in [0 .. Responses!MemSize -> Numbers] BY Written
  <2>3. 3 \in 0 .. 4 OBVIOUS
  <2>4. QED BY <2>1, <2>2, <2>3, CodesAreNatural DEF CodeOf
<1>2. PICK kind \in {"scan", "done"}, count \in {0, mem_count, mem_count + 1},
          codes \in {state_sequence, Append(state_sequence, CodeOf(extractor, WindowNext))} :
         Current' = <<kind, scanned + 1, WindowNext, count, codes>>
  BY Zenon DEF AfterLineByte
<1>3. /\ scan' = kind /\ scanned' = scanned + 1 /\ window' = WindowNext
      /\ mem_count' = count /\ state_sequence' = codes
  BY <1>2 DEF Current
<1>4. Emits BY <1>1, <1>2, <1>3, Zenon DEF Emits
<1>5. extractor \notin {"ssh", "dtls12", "dicom"} BY DEF LineExtractors
<1>6. QED BY <1>2, <1>3, <1>4, <1>5, Advances

LEMMA TlsKeeps ==
    ASSUME RespTypes, scan = "scan", scanned < Len(response_buf), extractor = "tls",
           UNCHANGED <<extractor, response_buf, annotation>>,
           Current' = AfterTlsByte(Len(response_buf), scanned, WindowNext, mem_count,
                                   state_sequence)
    PROVE  ScanKeeps
<1> DEFINE skipped == (WindowNext[1] - 1) % Width
           size == Len(response_buf)
           next == Begins(size, scanned, skipped)
<1>1. WindowNext[0] \in 0 .. Width - 1 /\ WindowNext[1] \in 0 .. Width - 1 /\ WindowNext[2] \in 0 .. Width - 1
  <2>1. WindowNext \in [0 .. Responses!MemSize -> Numbers] BY Written
  <2>2. PICK most \in 0 .. Width : Responses!MemSize = most + 8 BY Places, Zenon
  <2>3. 0 \in 0 .. Responses!MemSize /\ 1 \in 0 .. Responses!MemSize
        /\ 2 \in 0 .. Responses!MemSize
    BY <2>2
  <2>4. Numbers = 0 .. Width - 1 BY Places, Zenon
  <2>5. QED BY <2>1, <2>3, <2>4, Zenon
<1>2. Responses!TlsCode(WindowNext) \in Nat
  <2>1. PICK p \in 0 .. Width - 1, q \in 0 .. Width - 1 : p = WindowNext[0] /\ q = WindowNext[2]
    BY <1>1, Zenon
  <2>2. Responses!TlsCode(WindowNext) = 20 * p + (IF p = Responses!ApplicationData THEN 9 ELSE q)
    BY <2>1, Zenon DEF Responses!TlsCode
  <2>3. \A k \in 0 .. Width - 1 : 20 * p + k \in Nat OBVIOUS
  <2>4. (IF p = Responses!ApplicationData THEN 9 ELSE q) \in 0 .. Width - 1 OBVIOUS
  <2>5. QED BY <2>2, <2>3, <2>4, Zenon
<1>3. next \in 0 .. 3 * Width
  <2>1. skipped \in 0 .. Width - 1
    <3>1. \A k \in 0 .. Width - 1 : (k - 1) % Width \in 0 .. Width - 1 BY WidthAssumption
    <3>2. QED BY <1>1, <3>1, Zenon
  <2>2. size \in 0 .. Width /\ scanned \in 0 .. 3 * Width BY Places, Zenon
  <2>3. scanned < size OBVIOUS
  <2> HIDE DEF skipped, size
  <2>4. Ends(size, scanned, skipped) \in 1 .. 3 * Width BY <2>1, <2>2, <2>3 DEF Ends
  <2>5. QED BY <2>4 DEF Begins
<1>4. CASE mem_count >= Responses!TlsHeader
  <2>1. Current' = <<"scan", next, WindowNext, 0,
                     Append(state_sequence, Responses!TlsCode(WindowNext))>>
    BY <1>4, Zenon DEF AfterTlsByte
  <2> HIDE DEF next
  <2>2. /\ scan' = "scan" /\ scanned' = next /\ window' = WindowNext /\ mem_count' = 0
        /\ state_sequence' = Append(state_sequence, Responses!TlsCode(WindowNext))
    BY <2>1 DEF Current
  <2>3. Emits BY <1>2, <2>2, Zenon DEF Emits
  <2>4. QED BY <1>3, <2>2, <2>3, Advances
<1>5. CASE ~(mem_count >= Responses!TlsHeader)
  <2>1. Current' = <<"scan", scanned + 1, WindowNext, mem_count + 1, state_sequence>>
    BY <1>5, Zenon DEF AfterTlsByte
  <2>2. /\ scan' = "scan" /\ scanned' = scanned + 1 /\ window' = WindowNext
        /\ mem_count' = mem_count + 1 /\ state_sequence' = state_sequence
    BY <2>1 DEF Current
  <2>3. Emits BY <2>2, Zenon DEF Emits
  <2>4. QED BY <2>2, <2>3, Advances
<1>6. QED BY <1>4, <1>5

LEMMA DnsKeeps ==
    ASSUME RespTypes, scan = "scan", scanned < Len(response_buf), extractor = "dns",
           UNCHANGED <<extractor, response_buf, annotation>>,
           Current' = AfterDnsByte(scanned, WindowNext, mem_count, state_sequence)
    PROVE  ScanKeeps
<1> DEFINE code == 20 * WindowNext[1] + WindowNext[2]
<1>1. code \in Nat
  <2>1. WindowNext \in [0 .. Responses!MemSize -> Numbers] BY Written
  <2>2. PICK most \in 0 .. Width : Responses!MemSize = most + 8 BY Places, Zenon
  <2>3. 1 \in 0 .. Responses!MemSize /\ 2 \in 0 .. Responses!MemSize BY <2>2
  <2>4. Numbers = 0 .. Width - 1 BY Places, Zenon
  <2>5. WindowNext[1] \in 0 .. Width - 1 /\ WindowNext[2] \in 0 .. Width - 1 BY <2>1, <2>3, <2>4, Zenon
  <2>6. \A p, q \in 0 .. Width - 1 : 20 * p + q \in Nat OBVIOUS
  <2>7. QED BY <2>5, <2>6, Zenon
<1>2. scanned + 6 \in 0 .. 3 * Width
  <2>1. PICK size \in 0 .. Width : size = Len(response_buf) BY Places
  <2>2. scanned \in 0 .. 3 * Width /\ scanned < size BY <2>1, Places, Zenon
  <2>3. QED BY <2>2
<1> HIDE DEF code
<1>3. CASE mem_count >= Responses!DnsHeader /\ WindowNext[mem_count] = 0
  <2>1. Current' = <<"scan", scanned + 6, WindowNext, 0, Append(state_sequence, code)>>
    BY <1>3, Zenon DEF AfterDnsByte, code
  <2>2. /\ scan' = "scan" /\ scanned' = scanned + 6 /\ window' = WindowNext /\ mem_count' = 0
        /\ state_sequence' = Append(state_sequence, code)
    BY <2>1 DEF Current
  <2>3. Emits BY <1>1, <2>2, Zenon DEF Emits
  <2>4. QED BY <1>2, <2>2, <2>3, Advances
<1>4. CASE ~(mem_count >= Responses!DnsHeader /\ WindowNext[mem_count] = 0)
  <2>1. Current' = <<"scan", scanned + 1, WindowNext, mem_count + 1, state_sequence>>
    BY <1>4, Zenon DEF AfterDnsByte
  <2>2. /\ scan' = "scan" /\ scanned' = scanned + 1 /\ window' = WindowNext
        /\ mem_count' = mem_count + 1 /\ state_sequence' = state_sequence
    BY <2>1 DEF Current
  <2>3. Emits BY <2>2, Zenon DEF Emits
  <2>4. QED BY <2>2, <2>3, Advances
<1>5. QED BY <1>3, <1>4

-----------------------------------------------------------------------------
(* The unsteady extractors keep the same.                                  *)
LEMMA LineCodeKeeps ==
    ASSUME NEW code \in Nat, scan = "scan", Responses!LineCode(code)
    PROVE  scan' \in {"scan", "done"} /\ mem_count' \in {0, mem_count} /\ Emits
<1>1. CASE code = 0
  <2>1. scan' = "done" /\ mem_count' = mem_count /\ state_sequence' = state_sequence
    BY <1>1, Zenon DEF Responses!LineCode
  <2>2. QED BY <2>1, Zenon DEF Emits
<1>2. CASE code # 0
  <2>1. scan' = scan /\ mem_count' = 0 /\ state_sequence' = Append(state_sequence, code)
    BY <1>2, Zenon DEF Responses!LineCode, Responses!Emit
  <2>2. QED BY <2>1, Zenon DEF Emits
<1>3. QED BY <1>1, <1>2

LEMMA BytesAreNumbers ==
    ASSUME RespTypes, NEW i \in Nat
    PROVE  Responses!BytesAt(i) \subseteq 0 .. Width - 1
<1>1. PICK size \in 0 .. Width : size = Len(response_buf) BY Places
<1>2. \A k \in 1 .. size : response_buf[k] \in 0 .. Width - 1 BY <1>1, Places, Zenon
<1>3. Responses!BytesAt(i) \subseteq
         IF i < size THEN {response_buf[i + 1]} ELSE 0 .. Width - 1
  <2>1. i \in Int OBVIOUS
  <2>2. QED BY <1>1, <2>1, Places, Zenon
<1>4. CASE i < size
  <2>1. i + 1 \in 1 .. size BY <1>4
  <2>2. QED BY <1>2, <1>3, <1>4, <2>1, Zenon
<1>5. CASE ~(i < size) BY <1>3, <1>5, Zenon
<1>6. QED BY <1>4, <1>5

LEMMA MarkedKeeps ==
    ASSUME RespTypes,
           \/ Responses!extract_response_codes_tftp \/ Responses!extract_response_codes_dhcp
           \/ Responses!extract_response_codes_SNTP \/ Responses!extract_response_codes_NTP
           \/ Responses!extract_response_codes_SNMP
    PROVE  ScanKeeps
<1> DEFINE m == Responses!NextByte
<1>1. PICK behind \in {Responses!FirstBytes(m), Responses!Pointer(m)},
           final \in {Responses!FirstBytes(m), Responses!Pointer(m)} :
         /\ extractor \in {"tftp", "dhcp", "SNTP", "NTP", "SNMP"}
         /\ scan = "scan" /\ scanned < Len(response_buf)
         /\ UNCHANGED <<extractor, response_buf, annotation>>
         /\ window' = m /\ scanned' = scanned + 1
         /\ \/ Responses!LineCode(behind)
            \/ /\ scan' = "done" /\ UNCHANGED mem_count
               /\ UNCHANGED state_sequence \/ Responses!Emit(final)
            \/ mem_count' = mem_count + 1 /\ UNCHANGED <<scan, state_sequence>>
  <2> USE DEF Responses!ScanMarked, Responses!Scanning, Responses!buf_size
  <2>1. CASE Responses!extract_response_codes_tftp
    BY <2>1, Zenon DEF Responses!extract_response_codes_tftp
  <2>2. CASE Responses!extract_response_codes_dhcp
    BY <2>2, Zenon DEF Responses!extract_response_codes_dhcp
  <2>3. CASE Responses!extract_response_codes_SNTP
    BY <2>3, Zenon DEF Responses!extract_response_codes_SNTP
  <2>4. CASE Responses!extract_response_codes_NTP
    BY <2>4, Zenon DEF Responses!extract_response_codes_NTP
  <2>5. CASE Responses!extract_response_codes_SNMP
    BY <2>5, Zenon DEF Responses!extract_response_codes_SNMP
  <2>6. QED BY <2>1, <2>2, <2>3, <2>4, <2>5
<1>2. WindowNext = m /\ WindowNext \in [0 .. Responses!MemSize -> Numbers] BY <1>1, Written
<1>3. Responses!FirstBytes(m) \in Nat /\ Responses!Pointer(m) \in Nat
  <2>1. 0 \in 0 .. 4 /\ 4 \in 0 .. 4 OBVIOUS
  <2>2. Responses!FirstBytes(m) \in Nat
    BY <1>2, <2>1, CodesAreNatural, Zenon DEF Responses!FirstBytes
  <2>3. Responses!Pointer(m) \in Nat BY DEF Responses!Pointer, Responses!Address
  <2>4. QED BY <2>2, <2>3
<1> HIDE DEF m
<1>4. behind \in Nat /\ final \in Nat BY <1>1, <1>3
<1>5. scan' \in {"scan", "done"} /\ mem_count' \in {0, mem_count, mem_count + 1} /\ Emits
  <2>1. CASE Responses!LineCode(behind) BY <1>1, <1>4, <2>1, LineCodeKeeps
  <2>2. CASE /\ scan' = "done" /\ UNCHANGED mem_count
             /\ UNCHANGED state_sequence \/ Responses!Emit(final)
    BY <1>4, <2>2, Zenon DEF Emits, Responses!Emit
  <2>3. CASE mem_count' = mem_count + 1 /\ UNCHANGED <<scan, state_sequence>>
    BY <1>1, <2>3, Zenon DEF Emits
  <2>4. QED BY <1>1, <2>1, <2>2, <2>3
<1>6. extractor \notin {"ssh", "dtls12", "dicom"} BY <1>1
<1>7. QED BY <1>1, <1>2, <1>5, <1>6, Advances

LEMMA IppKeeps ==
    ASSUME RespTypes, Responses!extract_response_codes_ipp
    PROVE  ScanKeeps
<1> DEFINE m == Responses!NextByte
           code == Responses!Atoi(Responses!Window(m, 1, 1))
<1> USE DEF Responses!extract_response_codes_ipp, Responses!Scanning, Responses!buf_size
<1>1. /\ extractor = "ipp" /\ scan = "scan" /\ scanned < Len(response_buf)
      /\ UNCHANGED <<extractor, response_buf, annotation>>
      /\ window' = m /\ scanned' = scanned + 1
  BY Zenon
<1>2. WindowNext = m /\ WindowNext \in [0 .. Responses!MemSize -> Numbers] BY <1>1, Written
<1>3. code \in Nat
  <2>1. 1 \in 0 .. 4 OBVIOUS
  <2>2. QED BY <1>2, <2>1, CodesAreNatural, Zenon
<1>4. /\ Responses!BytesAt(scanned + 3) \subseteq 0 .. Width - 1
      /\ Responses!BytesAt(scanned + 4) \subseteq 0 .. Width - 1
  <2>1. scanned \in 0 .. 3 * Width BY Places
  <2>2. scanned + 3 \in Nat /\ scanned + 4 \in Nat BY <2>1
  <2>3. QED BY <2>2, BytesAreNumbers
<1> HIDE DEF code, m
<1>5. \/ \E k \in Nat : Responses!LineCode(k)
      \/ mem_count' \in {0, mem_count + 1} /\ UNCHANGED <<scan, state_sequence>>
  <2>1. CASE ~Responses!HeaderEnds(m) BY <2>1, Zenon DEF code, m
  <2>2. CASE Responses!HeaderEnds(m) /\ ~Responses!StatusLine(m)
    BY <2>2, Zenon DEF code, m
  <2>3. CASE Responses!HeaderEnds(m) /\ Responses!StatusLine(m) /\ code # Responses!HttpOK
    <3>1. Responses!LineCode(code) BY <2>3, Zenon DEF code, m
    <3>2. QED BY <1>3, <3>1, Zenon
  <2>4. CASE Responses!HeaderEnds(m) /\ Responses!StatusLine(m) /\ code = Responses!HttpOK
    <3>1. PICK third \in Responses!BytesAt(scanned + 3),
               fourth \in Responses!BytesAt(scanned + 4) :
             Responses!LineCode(code + 10 * third + fourth)
      BY <2>4, Zenon DEF code, m
    <3>2. third \in 0 .. Width - 1 /\ fourth \in 0 .. Width - 1 BY <1>4, Zenon
    <3>3. \A k \in Nat, t, f \in 0 .. Width - 1 : k + 10 * t + f \in Nat OBVIOUS
    <3>4. code + 10 * third + fourth \in Nat BY <1>3, <3>2, <3>3, Zenon
    <3>5. QED BY <3>1, <3>4, Zenon
  <2>5. QED BY <2>1, <2>2, <2>3, <2>4, Zenon
<1>6. scan' \in {"scan", "done"} /\ mem_count' \in {0, mem_count, mem_count + 1} /\ Emits
  <2>1. CASE \E k \in Nat : Responses!LineCode(k)
    <3>1. PICK k \in Nat : Responses!LineCode(k) BY <2>1
    <3>2. scan' \in {"scan", "done"} /\ mem_count' \in {0, mem_count} /\ Emits
      BY <1>1, <3>1, LineCodeKeeps
    <3>3. QED BY <3>2
  <2>2. CASE mem_count' \in {0, mem_count + 1} /\ UNCHANGED <<scan, state_sequence>>
    BY <1>1, <2>2 DEF Emits
  <2>3. QED BY <1>5, <2>1, <2>2, Zenon
<1>7. extractor \notin {"ssh", "dtls12", "dicom"} BY <1>1
<1>8. QED BY <1>1, <1>2, <1>6, <1>7, Advances

(* Those that keep no window do not count its bytes.                       *)
LEMMA Jumps ==
    ASSUME RespTypes, scan = "scan", extractor \in {"dtls12", "ssh"},
           UNCHANGED <<extractor, response_buf, annotation, window, mem_count>>,
           scan' \in {"scan", "done"}, scanned' \in 0 .. 3 * Width, Emits
    PROVE  ScanKeeps
<1>1. mem_count = 0 /\ window \in [0 .. Responses!MemSize -> Numbers] BY Zenon DEF RespTypes
<1>2. \A k \in 0 .. 3 * Width : k \in 0 .. 3 * Width /\ 0 <= k BY WidthAssumption
<1>3. scanned' \in 0 .. 3 * Width /\ 0 <= scanned' BY <1>2, Zenon
<1>4. 0 \in Nat /\ 0 <= Len(response_buf)
  <2>1. Len(response_buf) \in 0 .. Width BY Places, Zenon
  <2>2. QED BY <2>1
<1>5. mem_count' = 0 BY <1>1
<1>6. QED BY <1>1, <1>3, <1>4, <1>5, Zenon DEF ScanKeeps

LEMMA MessageTypesAreNatural ==
    ASSUME RespTypes, NEW type \in 20 .. 24, NEW length \in 0 .. Width - 1, NEW from \in Nat,
           from + 3 + length - 1 \in Nat
    PROVE  Responses!MessageTypes(type, length, from) \subseteq 0 .. Width - 1
<1> USE DEF Responses!CCS, Responses!ALERT, Responses!HS, Responses!APPLICATION,
            Responses!HEARTBEAT
<1>1. Responses!Malformed \in 0 .. Width - 1 /\ Responses!Unknown \in 0 .. Width - 1
  BY DEF Responses!Malformed, Responses!Unknown
<1>2. PICK least \in 0 .. 3 : Responses!Least(type) = least
  <2>1. type = 20 \/ type = 21 \/ type = 22 \/ type = 23 \/ type = 24 OBVIOUS
  <2>2. QED BY <2>1 DEF Responses!Least
<1>3. CASE length < least
  <2>1. ~(length >= least) /\ ~(length > least) /\ length # least BY <1>3
  <2>2. Responses!MessageTypes(type, length, from) = {Responses!Malformed}
    BY <1>2, <1>3, <2>1, Zenon DEF Responses!MessageTypes
  <2>3. QED BY <1>1, <2>2, Zenon
<1>4. CASE ~(length < least) /\ type \in {23, 24}
  <2>1. length >= least /\ type # 22 /\ type \notin {20, 21} BY <1>4
  <2>2. Responses!MessageTypes(type, length, from) = {Responses!Unknown}
    BY <1>2, <1>4, <2>1, Zenon DEF Responses!MessageTypes
  <2>3. QED BY <1>1, <2>2, Zenon
<1>5. CASE ~(length < least) /\ type = 22
  <2>1. length >= least /\ type \notin {23, 24} BY <1>5
  <2>2. Responses!MessageTypes(type, length, from)
           = UNION {IF fragment = length - Responses!Least(22)
                    THEN Responses!BytesAt(from + Responses!DtlsHeader)
                    ELSE {Responses!Unknown} :
                      fragment \in Responses!BytesAt(from + Responses!DtlsHeader + 1)}
    BY <1>2, <1>5, <2>1, Zenon DEF Responses!MessageTypes
  <2>3. Responses!BytesAt(from + Responses!DtlsHeader) \subseteq 0 .. Width - 1
    <3>1. from + Responses!DtlsHeader \in Nat BY DEF Responses!DtlsHeader
    <3>2. QED BY <3>1, BytesAreNumbers
  <2>4. QED BY <1>1, <2>2, <2>3, Zenon
<1>6. CASE ~(length < least) /\ type \in {20, 21} /\ length # least
  <2>1. length > least /\ type # 22 /\ type \notin {23, 24} BY <1>6
  <2>2. QED BY <1>1, <1>2, <1>6, <2>1, Zenon DEF Responses!MessageTypes
<1>7. CASE ~(length < least) /\ type \in {20, 21} /\ length = least
  <2>1. ~(length > least) /\ type # 22 /\ type \notin {23, 24} BY <1>7
  <2>2. Responses!MessageTypes(type, length, from)
           = Responses!BytesAt(from + Responses!DtlsHeader + length - 1)
    BY <1>2, <1>7, <2>1, Zenon DEF Responses!MessageTypes
  <2>3. from + Responses!DtlsHeader + length - 1 \in Nat BY DEF Responses!DtlsHeader
  <2>4. QED BY <2>2, <2>3, BytesAreNumbers
<1>8. QED BY <1>3, <1>4, <1>5, <1>6, <1>7

LEMMA DtlsKeeps ==
    ASSUME RespTypes, Responses!extract_response_codes_dtls12
    PROVE  ScanKeeps
<1> USE DEF Responses!extract_response_codes_dtls12, Responses!Scanning, Responses!buf_size
<1>1. /\ extractor = "dtls12" /\ scan = "scan" /\ scanned < Len(response_buf)
      /\ UNCHANGED <<extractor, response_buf, annotation, scan, window, mem_count>>
  BY Zenon
<1>2. PICK size \in 0 .. Width : size = Len(response_buf) BY Places
<1>3. scanned \in 0 .. Width - 1
  <2>1. scanned \in 0 .. 3 * Width /\ scanned < size BY <1>1, <1>2, Places, Zenon
  <2>2. QED BY <2>1
<1>4. scanned' \in 0 .. 3 * Width /\ Emits
  <2>1. CASE ~Responses!IsRecord(scanned)
    <3>1. scanned' = scanned + 1 /\ state_sequence' = state_sequence BY <2>1, Zenon
    <3>2. \A k \in 0 .. Width - 1 : k + 1 \in 0 .. 3 * Width OBVIOUS
    <3>3. QED BY <1>3, <3>1, <3>2, Zenon DEF Emits
  <2>2. CASE Responses!IsRecord(scanned)
    <3>1. PICK type, length :
            /\ type = response_buf[scanned + 1]
            /\ length = response_buf[scanned + Responses!DtlsHeader]
      OBVIOUS
    <3>2. PICK message \in Responses!MessageTypes(type, length, scanned) :
            /\ Responses!Emit(Width * type + message)
            /\ scanned' = scanned + length
      BY <2>2, <3>1, Zenon
    <3>3. size - scanned > 3
      BY <1>2, <2>2, Zenon DEF Responses!IsRecord, Responses!DtlsHeader
    <3>4. type \in 20 .. 24
      BY <2>2, <3>1, Zenon DEF Responses!IsRecord, Responses!CCS, Responses!HEARTBEAT
    <3>5. length \in 0 .. Width - 1
      <4>1. scanned + 3 \in 1 .. size BY <1>2, <1>3, <3>3
      <4>2. \A k \in 1 .. size : response_buf[k] \in 0 .. Width - 1 BY <1>2, Places, Zenon
      <4>3. QED BY <3>1, <4>1, <4>2, Zenon DEF Responses!DtlsHeader
    <3>6. message \in 0 .. Width - 1
      <4>1. scanned \in Nat /\ scanned + 3 + length - 1 \in Nat BY <1>3, <3>5
      <4>2. QED BY <3>2, <3>4, <3>5, <4>1, MessageTypesAreNatural
    <3>7. Width * type + message \in Nat BY <3>4, <3>6, WidthAssumption
    <3>8. scanned + length \in 0 .. 3 * Width BY <1>3, <3>5
    <3>9. QED BY <3>2, <3>7, <3>8, Zenon DEF Emits, Responses!Emit
  <2>3. QED BY <2>1, <2>2
<1>5. QED BY <1>1, <1>4, Jumps

LEMMA SshKeeps ==
    ASSUME RespTypes, Responses!extract_response_codes_ssh
    PROVE  ScanKeeps
<1> USE DEF Responses!extract_response_codes_ssh, Responses!Scanning, Responses!buf_size
<1>1. /\ extractor = "ssh" /\ scan = "scan" /\ scanned < Len(response_buf)
      /\ UNCHANGED <<extractor, response_buf, annotation, window, mem_count>>
  BY Zenon
<1>2. PICK n \in 0 .. Width : n = Len(response_buf) BY Places
<1>3. scanned \in 0 .. Width - 1
  <2>1. scanned \in 0 .. 3 * Width /\ scanned < n BY <1>1, <1>2, Places, Zenon
  <2>2. QED BY <2>1
<1> DEFINE from == scanned + Responses!SshHeader
           inside(size) == (size - Responses!InHeader) % Width
           jump(size, code) ==
             (from + inside(size)
                + (IF Responses!IsKeyExchange(code) THEN 0 ELSE Responses!MacLength))
               % Width
           line == IF Responses!LineFeeds = {} THEN Responses!Max({from, n}) + 1
                   ELSE Responses!Min(Responses!LineFeeds)
<1>4. PICK size \in Responses!BytesAt(scanned), code \in Responses!BytesAt(scanned + 1) :
         \/ /\ Responses!Emit(Responses!Identification)
            /\ scanned' = line /\ UNCHANGED scan
         \/ scan' = "done" /\ scanned' = from /\ UNCHANGED state_sequence
         \/ Responses!Emit(code) /\ scanned' = jump(size, code) /\ UNCHANGED scan
  BY <1>2, Zenon
<1>5. size \in 0 .. Width - 1 /\ code \in 0 .. Width - 1
  <2>1. scanned \in Nat /\ scanned + 1 \in Nat BY <1>3
  <2>2. QED BY <1>4, <2>1, BytesAreNumbers
<1>6. from \in 2 .. Width + 1 BY <1>3 DEF Responses!SshHeader
<1>7. jump(size, code) \in 0 .. 3 * Width
  <2>1. \A a \in 2 .. Width + 1, s \in 0 .. Width - 1, c \in {0, 1} :
           (a + ((s - 1) % Width) + c) % Width \in 0 .. 3 * Width
    OBVIOUS
  <2>2. (IF Responses!IsKeyExchange(code) THEN 0 ELSE Responses!MacLength) \in {0, 1}
    BY Zenon DEF Responses!MacLength
  <2> HIDE DEF from
  <2>3. QED BY <1>5, <1>6, <2>1, <2>2, Zenon DEF Responses!InHeader
<1>8. line \in 0 .. 3 * Width
  <2>1. CASE Responses!LineFeeds = {}
    <3>1. Responses!Max({from, n}) \in {from, n}
      <4> HIDE DEF from
      <4>1. \E most \in {from, n} : \A k \in {from, n} : most >= k BY <1>6
      <4>2. QED BY <4>1, Zenon DEF Responses!Max
    <3>2. PICK most : most = Responses!Max({from, n}) OBVIOUS
    <3>3. most \in 0 .. Width + 1
      <4> HIDE DEF from
      <4>1. most \in {from, n} BY <3>1, <3>2, Zenon
      <4>2. QED BY <1>6, <4>1
    <3>4. \A k \in 0 .. Width + 1 : k + 1 \in 0 .. 3 * Width OBVIOUS
    <3>5. QED BY <2>1, <3>2, <3>3, <3>4, Zenon
  <2>2. CASE Responses!LineFeeds # {}
    <3>1. Responses!LineFeeds \in SUBSET (1 .. n)
      <4>1. \A k \in scanned + Responses!SshHeader + 1 .. n : k \in 1 .. n
        BY <1>3 DEF Responses!SshHeader
      <4>2. QED BY <1>2, <4>1, Zenon DEF Responses!LineFeeds
    <3>2. PICK feeds \in SUBSET (1 .. n) : feeds = Responses!LineFeeds BY <3>1
    <3>3. (IF feeds # {} THEN Responses!Min(feeds) ELSE 0) \in 0 .. n
      <4>1. n \in Nat OBVIOUS
      <4>2. QED BY <4>1, LeastOf
    <3>4. 0 .. n \subseteq 0 .. 3 * Width OBVIOUS
    <3>5. QED BY <2>2, <3>2, <3>3, <3>4, Zenon
  <2>3. QED BY <2>1, <2>2
<1> HIDE DEF from, inside, jump, line
<1>9. from \in 0 .. 3 * Width BY <1>6
<1>10. scanned' \in 0 .. 3 * Width /\ scan' \in {"scan", "done"} BY <1>1, <1>4, <1>7, <1>8, <1>9, Zenon
<1>11. Responses!Identification \in Nat /\ code \in Nat BY <1>5 DEF Responses!Identification
<1>12. Emits BY <1>4, <1>11, Zenon DEF Emits, Responses!Emit
<1>13. QED BY <1>1, <1>10, <1>12, Jumps

-----------------------------------------------------------------------------
(* All scans at once: what they keep, and what the steady ones compute.    *)
LEMMA FinishKeeps ==
    ASSUME RespTypes, Responses!Finish
    PROVE  /\ ScanKeeps /\ extractor # "dicom" /\ scanned >= Len(response_buf)
           /\ Current' = <<"done", scanned, window, mem_count, state_sequence>>
<1>1. /\ scan = "scan" /\ scanned >= Len(response_buf) /\ extractor # "dicom"
      /\ UNCHANGED <<extractor, response_buf, annotation, scanned, window, mem_count,
                     state_sequence>>
      /\ scan' = "done"
  BY Zenon DEF Responses!Finish, Responses!Return, Responses!buf_size
<1>2. ScanKeeps
  <2>1. /\ scanned \in 0 .. 3 * Width /\ mem_count \in Nat /\ mem_count <= scanned
        /\ mem_count <= Len(response_buf)
        /\ extractor \in {"ssh", "dtls12", "dicom"} => mem_count = 0
        /\ window \in [0 .. Responses!MemSize -> Numbers]
    BY Zenon DEF RespTypes
  <2>2. QED BY <1>1, <2>1, Zenon DEF ScanKeeps, Emits
<1>3. QED BY <1>1, <1>2, Zenon DEF Current

UnsteadyScans ==
    \/ Responses!extract_response_codes_tftp \/ Responses!extract_response_codes_dhcp
    \/ Responses!extract_response_codes_SNTP \/ Responses!extract_response_codes_NTP
    \/ Responses!extract_response_codes_SNMP \/ Responses!extract_response_codes_ipp
    \/ Responses!extract_response_codes_dtls12 \/ Responses!extract_response_codes_ssh

LEMMA UnsteadyScansKeep ==
    ASSUME RespTypes, UnsteadyScans
    PROVE  ScanKeeps /\ ~Steady(extractor) /\ extractor # "dicom"
<1>1. ScanKeeps BY MarkedKeeps, IppKeeps, DtlsKeeps, SshKeeps DEF UnsteadyScans
<1>2. extractor \in {"tftp", "dhcp", "SNTP", "NTP", "SNMP", "ipp", "dtls12", "ssh"}
  BY Zenon DEF UnsteadyScans, Responses!Scanning, Responses!ScanMarked,
    Responses!extract_response_codes_tftp, Responses!extract_response_codes_dhcp,
    Responses!extract_response_codes_SNTP, Responses!extract_response_codes_NTP,
    Responses!extract_response_codes_SNMP, Responses!extract_response_codes_ipp,
    Responses!extract_response_codes_dtls12, Responses!extract_response_codes_ssh
<1>3. QED BY <1>1, <1>2 DEF Steady, Responses!Unsteady

(* The step that a steady extractor takes on a byte of the response.       *)
ByteStep ==
    /\ scanned < Len(response_buf) /\ Len(state_sequence) <= MaxResponse[extractor] + 1
    /\ Current' = AfterByte(extractor, Len(response_buf), scanned, WindowNext, mem_count,
                            state_sequence)

EndStep ==
    /\ scanned >= Len(response_buf)
    /\ Current' = <<"done", scanned, window, mem_count, state_sequence>>

LEMMA ScansKeep ==
    ASSUME RespTypes, Responses!Scan, extractor # "dicom"
    PROVE  ScanKeeps /\ (Steady(extractor) => ByteStep \/ EndStep)
<1>1. \/ Responses!extract_response_codes_smtp \/ Responses!extract_response_codes_ftp
      \/ Responses!extract_response_codes_rtsp \/ Responses!extract_response_codes_sip
      \/ Responses!extract_response_codes_http
      \/ Responses!extract_response_codes_tls \/ Responses!extract_response_codes_dns
      \/ UnsteadyScans \/ Responses!Finish
  BY Zenon DEF Responses!Scan, UnsteadyScans, Responses!extract_response_codes_dicom
<1>2. CASE \/ Responses!extract_response_codes_smtp \/ Responses!extract_response_codes_ftp
           \/ Responses!extract_response_codes_rtsp \/ Responses!extract_response_codes_sip
           \/ Responses!extract_response_codes_http
  <2>1. /\ scan = "scan" /\ scanned < Len(response_buf) /\ extractor \in LineExtractors
        /\ Len(state_sequence) <= MaxResponse[extractor] + 1
        /\ UNCHANGED <<extractor, response_buf, annotation>>
        /\ Current' = AfterLineByte(extractor, scanned, WindowNext, mem_count, state_sequence)
    BY <1>2, LineScan
  <2>2. ScanKeeps BY <2>1, LineKeeps
  <2>3. QED BY <2>1, <2>2, Zenon DEF ByteStep, AfterByte
<1>3. CASE Responses!extract_response_codes_tls
  <2>1. /\ scan = "scan" /\ scanned < Len(response_buf) /\ extractor = "tls"
        /\ Len(state_sequence) <= MaxResponse[extractor] + 1
        /\ UNCHANGED <<extractor, response_buf, annotation>>
        /\ Current' = AfterTlsByte(Len(response_buf), scanned, WindowNext, mem_count,
                                   state_sequence)
    BY <1>3, TlsScan
  <2>2. ScanKeeps BY <2>1, TlsKeeps
  <2>3. extractor \notin LineExtractors BY <2>1 DEF LineExtractors
  <2>4. QED BY <2>1, <2>2, <2>3, Zenon DEF ByteStep, AfterByte
<1>4. CASE Responses!extract_response_codes_dns
  <2>1. /\ scan = "scan" /\ scanned < Len(response_buf) /\ extractor = "dns"
        /\ Len(state_sequence) <= MaxResponse[extractor] + 1
        /\ UNCHANGED <<extractor, response_buf, annotation>>
        /\ Current' = AfterDnsByte(scanned, WindowNext, mem_count, state_sequence)
    BY <1>4, DnsScan
  <2>2. ScanKeeps BY <2>1, DnsKeeps
  <2>3. extractor \notin LineExtractors /\ extractor # "tls" BY <2>1 DEF LineExtractors
  <2>4. QED BY <2>1, <2>2, <2>3, Zenon DEF ByteStep, AfterByte
<1>5. CASE UnsteadyScans BY <1>5, UnsteadyScansKeep
<1>6. CASE Responses!Finish BY <1>6, FinishKeeps DEF EndStep
<1>7. QED BY <1>1, <1>2, <1>3, <1>4, <1>5, <1>6

(* A response that is scanned on has the same states and perhaps more.     *)
LEMMA PrefixStays ==
    ASSUME NEW s \in Seq(Nat), NEW t \in Seq(Nat), NEW code \in Nat
    PROVE  /\ Append(t, code) \in Seq(Nat) /\ Append(t, code) # <<>>
           /\ t # <<>> => Append(t, code)[1] = t[1]
           /\ Responses!IsPrefix(s, t) => Responses!IsPrefix(s, Append(t, code))
<1>1. /\ Append(t, code) \in Seq(Nat) /\ Len(Append(t, code)) = Len(t) + 1
      /\ Len(s) \in Nat /\ Len(t) \in Nat
      /\ \A k \in 1 .. Len(t) : Append(t, code)[k] = t[k]
  <2>1. Append(t, code) \in Seq(Nat) OBVIOUS
  <2>2. Len(Append(t, code)) = Len(t) + 1 OBVIOUS
  <2>3. Len(s) \in Nat /\ Len(t) \in Nat OBVIOUS
  <2>4. \A k \in 1 .. Len(t) : Append(t, code)[k] = t[k] OBVIOUS
  <2>5. QED BY <2>1, <2>2, <2>3, <2>4, Zenon
<1>2. Append(t, code) # <<>>
  <2>1. Len(<<>>) = 0 /\ \A k \in Nat : k + 1 # 0 OBVIOUS
  <2>2. QED BY <1>1, <2>1, Zenon
<1>3. ASSUME t # <<>> PROVE Append(t, code)[1] = t[1]
  <2>1. 1 \in 1 .. Len(t) BY <1>3
  <2>2. QED BY <1>1, <2>1
<1>4. ASSUME Responses!IsPrefix(s, t) PROVE Responses!IsPrefix(s, Append(t, code))
  <2>1. Len(s) <= Len(t) /\ SubSeq(s, 1, Len(s)) = SubSeq(t, 1, Len(s))
    BY <1>4, Zenon DEF Responses!IsPrefix
  <2>2. SubSeq(t, 1, Len(s)) = SubSeq(Append(t, code), 1, Len(s))
    BY <1>1, <2>1
  <2>3. Len(s) <= Len(Append(t, code)) BY <1>1, <2>1
  <2>4. QED BY <2>1, <2>2, <2>3, Zenon DEF Responses!IsPrefix
<1>5. QED BY <1>1, <1>2, <1>3, <1>4

LEMMA TypesKept ==
    ASSUME RespTypes, ScanKeeps, extractor # "dicom"
    PROVE  RespTypes' /\ (Grows => Grows')
<1>1. /\ extractor \in ResponseExtractors /\ response_buf \in Seq(Alphabet[extractor])
      /\ Len(response_buf) <= MaxResponse[extractor]
      /\ annotation \in Seq(Nat) /\ state_sequence \in Seq(Nat)
      /\ state_sequence # <<>> /\ state_sequence[1] = 0
  BY Zenon DEF RespTypes
<1>2. /\ UNCHANGED <<extractor, response_buf, annotation>>
      /\ scan' \in {"scan", "done"} /\ window' \in [0 .. Responses!MemSize -> Numbers]
      /\ scanned' \in 0 .. 3 * Width
      /\ mem_count' \in Nat /\ mem_count' <= scanned' /\ mem_count' <= Len(response_buf)
      /\ extractor \in {"ssh", "dtls12", "dicom"} => mem_count' = 0
      /\ Emits
  BY Zenon DEF ScanKeeps
<1>3. /\ state_sequence' \in Seq(Nat) /\ state_sequence' # <<>> /\ state_sequence'[1] = 0
      /\ Responses!IsPrefix(annotation, state_sequence)
            => Responses!IsPrefix(annotation, state_sequence')
  <2>1. CASE state_sequence' = state_sequence BY <1>1, <2>1, Zenon
  <2>2. CASE \E code \in Nat : state_sequence' = Append(state_sequence, code)
    <3>1. PICK code \in Nat : state_sequence' = Append(state_sequence, code) BY <2>2
    <3>2. QED BY <1>1, <3>1, PrefixStays
  <2>3. QED BY <1>2, <2>1, <2>2, Zenon DEF Emits
<1>4. Responses!MemSize' = Responses!MemSize BY <1>2, Zenon DEF Responses!MemSize
<1>5. RespTypes' BY <1>1, <1>2, <1>3, <1>4, Zenon DEF RespTypes
<1>6. QED BY <1>2, <1>3, <1>5, Zenon DEF Grows

-----------------------------------------------------------------------------
(* A scan and the scan of the response one byte shorter.                   *)
LEMMA SelfPrefix ==
    ASSUME NEW s \in Seq(Nat)
    PROVE  Responses!IsPrefix(s, s) /\ Responses!IsPrefix(<<>>, s)
<1>1. Len(s) <= Len(s) /\ Len(<<>>) <= Len(s) OBVIOUS
<1>2. SubSeq(<<>>, 1, Len(<<>>)) = SubSeq(s, 1, Len(<<>>)) OBVIOUS
<1>3. QED BY <1>1, <1>2, Zenon DEF Responses!IsPrefix

LEMMA CurrentParts ==
    /\ Current[1] = scan /\ Current[2] = scanned /\ Current[3] = window
    /\ Current[4] = mem_count /\ Current[5] = state_sequence
<1>1. QED BY DEF Current

LEMMA ScanIsNext ==
    ASSUME scan = "scan", ByteStep \/ EndStep, RespTypes
    PROVE  NextState(extractor, response_buf, Current) = Current'
<1>1. CASE EndStep
  BY <1>1, CurrentParts, Zenon DEF EndStep, NextState
<1>2. CASE ByteStep
  <2>1. ~(scanned >= Len(response_buf))
        /\ ~(Len(state_sequence) > MaxResponse[extractor] + 1)
    <3>1. PICK size \in 0 .. Width : size = Len(response_buf) BY Places
    <3>2. PICK n \in Nat : n = Len(state_sequence)
      <4>1. state_sequence \in Seq(Nat) BY DEF RespTypes
      <4>2. QED BY <4>1
    <3>3. PICK most \in 0 .. Width : most = MaxResponse[extractor] BY Places
    <3>4. scanned \in 0 .. 3 * Width /\ scanned < size /\ n <= most + 1
      BY <1>2, <3>1, <3>2, <3>3, Places, Zenon DEF ByteStep
    <3>5. ~(scanned >= size) /\ ~(n > most + 1) BY <3>4
    <3>6. QED BY <3>1, <3>2, <3>3, <3>5, Zenon
  <2>2. QED BY <1>2, <2>1, CurrentParts, Zenon DEF ByteStep, NextState, WindowNext
<1>3. QED BY <1>1, <1>2

LEMMA ShorterResponse ==
    ASSUME RespTypes, response_buf # <<>>
    PROVE  /\ Len(Shorter) = Len(response_buf) - 1
           /\ \A i \in 1 .. Len(response_buf) - 1 : Shorter[i] = response_buf[i]
<1>1. PICK s \in Seq(Alphabet[extractor]) : s = response_buf BY DEF RespTypes
<1>2. s # <<>> BY <1>1
<1>3. QED BY <1>1, <1>2, AllButTheLast, Zenon DEF Shorter

(* A byte that both have is read alike; a TLS record that ends behind the  *)
(* shorter response ends the shorter scan.                                 *)
LEMMA SameByte ==
    ASSUME RespTypes, response_buf # <<>>, scan = "scan", ByteStep, scanned < Len(Shorter)
    PROVE  \/ NextState(extractor, Shorter, Current) = Current'
           \/ \E at : NextState(extractor, Shorter, Current)
                         = <<"scan", at, window', mem_count', state_sequence'>>
                      /\ at >= Len(Shorter)
<1>1. PICK size \in 0 .. Width : size = Len(response_buf) BY Places
<1>2. /\ Len(Shorter) = size - 1 /\ scanned \in 0 .. 3 * Width /\ scanned < size - 1
      /\ \A i \in 1 .. size - 1 : Shorter[i] = response_buf[i]
  BY <1>1, ShorterResponse, Places, Zenon
<1>3. Shorter[scanned + 1] = response_buf[scanned + 1]
  <2>1. scanned + 1 \in 1 .. size - 1 BY <1>2
  <2>2. QED BY <1>2, <2>1, Zenon
<1>4. ~(scanned >= Len(Shorter)) /\ ~(Len(state_sequence) > MaxResponse[extractor] + 1)
  <2>1. PICK n \in Nat : n = Len(state_sequence)
    <3>1. state_sequence \in Seq(Nat) BY DEF RespTypes
    <3>2. QED BY <3>1
  <2>2. PICK most \in 0 .. Width : most = MaxResponse[extractor] BY Places
  <2>3. n <= most + 1 BY <2>1, <2>2, Zenon DEF ByteStep
  <2>4. ~(n > most + 1) BY <2>3
  <2>5. ~(scanned >= size - 1) BY <1>2
  <2>6. QED BY <1>2, <2>1, <2>2, <2>4, <2>5, Zenon
<1>5. NextState(extractor, Shorter, Current)
        = AfterByte(extractor, size - 1, scanned, WindowNext, mem_count, state_sequence)
  BY <1>2, <1>3, <1>4, CurrentParts, Zenon DEF NextState, WindowNext
<1>6. Current' = AfterByte(extractor, size, scanned, WindowNext, mem_count, state_sequence)
  BY <1>1, Zenon DEF ByteStep
<1>7. CASE extractor \in LineExtractors \/ extractor # "tls"
  BY <1>5, <1>6, <1>7, Zenon DEF AfterByte
<1>8. CASE extractor \notin LineExtractors /\ extractor = "tls"
  <2>1. CASE ~(mem_count >= Responses!TlsHeader)
    BY <1>5, <1>6, <1>8, <2>1, Zenon DEF AfterByte, AfterTlsByte
  <2>2. CASE mem_count >= Responses!TlsHeader
    <3> DEFINE skipped == (WindowNext[1] - 1) % Width
               codes == Append(state_sequence, Responses!TlsCode(WindowNext))
    <3>1. NextState(extractor, Shorter, Current)
             = <<"scan", Begins(size - 1, scanned, skipped), WindowNext, 0, codes>>
      BY <1>5, <1>8, <2>2, Zenon DEF AfterByte, AfterTlsByte
    <3>2. Current' = <<"scan", Begins(size, scanned, skipped), WindowNext, 0, codes>>
      BY <1>6, <1>8, <2>2, Zenon DEF AfterByte, AfterTlsByte
    <3>3. skipped \in 0 .. Width - 1
      <4>1. WindowNext \in [0 .. Responses!MemSize -> Numbers]
        BY Written DEF ByteStep
      <4>2. PICK most \in 0 .. Width : Responses!MemSize = most + 8 BY Places, Zenon
      <4>3. 1 \in 0 .. Responses!MemSize BY <4>2
      <4>4. Numbers = 0 .. Width - 1 BY Places, Zenon
      <4>5. WindowNext[1] \in 0 .. Width - 1 BY <4>1, <4>3, <4>4, Zenon
      <4>6. \A k \in 0 .. Width - 1 : (k - 1) % Width \in 0 .. Width - 1 BY WidthAssumption
      <4>7. QED BY <4>5, <4>6, Zenon
    <3> HIDE DEF skipped, codes
    <3>4. CASE scanned + 1 + skipped < size - 1
      <4>1. Begins(size - 1, scanned, skipped) = Begins(size, scanned, skipped)
        BY <1>2, <3>3, <3>4 DEF Begins, Ends
      <4>2. QED BY <3>1, <3>2, <4>1, Zenon
    <3>5. CASE ~(scanned + 1 + skipped < size - 1)
      <4>1. Begins(size - 1, scanned, skipped) = size - 1
        BY <1>2, <3>3, <3>5 DEF Begins, Ends
      <4>2. window' = WindowNext /\ mem_count' = 0 /\ state_sequence' = codes
        BY <3>2 DEF Current
      <4>3. size - 1 >= size - 1 OBVIOUS
      <4>4. QED BY <1>2, <3>1, <4>1, <4>2, <4>3, Zenon
    <3>6. QED BY <3>4, <3>5
  <2>3. QED BY <2>1, <2>2
<1>9. QED BY <1>7, <1>8

(* At the end of a response, a scan ends with the codes it has.            *)
LEMMA EndsHere ==
    ASSUME NEW e, NEW buffer, NEW at, NEW m, NEW count, NEW codes, NEW last,
           at >= Len(buffer), last[1] = "done",
           Leads(e, buffer, <<"scan", at, m, count, codes>>, last)
    PROVE  last[5] = codes
<1> DEFINE here == <<"scan", at, m, count, codes>>
           over == <<"done", at, m, count, codes>>
<1>1. /\ here[1] = "scan" /\ here[2] = at /\ here[3] = m /\ here[4] = count /\ here[5] = codes
      /\ over[1] = "done" /\ over[5] = codes
  OBVIOUS
<1>2. here # last BY <1>1
<1>3. NextState(e, buffer, here) = over BY <1>1, Zenon DEF NextState
<1>4. NextState(e, buffer, over) = over BY <1>1, Zenon DEF NextState
<1>5. Leads(e, buffer, over, last) BY <1>2, <1>3, LeadsFurther, Zenon
<1>6. last = over BY <1>4, <1>5, LeadsNowhere, Zenon
<1>7. QED BY <1>1, <1>6

LEMMA GoesOnKept ==
    ASSUME RespTypes, RespTypes', response_buf # <<>>, ScanKeeps, ByteStep \/ EndStep,
           Grows => Grows', GoesOn
    PROVE  GoesOn' \/ Grows'
<1>1. scan = "scan" /\ UNCHANGED <<extractor, response_buf, annotation>>
  BY Zenon DEF ScanKeeps
<1>2. PICK last : /\ last[1] = "done" /\ last[5] = annotation
                  /\ Leads(extractor, Shorter, Current, last)
  BY Zenon DEF GoesOn
<1>3. PICK size \in 0 .. Width : size = Len(response_buf) BY Places
<1>4. scanned \in 0 .. 3 * Width /\ Len(Shorter) = size - 1
  BY <1>3, Places, ShorterResponse, Zenon
<1>5. state_sequence \in Seq(Nat) /\ state_sequence' \in Seq(Nat) BY Zenon DEF RespTypes
<1>6. CASE scanned < Len(Shorter)
  <2>1. ~EndStep
    <3>1. ~(scanned >= size) BY <1>4, <1>6
    <3>2. QED BY <1>3, <3>1, Zenon DEF EndStep
  <2>2. Leads(extractor, Shorter, NextState(extractor, Shorter, Current), last)
    <3>1. Current # last BY <1>1, <1>2, CurrentParts
    <3>2. QED BY <1>2, <3>1, LeadsFurther, Zenon
  <2>3. CASE NextState(extractor, Shorter, Current) = Current'
    <3>1. Shorter' = Shorter BY <1>1 DEF Shorter
    <3>2. QED BY <1>1, <1>2, <2>2, <2>3, <3>1, Zenon DEF GoesOn
  <2>4. CASE \E at : NextState(extractor, Shorter, Current)
                        = <<"scan", at, window', mem_count', state_sequence'>>
                     /\ at >= Len(Shorter)
    <3>1. PICK at : /\ NextState(extractor, Shorter, Current)
                         = <<"scan", at, window', mem_count', state_sequence'>>
                    /\ at >= Len(Shorter)
      BY <2>4, Zenon
    <3>2. last[5] = state_sequence' BY <1>2, <2>2, <3>1, EndsHere
    <3>3. annotation' = state_sequence' BY <1>1, <1>2, <3>2
    <3>4. QED BY <1>5, <3>3, SelfPrefix DEF Grows
  <2>5. QED BY <1>1, <1>6, <2>1, <2>3, <2>4, SameByte
<1>7. CASE ~(scanned < Len(Shorter))
  <2>1. scanned >= Len(Shorter) BY <1>4, <1>7
  <2>2. Current = <<"scan", scanned, window, mem_count, state_sequence>>
    BY <1>1, Zenon DEF Current
  <2>3. annotation = state_sequence BY <1>2, <2>1, <2>2, EndsHere
  <2>4. QED BY <1>5, <2>3, SelfPrefix DEF Grows
<1>8. QED BY <1>6, <1>7

-----------------------------------------------------------------------------
(* The invariant: initially, through scans, and when more is received.     *)
LEMMA RespInvInit == ExtractionInit => RespInv
<1>1. SUFFICES ASSUME ExtractionInit, running = "responses"
               PROVE  RespTypes /\ PduInv /\ SteadyInv
  BY Zenon DEF RespInv
<1>2. Responses!Init BY <1>1 DEF ExtractionInit
<1>3. /\ extractor \in ResponseExtractors /\ response_buf = <<>> /\ annotation = <<>>
      /\ scan = "scan" /\ scanned = 0 /\ mem_count = 0
      /\ window = [i \in 0 .. Responses!MemSize |-> 0] /\ state_sequence = <<0>>
  BY <1>2, Zenon DEF Responses!Init
<1>4. RespTypes
  <2>1. MaxResponse[extractor] \in 0 .. Width BY <1>3, ResponseAssumption, Zenon
  <2>2. \A k \in 0 .. Width : 0 <= k BY WidthAssumption
  <2>3. Len(<<>>) = 0 /\ <<>> \in Seq(Alphabet[extractor]) /\ <<>> \in Seq(Nat)
        /\ <<0>> \in Seq(Nat) /\ <<0>> # <<>> /\ <<0>>[1] = 0
    OBVIOUS
  <2>4. 0 \in 0 .. 3 * Width /\ 0 \in Nat /\ 0 <= 0 BY WidthAssumption
  <2>5. 0 \in Numbers BY DEF Numbers
  <2>6. window \in [0 .. Responses!MemSize -> Numbers] BY <1>3, <2>5
  <2>7. QED BY <1>3, <2>1, <2>2, <2>3, <2>4, <2>6, Zenon DEF RespTypes
<1>5. PduInv BY <1>3, Zenon DEF PduInv
<1>6. SteadyInv
  <2>1. Current = Initial BY <1>3, Zenon DEF Current, Initial
  <2>2. QED BY <1>3, <2>1, LeadsToItself, Zenon DEF SteadyInv
<1>7. QED BY <1>4, <1>5, <1>6

LEMMA RespInvScan ==
    ASSUME RespTypes, PduInv, SteadyInv, Responses!Scan
    PROVE  RespTypes' /\ PduInv' /\ SteadyInv'
<1>1. CASE extractor = "dicom"
  <2>1. /\ UNCHANGED <<extractor, response_buf, annotation, scanned, window, mem_count>>
        /\ scan' = "done"
        /\ state_sequence' = IF Len(response_buf) = 0 THEN <<>> ELSE <<0, response_buf[1]>>
    <3>1. extractor \notin LineExtractors /\ ~UnsteadyScans
      <4>1. extractor \notin LineExtractors BY <1>1 DEF LineExtractors
      <4>2. QED BY <1>1, <4>1, UnsteadyScansKeep
    <3>2. ~Responses!Finish BY <1>1, Zenon DEF Responses!Finish
    <3>3. ~Responses!extract_response_codes_smtp /\ ~Responses!extract_response_codes_ftp
          /\ ~Responses!extract_response_codes_rtsp /\ ~Responses!extract_response_codes_sip
          /\ ~Responses!extract_response_codes_http
      BY <3>1, LineScan
    <3>4. ~Responses!extract_response_codes_tls /\ ~Responses!extract_response_codes_dns
      BY <1>1, TlsScan, DnsScan
    <3>5. Responses!extract_response_codes_dicom
      BY <3>1, <3>2, <3>3, <3>4, Zenon DEF Responses!Scan, UnsteadyScans
    <3>6. QED BY <3>5, Zenon DEF Responses!extract_response_codes_dicom, Responses!buf_size
  <2>2. state_sequence' = PduStates
    <3>1. PICK s \in Seq(Alphabet[extractor]) : s = response_buf BY Zenon DEF RespTypes
    <3>2. Len(s) = 0 <=> s = <<>> OBVIOUS
    <3>3. QED BY <2>1, <3>1, <3>2, Zenon DEF PduStates
  <2>3. PduStates' = PduStates BY <2>1, Zenon DEF PduStates
  <2>4. PduInv' BY <2>1, <2>2, <2>3, Zenon DEF PduInv
  <2>5. RespTypes'
    <3>1. /\ extractor \in ResponseExtractors /\ response_buf \in Seq(Alphabet[extractor])
          /\ Len(response_buf) <= MaxResponse[extractor] /\ annotation \in Seq(Nat)
          /\ scanned \in 0 .. 3 * Width
          /\ mem_count \in Nat /\ mem_count <= scanned /\ mem_count <= Len(response_buf)
          /\ extractor \in {"ssh", "dtls12", "dicom"} => mem_count = 0
          /\ window \in [0 .. Responses!MemSize -> Numbers]
      BY Zenon DEF RespTypes
    <3>2. Responses!MemSize' = Responses!MemSize BY <2>1, Zenon DEF Responses!MemSize
    <3>3. PduStates \in Seq(Nat) /\ (PduStates = <<>> => response_buf = <<>>)
          /\ (PduStates # <<>> => PduStates[1] = 0)
      <4>1. CASE response_buf = <<>> BY <4>1 DEF PduStates
      <4>2. CASE response_buf # <<>>
        <5>1. Len(response_buf) \in 0 .. Width /\ Len(response_buf) # 0
          <6>1. PICK s \in Seq(Alphabet[extractor]) : s = response_buf BY <3>1
          <6>2. Len(s) = 0 <=> s = <<>> OBVIOUS
          <6>3. QED BY <4>2, <6>1, <6>2, Places, Zenon
        <5>2. 1 \in 1 .. Len(response_buf) BY <5>1
        <5>3. response_buf[1] \in Numbers /\ Numbers = 0 .. Width - 1 BY <5>2, Places, Zenon
        <5>4. PICK type \in 0 .. Width - 1 : type = response_buf[1] BY <5>3, Zenon
        <5>5. PduStates = <<0, type>> BY <4>2, <5>4, Zenon DEF PduStates
        <5>6. <<0, type>> \in Seq(Nat) /\ <<0, type>>[1] = 0 /\ <<0, type>> # <<>> OBVIOUS
        <5>7. QED BY <5>5, <5>6, Zenon
      <4>3. QED BY <4>1, <4>2
    <3>4. QED BY <1>1, <2>1, <2>2, <3>1, <3>2, <3>3, Zenon DEF RespTypes
  <2>6. SteadyInv' BY <1>1, <2>1 DEF SteadyInv, Steady
  <2>7. QED BY <2>4, <2>5, <2>6
<1>2. CASE extractor # "dicom"
  <2>1. ScanKeeps /\ (Steady(extractor) => ByteStep \/ EndStep) BY <1>2, ScansKeep
  <2>2. RespTypes' /\ (Grows => Grows') BY <1>2, <2>1, TypesKept
  <2>3. scan = "scan" /\ UNCHANGED <<extractor, response_buf, annotation>>
    BY <2>1, Zenon DEF ScanKeeps
  <2>4. PduInv' BY <1>2, <2>3, Zenon DEF PduInv
  <2>5. ASSUME Steady(extractor) PROVE SteadyInv'
    <3>1. /\ Leads(extractor, response_buf, Initial, Current)
          /\ IF response_buf = <<>> THEN annotation = <<>> ELSE GoesOn \/ Grows
      BY <2>5, Zenon DEF SteadyInv
    <3>2. NextState(extractor, response_buf, Current) = Current'
      BY <2>1, <2>3, <2>5, ScanIsNext
    <3>3. Leads(extractor, response_buf, Initial, Current') BY <3>1, <3>2, LeadsOn, Zenon
    <3>4. Initial' = Initial BY <2>3 DEF Initial, Responses!MemSize
    <3>5. ASSUME response_buf # <<>> PROVE GoesOn' \/ Grows'
      <4>1. CASE Grows BY <2>2, <4>1
      <4>2. CASE GoesOn BY <2>1, <2>2, <2>5, <3>5, <4>2, GoesOnKept
      <4>3. QED BY <3>1, <3>5, <4>1, <4>2
    <3>6. QED BY <2>3, <3>1, <3>3, <3>4, <3>5, Zenon DEF SteadyInv
  <2>6. ~Steady(extractor) => SteadyInv' BY <2>3, Zenon DEF SteadyInv
  <2>7. QED BY <2>2, <2>4, <2>5, <2>6
<1>3. QED BY <1>1, <1>2

LEMMA RespInvReceive ==
    ASSUME RespTypes, PduInv, SteadyInv, Responses!Receive
    PROVE  RespTypes' /\ PduInv' /\ SteadyInv'
<1>1. PICK b \in Alphabet[extractor] :
         /\ scan = "done" /\ Len(response_buf) < MaxResponse[extractor]
         /\ response_buf' = Append(response_buf, b) /\ annotation' = state_sequence
         /\ scan' = "scan" /\ scanned' = 0 /\ mem_count' = 0
         /\ window' = [i \in 0 .. Responses!MemSize |-> 0] /\ state_sequence' = <<0>>
         /\ extractor' = extractor
  BY Zenon DEF Responses!Receive, Responses!Start, Responses!buf_size
<1>2. Responses!MemSize' = Responses!MemSize BY <1>1, Zenon DEF Responses!MemSize
<1>3. PICK s \in Seq(Alphabet[extractor]) : s = response_buf BY Zenon DEF RespTypes
<1>4. /\ response_buf' \in Seq(Alphabet[extractor]) /\ response_buf' # <<>>
      /\ Len(response_buf') = Len(response_buf) + 1
      /\ SubSeq(response_buf', 1, Len(response_buf') - 1) = response_buf
      /\ response_buf # <<>> => response_buf'[1] = response_buf[1] /\ Len(response_buf') > 1
  <2>1. Append(s, b) \in Seq(Alphabet[extractor]) OBVIOUS
  <2>2. Len(Append(s, b)) = Len(s) + 1 /\ Len(s) \in Nat OBVIOUS
  <2>3. Append(s, b) # <<>>
    <3>1. Len(<<>>) = 0 /\ \A k \in Nat : k + 1 # 0 OBVIOUS
    <3>2. QED BY <2>2, <3>1, Zenon
  <2>4. SubSeq(Append(s, b), 1, Len(Append(s, b)) - 1) = s
    <3>1. Len(Append(s, b)) - 1 = Len(s) BY <2>2
    <3>2. SubSeq(Append(s, b), 1, Len(s)) = s OBVIOUS
    <3>3. QED BY <3>1, <3>2, Zenon
  <2>5. ASSUME s # <<>> PROVE Append(s, b)[1] = s[1] /\ Len(Append(s, b)) > 1
    <3>1. Len(s) # 0 BY <2>5
    <3>2. 1 \in 1 .. Len(s) BY <2>2, <3>1
    <3>3. Append(s, b)[1] = s[1] BY <3>2
    <3>4. Len(s) + 1 > 1 BY <2>2, <3>1
    <3>5. QED BY <2>2, <3>3, <3>4, Zenon
  <2>6. QED BY <1>1, <1>3, <2>1, <2>2, <2>3, <2>4, <2>5, Zenon
<1>5. RespTypes'
  <2>1. extractor \in ResponseExtractors /\ state_sequence \in Seq(Nat) BY Zenon DEF RespTypes
  <2>2. Len(response_buf') <= MaxResponse[extractor] /\ 0 <= Len(response_buf')
    <3>1. PICK n \in 0 .. Width, most \in 0 .. Width :
             n = Len(response_buf) /\ most = MaxResponse[extractor]
      BY Places
    <3>2. n < most BY <1>1, <3>1, Zenon
    <3>3. n + 1 <= most /\ 0 <= n + 1 BY <3>2
    <3>4. QED BY <1>4, <3>1, <3>3, Zenon
  <2>3. <<0>> \in Seq(Nat) /\ <<0>> # <<>> /\ <<0>>[1] = 0 OBVIOUS
  <2>4. 0 \in 0 .. 3 * Width /\ 0 \in Nat /\ 0 <= 0 BY WidthAssumption
  <2>5. [i \in 0 .. Responses!MemSize |-> 0] \in [0 .. Responses!MemSize -> Numbers]
    <3>1. 0 \in Numbers BY DEF Numbers
    <3>2. QED BY <3>1
  <2>6. QED BY <1>1, <1>2, <1>4, <2>1, <2>2, <2>3, <2>4, <2>5, Zenon DEF RespTypes
<1>6. PduInv'
  <2>1. SUFFICES ASSUME extractor = "dicom"
                 PROVE  annotation' = <<>> \/ (Len(response_buf') > 1 /\ annotation' = PduStates')
    BY <1>1, Zenon DEF PduInv
  <2>2. annotation' = PduStates BY <1>1, <2>1, Zenon DEF PduInv
  <2>3. CASE response_buf = <<>> BY <2>2, <2>3, Zenon DEF PduStates
  <2>4. CASE response_buf # <<>> BY <1>4, <2>2, <2>4, Zenon DEF PduStates
  <2>5. QED BY <2>3, <2>4
<1>7. SteadyInv'
  <2>1. SUFFICES ASSUME Steady(extractor)
                 PROVE  Leads(extractor', response_buf', Initial', Current') /\ GoesOn'
    BY <1>1, <1>4, Zenon DEF SteadyInv
  <2>2. Leads(extractor, response_buf, Initial, Current) BY <2>1, Zenon DEF SteadyInv
  <2>3. Initial' = Initial BY <1>2, Zenon DEF Initial
  <2>4. Current' = Initial BY <1>1, Zenon DEF Current, Initial
  <2>5. Shorter' = response_buf BY <1>4, Zenon DEF Shorter
  <2>6. Current[1] = "done" /\ Current[5] = annotation' BY <1>1, CurrentParts, Zenon
  <2>7. GoesOn' BY <1>1, <2>2, <2>4, <2>5, <2>6, Zenon DEF GoesOn
  <2>8. Leads(extractor', response_buf', Initial', Current')
    BY <2>3, <2>4, LeadsToItself, Zenon
  <2>9. QED BY <2>7, <2>8
<1>8. QED BY <1>5, <1>6, <1>7

LEMMA RespInvNext == RespInv /\ [Cut \/ Receive \/ Scan]_allVars => RespInv'
<1>1. SUFFICES ASSUME RespInv, [Cut \/ Receive \/ Scan]_allVars, running' = "responses"
               PROVE  RespTypes' /\ PduInv' /\ SteadyInv'
  BY Zenon DEF RespInv
<1>2. CASE Cut BY <1>1, <1>2, Zenon DEF Cut
<1>3. CASE Receive
  <2>1. RespTypes /\ PduInv /\ SteadyInv /\ Responses!Receive
    BY <1>1, <1>3, Zenon DEF Receive, RespInv
  <2>2. QED BY <2>1, RespInvReceive
<1>4. CASE Scan
  <2>1. RespTypes /\ PduInv /\ SteadyInv /\ Responses!Scan
    BY <1>1, <1>4, Zenon DEF Scan, RespInv
  <2>2. QED BY <2>1, RespInvScan
<1>5. CASE UNCHANGED allVars
  <2>1. /\ running' = running
        /\ UNCHANGED <<extractor, response_buf, annotation, scan, scanned, window, mem_count,
                       state_sequence>>
    BY <1>5, Zenon DEF allVars, responseVars
  <2>2. RespTypes /\ PduInv /\ SteadyInv BY <1>1, <2>1, Zenon DEF RespInv
  <2>3. Responses!MemSize' = Responses!MemSize BY <2>1, Zenon DEF Responses!MemSize
  <2>4. RespTypes' BY <2>1, <2>2, <2>3, Zenon DEF RespTypes
  <2>5. PduInv' BY <2>1, <2>2, Zenon DEF PduInv, PduStates
  <2>6. /\ Current' = Current /\ Initial' = Initial /\ Shorter' = Shorter /\ Grows' = Grows
    BY <2>1, <2>3, Zenon DEF Current, Initial, Shorter, Grows
  <2>7. GoesOn' = GoesOn BY <2>1, <2>6, Zenon DEF GoesOn
  <2>8. SteadyInv' BY <2>1, <2>2, <2>6, <2>7, Zenon DEF SteadyInv
  <2>9. QED BY <2>4, <2>5, <2>8
<1>6. QED BY <1>1, <1>2, <1>3, <1>4, <1>5

(* An ended scan stands at the end that annotates the shorter response, or *)
(* has gone past it.                                                       *)
LEMMA RespInvGrows == RespInv => ResponsesGrow
<1>1. SUFFICES ASSUME RespTypes, PduInv, SteadyInv
               PROVE  Responses!TypeOK /\ Responses!AnnotationsGrow
  BY Zenon DEF RespInv, ResponsesGrow
<1>2. annotation \in Seq(Nat) /\ state_sequence \in Seq(Nat) BY <1>1, Zenon DEF RespTypes
<1>3. Responses!TypeOK
  <2>1. /\ extractor \in ResponseExtractors /\ scan \in {"scan", "done"}
        /\ response_buf \in Seq(Alphabet[extractor])
        /\ Len(response_buf) <= MaxResponse[extractor]
        /\ scanned \in 0 .. 3 * Width
        /\ window \in [0 .. Responses!MemSize -> Numbers]
        /\ IF state_sequence = <<>> THEN extractor = "dicom" /\ response_buf = <<>>
           ELSE state_sequence[1] = 0
    BY <1>1, Zenon DEF RespTypes
  <2>2. mem_count \in 0 .. Responses!MemSize BY <1>1, Places, Zenon
  <2>3. \A i \in DOMAIN state_sequence : state_sequence[i] \in Nat BY <1>2
  <2>4. Head(state_sequence) = state_sequence[1] OBVIOUS
  <2>5. DOMAIN window = 0 .. Responses!MemSize BY <2>1, Zenon
  <2>6. QED BY <2>1, <2>2, <2>3, <2>4, <2>5, Zenon DEF Responses!TypeOK, Responses!buf_size
<1>4. Responses!AnnotationsGrow
  <2>1. SUFFICES ASSUME scan = "done", extractor \notin Responses!Unsteady
                 PROVE  Responses!IsPrefix(annotation, state_sequence)
    BY Zenon DEF Responses!AnnotationsGrow
  <2>2. CASE extractor = "dicom"
    <3>1. annotation \in {<<>>, state_sequence} BY <1>1, <2>1, <2>2, Zenon DEF PduInv
    <3>2. QED BY <1>2, <3>1, SelfPrefix
  <2>3. CASE extractor # "dicom"
    <3>1. Steady(extractor) BY <2>1, <2>3 DEF Steady
    <3>2. annotation = <<>> \/ GoesOn \/ Grows BY <1>1, <3>1, Zenon DEF SteadyInv
    <3>3. CASE annotation = <<>> BY <1>2, <3>3, SelfPrefix
    <3>4. CASE GoesOn
      <4>1. PICK last : /\ last[1] = "done" /\ last[5] = annotation
                        /\ Leads(extractor, Shorter, Current, last)
        BY <3>4, Zenon DEF GoesOn
      <4>2. NextState(extractor, Shorter, Current) = Current
        <5>1. Current[1] # "scan" BY <2>1, CurrentParts
        <5>2. QED BY <5>1, Zenon DEF NextState
      <4>3. last = Current BY <4>1, <4>2, LeadsNowhere, Zenon
      <4>4. annotation = state_sequence BY <4>1, <4>3, CurrentParts, Zenon
      <4>5. QED BY <1>2, <4>4, SelfPrefix
    <3>5. CASE Grows BY <3>5 DEF Grows
    <3>6. QED BY <3>2, <3>3, <3>4, <3>5
  <2>4. QED BY <2>2, <2>3
<1>5. QED BY <1>3, <1>4

(* ResponsesGrow: whatever the alphabets and however long the responses,   *)
(* the states that annotate a message begin those of the next one.         *)
THEOREM ResponsesAlwaysGrow == ExtractionSpec => []ResponsesGrow
<1>1. QED BY RespInvInit, RespInvNext, RespInvGrows, PTL DEF ExtractionSpec
=============================================================================
