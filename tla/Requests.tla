------------------------------ MODULE Requests ------------------------------
(***************************************************************************)
(* Cutting a buffer into messages (aflnet.c): one extract_requests function*)
(* per protocol reads the buffer and returns regions, each the first and   *)
(* the last byte of a message.  construct_kl_messages then reads the       *)
(* messages of a seed from its file, and what was sent of a test case worth*)
(* keeping is saved to a file with regions of its own.                     *)
(*                                                                         *)
(* A step is one turn of an extractor's loop.  mem is the part of the      *)
(* array of that name that has been filled since the last message, so      *)
(* mem_count is Len(mem).  Offsets count from 0 as in the code, sequences  *)
(* from 1: buf[i] there is Byte(i) here.                                   *)
(***************************************************************************)
EXTENDS Integers, Sequences

CONSTANTS
    UINT,   \* unsigned int is 0 .. UINT - 1: arithmetic on lengths wraps there
    Inputs  \* the pairs of a protocol and a buffer it may have to cut

Delimited == {"tftp", "dhcp", "SNTP", "NTP", "SNMP", "smtp", "rtsp", "ftp",
              "sip", "http", "ipp"}
Protocols == Delimited \cup {"dns", "ssh", "tls", "dicom", "dtls12"}
Bytes == 0 .. 255

(* No caller passes an empty buffer: empty files are not read, and a mutant *)
(* that a post handler has emptied is not tried.                           *)
ASSUME RequestsAssumption ==
    /\ UINT \in Nat /\ UINT >= 65536   \* u16, the length of a TLS record, fits
    /\ \A input \in Inputs :
          /\ input[1] \in Protocols /\ input[2] \in Seq(Bytes)
          /\ Len(input[2]) \in 1 .. UINT - 6

VARIABLES
    protocol, buf,
    byte_count, mem, cur_start, cur_end,
    regions,
    pc,           \* scan, scanned, cut, loaded, save, convert, kept, reloaded
    kl_messages,  \* the messages of the test case
    fpos,         \* where construct_kl_messages reads the seed
    messages_sent,          \* of the execution that was worth keeping
    message_count,          \* the messages saved
    file, file_regions,     \* the queue entry it was saved to
    reloaded                \* the messages of that entry

cursors == <<byte_count, mem, cur_start, cur_end>>
saving  == <<messages_sent, message_count, file, file_regions>>
lists   == <<kl_messages, fpos, saving, reloaded>>
vars == <<protocol, buf, cursors, regions, pc, lists>>

buf_size == Len(buf)
Byte(i)  == buf[i + 1]

(* mem once the byte of this turn is in it.                                *)
Filled == Append(mem, Byte(byte_count))

EndsWith(s, end) ==
    Len(end) =< Len(s) /\ SubSeq(s, Len(s) - Len(end) + 1, Len(s)) = end

(* memcmp(buf + at, word) where the buffer is long enough for the word.    *)
WordAt(at, word) ==
    at + Len(word) =< buf_size /\ SubSeq(buf, at + 1, at + Len(word)) = word

(* Four bytes as an unsigned int.                                          *)
Shifted(n, b) == (n * 256 + b) % UINT
ntohl(a, b, c, d) == Shifted(Shifted(Shifted(a, b), c), d)

(* The sum or difference of two unsigned ints.                             *)
Wrap(n) == IF n < 0 THEN n + UINT ELSE IF n >= UINT THEN n - UINT ELSE n

Region(first, last) == [start_byte |-> first, end_byte |-> last]

-----------------------------------------------------------------------------
(* Where a message ends, for the protocols that delimit them: m is mem with *)
(* the byte just read, next the offset of the byte after it.               *)

CRLF == <<13, 10>>

(* mem[mem_count - 1], the last byte but one, is compared.                 *)
extract_requests_tftp(m) == Len(m) > 2 /\ m[Len(m) - 1] = 0
extract_requests_SNTP(m) == Len(m) > 2 /\ m[Len(m) - 1] = 0
extract_requests_SNMP(m) == Len(m) > 2 /\ m[Len(m) - 1] = 0

extract_requests_dhcp(m) == Len(m) > 2 /\ EndsWith(m, <<255, 255>>)

extract_requests_NTP(m) ==
    IF buf_size = 48 THEN Len(m) = 48
    ELSE Len(m) \in {69, 121} /\ m[Len(m) - 1] = 0

extract_requests_smtp(m) == Len(m) > 2 /\ EndsWith(m, CRLF)
extract_requests_ftp(m)  == Len(m) > 2 /\ EndsWith(m, CRLF)
extract_requests_rtsp(m) == Len(m) > 4 /\ EndsWith(m, CRLF \o CRLF)
extract_requests_http(m) == Len(m) >= 5 /\ EndsWith(m, CRLF \o CRLF)

REGISTER == <<82, 69, 71, 73, 83, 84, 69, 82>>
INVITE   == <<73, 78, 86, 73, 84, 69>>
ACK      == <<65, 67, 75>>
BYE      == <<66, 89, 69>>
POST     == <<80, 79, 83, 84>>

(* One byte of the terminator is compared, the last but one.               *)
extract_requests_sip(m, next) ==
    /\ Len(m) > 2 /\ m[Len(m) - 1] = 13
    /\ \E command \in {REGISTER, INVITE, ACK, BYE} : WordAt(next, command)

extract_requests_ipp(m, next) ==
    /\ Len(m) > 4
    /\ EndsWith(m, CRLF \o CRLF) \/ EndsWith(m, <<3>>)
    /\ WordAt(next, POST)

EndOfRequest(m, next) ==
    CASE protocol = "tftp" -> extract_requests_tftp(m)
      [] protocol = "dhcp" -> extract_requests_dhcp(m)
      [] protocol = "SNTP" -> extract_requests_SNTP(m)
      [] protocol = "NTP"  -> extract_requests_NTP(m)
      [] protocol = "SNMP" -> extract_requests_SNMP(m)
      [] protocol = "smtp" -> extract_requests_smtp(m)
      [] protocol = "rtsp" -> extract_requests_rtsp(m)
      [] protocol = "ftp"  -> extract_requests_ftp(m)
      [] protocol = "sip"  -> extract_requests_sip(m, next)
      [] protocol = "http" -> extract_requests_http(m)
      [] protocol = "ipp"  -> extract_requests_ipp(m, next)

-----------------------------------------------------------------------------

Init ==
    /\ \E input \in Inputs : protocol = input[1] /\ buf = input[2]
    /\ byte_count = 0 /\ mem = <<>> /\ cur_start = 0 /\ cur_end = 0
    /\ regions = <<>> /\ pc = "scan"
    /\ kl_messages = <<>> /\ fpos = 0 /\ messages_sent = 0 /\ message_count = 0
    /\ file = <<>> /\ file_regions = <<>> /\ reloaded = <<>>

Scanning(protocols) ==
    /\ pc = "scan" /\ byte_count < buf_size /\ protocol \in protocols
    /\ UNCHANGED <<protocol, buf, lists>>

(* Mutant: the last byte of a message is taken for the next one's first.   *)
StartAtLast(last) == mem' = <<>> /\ cur_start' = last /\ cur_end' = last

(* The message starts a new one after its last byte.                       *)
StartAfter(last) == mem' = <<>> /\ cur_start' = last + 1 /\ cur_end' = last + 1

(* A delimiter: the message ends with the byte just read.                  *)
EndRequest ==
    /\ Scanning(Delimited)
    /\ EndOfRequest(Filled, byte_count + 1)
    /\ regions' = Append(regions, Region(cur_start, cur_end))
    /\ StartAfter(cur_end)
    /\ byte_count' = byte_count + 1
    /\ UNCHANGED pc

(* No end of a message yet: the byte is kept in mem.  When the cursor has   *)
(* come to the last byte the buffer is done, and that byte is not read.    *)
NextByte ==
    /\ Scanning(Protocols \ {"dicom", "dtls12"})
    /\ CASE protocol \in Delimited -> ~EndOfRequest(Filled, byte_count + 1)
         [] protocol = "dns" -> Len(mem) < 12 \/ Byte(byte_count) # 0
         [] protocol = "ssh" -> Len(mem) < 6
         [] protocol = "tls" -> Len(mem) < 5
    /\ mem' = Filled /\ cur_end' = cur_end + 1 /\ byte_count' = byte_count + 1
    /\ IF cur_end + 1 = buf_size - 1
         THEN regions' = Append(regions, Region(cur_start, cur_end + 1)) /\ pc' = "scanned"
         ELSE UNCHANGED <<regions, pc>>
    /\ UNCHANGED cur_start

(* The null byte after the header, and four more: the tail of the query,   *)
(* whether the buffer has them or not.                                     *)
extract_requests_dns ==
    /\ Scanning({"dns"})
    /\ Len(mem) >= 12 /\ Byte(byte_count) = 0
    /\ regions' = Append(regions, Region(cur_start, cur_end + 4))
    /\ byte_count' = byte_count + 5
    /\ IF cur_end + 4 = buf_size - 1
         THEN pc' = "scanned" /\ cur_end' = cur_end + 4 /\ UNCHANGED <<mem, cur_start>>
         ELSE StartAfter(cur_end + 4) /\ UNCHANGED pc

(* A region that ends at last, and a new one unless the buffer is done.    *)
CutAt(last) ==
    /\ regions' = Append(regions, Region(cur_start, last))
    /\ IF last < buf_size - 1 THEN StartAfter(last)
       ELSE cur_end' = last /\ UNCHANGED <<mem, cur_start>>
    /\ UNCHANGED pc

(* The header is in mem with one byte more; the rest of the message is     *)
(* skipped, as far as there is one, and the byte too many is given back.   *)
Skip(bytes_to_skip) ==
    LET left    == buf_size - (byte_count + 1)
        skipped == IF bytes_to_skip < left THEN bytes_to_skip ELSE left
        back    == IF skipped < left THEN 1 ELSE 0
    IN  /\ byte_count' = byte_count + 1 + skipped - back
        /\ CutAt(cur_end + skipped - back)

SshIdentification == SubSeq(Filled, 1, 4) = <<83, 83, 72, 45>>

(* "SSH-": read on to the end of the line, or of the buffer.               *)
SshIdentificationByte ==
    /\ Scanning({"ssh"}) /\ Len(mem) >= 6 /\ SshIdentification
    /\ ~EndsWith(Filled, CRLF) /\ byte_count + 1 < buf_size
    /\ mem' = Filled /\ cur_end' = cur_end + 1 /\ byte_count' = byte_count + 1
    /\ UNCHANGED <<cur_start, regions, pc>>

SshIdentificationEnd ==
    /\ Scanning({"ssh"}) /\ Len(mem) >= 6 /\ SshIdentification
    /\ EndsWith(Filled, CRLF) \/ byte_count + 1 = buf_size
    /\ byte_count' = byte_count + 1
    /\ CutAt(cur_end)

(* A binary packet; no MAC follows the messages of a key exchange.         *)
extract_requests_ssh ==
    LET message_size == ntohl(Filled[1], Filled[2], Filled[3], Filled[4])
        mac == IF Filled[6] \in 20 .. 49 THEN 0 ELSE 8
    IN  /\ Scanning({"ssh"}) /\ Len(mem) >= 6 /\ ~SshIdentification
        /\ Skip(Wrap(Wrap(message_size - 2) + mac))

extract_requests_tls ==
    /\ Scanning({"tls"}) /\ Len(mem) >= 5
    /\ Skip(Filled[4] * 256 + Filled[5])

(* bytes 2 to 5 of a PDU                                                   *)
pdu_length == ntohl(Byte(byte_count + 2), Byte(byte_count + 3),
                    Byte(byte_count + 4), Byte(byte_count + 5))
packet_length == Wrap(pdu_length + 6)
end == Wrap(byte_count + packet_length - 1)

(* The header is there, the length has not wrapped and stays inside.       *)
WholePdu == byte_count + 5 < buf_size /\ byte_count =< end /\ end < buf_size

(* The code tests again that byte_count + packet_length does not wrap: it   *)
(* is end + 1, which is inside.                                            *)
extract_requests_dicom ==
    /\ Scanning({"dicom"}) /\ WholePdu
    /\ regions' = Append(regions, Region(byte_count, end))
    /\ byte_count' = Wrap(byte_count + packet_length)
    /\ UNCHANGED <<mem, cur_start, cur_end, pc>>

(* if bytes is left                                                        *)
DicomRest ==
    /\ Scanning({"dicom"}) /\ ~WholePdu
    /\ regions' = Append(regions, Region(byte_count, buf_size - 1))
    /\ pc' = "scanned"
    /\ UNCHANGED cursors

(* A content type and 0xFE 0xFD.  The second byte of the version may be     *)
(* the one past the buffer: the code reads it, whatever is there.          *)
DtlsRecordMayStart ==
    /\ byte_count > 3 /\ byte_count + 1 < buf_size
    /\ Byte(byte_count) \in 20 .. 24
    /\ Byte(byte_count + 1) = 254
    /\ byte_count + 2 < buf_size => Byte(byte_count + 2) = 253

DtlsRecordStarts == DtlsRecordMayStart /\ byte_count + 2 < buf_size

extract_requests_dtls12 ==
    /\ Scanning({"dtls12"}) /\ DtlsRecordMayStart
    /\ regions' = Append(regions, Region(cur_start, byte_count - 1))
    /\ cur_start' = byte_count /\ byte_count' = byte_count + 1
    /\ UNCHANGED <<mem, cur_end, pc>>

DtlsByte ==
    /\ Scanning({"dtls12"}) /\ ~DtlsRecordStarts
    /\ IF byte_count = buf_size - 1
         THEN /\ regions' = Append(regions, Region(cur_start, byte_count))
              /\ pc' = "scanned"
              /\ UNCHANGED cursors
         ELSE byte_count' = byte_count + 1 /\ UNCHANGED <<mem, cur_start, cur_end, regions, pc>>

(* Mutant: the loop runs until byte_count is the size.                      *)
EndOfBufferExactly ==
    /\ pc = "scan" /\ byte_count = buf_size
    /\ pc' = "scanned"
    /\ UNCHANGED <<protocol, buf, cursors, regions, lists>>

(* The loop ends without a break.                                          *)
EndOfBuffer ==
    /\ pc = "scan" /\ byte_count >= buf_size
    /\ pc' = "scanned"
    /\ UNCHANGED <<protocol, buf, cursors, regions, lists>>

(* One region for the whole buffer when nothing was found in it.           *)
Return ==
    /\ pc = "scanned" /\ pc' = "cut"
    /\ regions' = IF regions = <<>> THEN <<Region(0, buf_size - 1)>> ELSE regions
    /\ UNCHANGED <<protocol, buf, cursors, lists>>

-----------------------------------------------------------------------------
(* The messages of a test case, its file and its regions.                  *)

Size(r) == r.end_byte - r.start_byte + 1

(* fread of a message from offset at on; what the file does not have stays *)
(* zero, as allocated.                                                     *)
Fread(contents, at, size) ==
    [k \in 1 .. size |-> IF at + k =< Len(contents) THEN contents[at + k] ELSE 0]

Smaller(m, n) == IF m < n THEN m ELSE n

(* One message is read, for the region that comes next.                    *)
ConstructMessage(contents, cuts, messages) ==
    LET size == Size(cuts[Len(messages) + 1])
    IN  /\ Len(messages) < Len(cuts)
        /\ fpos' = Smaller(fpos + size, Len(contents))
        /\ UNCHANGED <<protocol, buf, cursors, regions, pc, saving>>

(* fuzz_one loads a seed: its file is read from the start, message after   *)
(* message, each as long as its region.                                    *)
construct_kl_messages ==
    /\ pc = "cut" /\ ConstructMessage(buf, regions, kl_messages)
    /\ kl_messages' = Append(kl_messages,
                             Fread(buf, fpos, Size(regions[Len(kl_messages) + 1])))
    /\ UNCHANGED reloaded

Loaded ==
    /\ pc = "cut" /\ Len(kl_messages) = Len(regions)
    /\ pc' = "loaded"
    /\ UNCHANGED <<protocol, buf, cursors, regions, lists>>

(* The execution of the messages is worth keeping.  When the server could   *)
(* not be reached, or its greeting was not received, messages_sent is that *)
(* of an earlier execution: more than the messages there are, or none.     *)
Execute ==
    /\ pc = "loaded" /\ pc' = "save"
    /\ messages_sent' \in 0 .. Len(kl_messages) + 1
    /\ UNCHANGED <<protocol, buf, cursors, regions, kl_messages, fpos, message_count,
                   file, file_regions, reloaded>>

save_kl_messages_to_file ==
    /\ pc = "save"
    /\ IF message_count < Len(kl_messages) /\ message_count < messages_sent
         THEN /\ file' = file \o kl_messages[message_count + 1]
              /\ message_count' = message_count + 1
              /\ UNCHANGED pc
         ELSE pc' = "convert" /\ UNCHANGED <<file, message_count>>
    /\ UNCHANGED <<protocol, buf, cursors, regions, kl_messages, fpos, messages_sent,
                   file_regions, reloaded>>

(* Mutant: the last message sent gets no region.                           *)
ConvertButLast ==
    /\ pc = "convert"
    /\ LET region_count == Len(file_regions) + 1
           start == IF file_regions = <<>> THEN 0
                    ELSE file_regions[Len(file_regions)].end_byte + 1
       IN  IF region_count =< Len(kl_messages) /\ region_count < messages_sent
             THEN /\ file_regions' = Append(file_regions,
                                   Region(start, start + Len(kl_messages[region_count]) - 1))
                  /\ UNCHANGED <<pc, fpos>>
             ELSE pc' = "kept" /\ fpos' = 0 /\ UNCHANGED file_regions
    /\ UNCHANGED <<protocol, buf, cursors, regions, kl_messages, messages_sent,
                   message_count, file, reloaded>>

(* region_count counts the regions from one.                               *)
convert_kl_messages_to_regions ==
    /\ pc = "convert"
    /\ LET region_count == Len(file_regions) + 1
           start == IF file_regions = <<>> THEN 0
                    ELSE file_regions[Len(file_regions)].end_byte + 1
       IN  IF region_count =< Len(kl_messages) /\ region_count =< messages_sent
             THEN /\ file_regions' = Append(file_regions,
                                   Region(start, start + Len(kl_messages[region_count]) - 1))
                  /\ UNCHANGED <<pc, fpos>>
             ELSE pc' = "kept" /\ fpos' = 0 /\ UNCHANGED file_regions
    /\ UNCHANGED <<protocol, buf, cursors, regions, kl_messages, messages_sent,
                   message_count, file, reloaded>>

(* The entry is fuzzed in its turn.                                        *)
LoadKept ==
    /\ pc = "kept" /\ ConstructMessage(file, file_regions, reloaded)
    /\ reloaded' = Append(reloaded,
                          Fread(file, fpos, Size(file_regions[Len(reloaded) + 1])))
    /\ UNCHANGED kl_messages

Reloaded ==
    /\ pc = "kept" /\ Len(reloaded) = Len(file_regions)
    /\ pc' = "reloaded"
    /\ UNCHANGED <<protocol, buf, cursors, regions, lists>>

Done == pc = "reloaded" /\ UNCHANGED vars

Next ==
    \/ EndRequest \/ NextByte
    \/ extract_requests_dns
    \/ SshIdentificationByte \/ SshIdentificationEnd \/ extract_requests_ssh
    \/ extract_requests_tls
    \/ extract_requests_dicom \/ DicomRest
    \/ extract_requests_dtls12 \/ DtlsByte
    \/ EndOfBuffer \/ Return
    \/ construct_kl_messages \/ Loaded \/ Execute
    \/ save_kl_messages_to_file \/ convert_kl_messages_to_regions
    \/ LoadKept \/ Reloaded
    \/ Done

Spec == Init /\ [][Next]_vars

(* The loops run: nothing else happens meanwhile.                          *)
FairSpec == Spec /\ WF_vars(Next)

-----------------------------------------------------------------------------

(* Type correctness of the state of the extractors and of what is saved.   *)
TypeOK ==
    /\ protocol \in Protocols /\ buf \in Seq(Bytes)
    /\ byte_count \in Nat /\ mem \in Seq(Bytes)
    /\ cur_start \in Nat /\ cur_end \in Nat
    /\ regions \in Seq([start_byte : Nat, end_byte : Nat])
    /\ pc \in {"scan", "scanned", "cut", "loaded", "save", "convert", "kept", "reloaded"}
    /\ kl_messages \in Seq(Seq(Bytes)) /\ fpos \in Nat
    /\ messages_sent \in Nat /\ message_count \in Nat
    /\ file \in Seq(Bytes) /\ file_regions \in Seq([start_byte : Int, end_byte : Int])
    /\ reloaded \in Seq(Seq(Bytes))

(* The cursors of the loops over bytes move in step: at the head of every  *)
(* turn the byte to be read is the one at cur_end, and mem holds the bytes *)
(* of the message so far.  The skips of SSH, TLS and DNS move two of them  *)
(* by hand and then give one byte back.                                    *)
CursorsInStep ==
    pc = "scan" /\ byte_count < buf_size /\ protocol \notin {"dicom", "dtls12"} =>
        byte_count = cur_end /\ mem = SubSeq(buf, cur_start + 1, cur_end)

(* The regions of a buffer lie one behind the other from its first byte on, *)
(* none is empty and none overlaps another: M1, M2 and M3 are made of them *)
(* by their order alone, and construct_kl_messages reads the file without  *)
(* looking at start_byte.                                                  *)
RegionsTile ==
    \A i \in DOMAIN regions :
        /\ regions[i].start_byte = IF i = 1 THEN 0 ELSE regions[i - 1].end_byte + 1
        /\ regions[i].start_byte =< regions[i].end_byte

LastByteCut == regions[Len(regions)].end_byte

(* What an extractor returns stays inside the buffer and leaves out no more *)
(* than its last byte, which is lost when a message ends right before it.  *)
(* A DNS query cut short ends up to three bytes behind the last byte.          *)
RegionsCoverBuffer ==
    pc = "cut" =>
        /\ regions # <<>>
        /\ LastByteCut \in buf_size - 2 .. buf_size - 1
              \cup (IF protocol = "dns" THEN buf_size .. buf_size + 2 ELSE {})
        /\ protocol \in {"dicom", "dtls12"} => LastByteCut = buf_size - 1

(* The messages that fuzz_one loads are the regions of the seed, byte for  *)
(* byte; only a DNS query cut short is filled up, with zeros.              *)
MessagesAreRegions ==
    pc = "loaded" =>
        /\ Len(kl_messages) = Len(regions)
        /\ \A i \in DOMAIN regions :
              LET start == regions[i].start_byte IN
              /\ Len(kl_messages[i]) = Size(regions[i])
              /\ \A k \in 1 .. Size(regions[i]) :
                    kl_messages[i][k] =
                        IF start + k =< buf_size THEN Byte(start + k - 1) ELSE 0

(* What an extractor returns cuts the buffer into its messages.            *)
CutSound ==
    TypeOK /\ CursorsInStep /\ RegionsTile /\ RegionsCoverBuffer /\ MessagesAreRegions

(* A queue entry gives back the messages it was saved from, the ones that  *)
(* were sent: the loops that save them and that make regions of them stop  *)
(* at the same message, and agree with construct_kl_messages on where each *)
(* one begins.                                                             *)
SavedMessagesComeBack ==
    pc = "reloaded" =>
        reloaded = SubSeq(kl_messages, 1, Smaller(messages_sent, Len(kl_messages)))

(* An extractor is at work.  It comes to an end, also on lengths near the  *)
(* largest unsigned int, where sums wrap to zero.                          *)
Cutting == pc \in {"scan", "scanned"}
ExtractionEnds == Cutting ~> ~Cutting
=============================================================================
