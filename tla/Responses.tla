----------------------------- MODULE Responses ------------------------------
(***************************************************************************)
(* The extractors of response codes (aflnet.c): each scans what the server *)
(* has sent so far and returns the states it went through.  The response   *)
(* grows with every message, and the extractor runs anew on all of it: the *)
(* result for a shorter response annotates an earlier message.             *)
(*                                                                         *)
(* A step is one iteration of a scan.  Bytes are small numbers and the     *)
(* fields of a protocol are narrower than they are, so that short          *)
(* responses meet every case; the order of the offsets is kept.  What a    *)
(* scan reads behind the response is any byte.                             *)
(***************************************************************************)
EXTENDS Integers, Sequences, SequencesExt, FiniteSetsExt

CONSTANTS
    Extractors,     \* the extractors that are run
    Alphabet,       \* the bytes that tell cases apart, for each of them
    MaxResponse,    \* bound: bytes of a response, for each of them
    Width           \* bound: numbers are taken modulo this, 2^32 in the code

\* Bytes with a meaning of their own; 0 to 9 are themselves, as numbers or digits.
CR == 10
LF == 11
Magic == 12     \* "RTSP/", "SIP/", "HTTP/", "SSH", a content type of DTLS
Mark == 13      \* a byte that tftp, dhcp, NTP, SNTP and SNMP take for the end
Version == 14   \* of DTLS
Text == 15
Address == 16   \* the address of a local buffer, cast to a number

VARIABLES
    extractor,
    response_buf,
    pc,             \* "scan", or "done" and waiting for more
    byte_count,
    mem, mem_count, \* the bytes since the last message; older ones stay behind them
    state_sequence,
    annotation      \* what the extractor said of the response one byte shorter

scanVars == <<pc, byte_count, mem, mem_count, state_sequence>>
vars     == <<extractor, response_buf, annotation, scanVars>>

buf_size == Len(response_buf)
MemSize  == MaxResponse[extractor] + 8

Start ==
    /\ pc' = "scan" /\ byte_count' = 0 /\ mem_count' = 0
    /\ mem' = [i \in 0..MemSize |-> 0]
    /\ state_sequence' = <<0>>

Init ==
    /\ extractor \in Extractors
    /\ response_buf = <<>> /\ annotation = <<>>
    /\ pc = "scan" /\ byte_count = 0 /\ mem_count = 0
    /\ mem = [i \in 0..MemSize |-> 0] /\ state_sequence = <<0>>

\* net_recv appends to the response, and the extractor is called again.
Receive ==
    /\ pc = "done" /\ buf_size < MaxResponse[extractor]
    /\ \E b \in Alphabet[extractor] : response_buf' = Append(response_buf, b)
    /\ annotation' = state_sequence
    /\ Start
    /\ UNCHANGED extractor

\* bound: a scan that goes round in circles is followed for so many codes.
Bounded == Len(state_sequence) <= MaxResponse[extractor] + 1

Scanning(es) == pc = "scan" /\ extractor \in es /\ byte_count < buf_size /\ Bounded

\* The byte at an offset; behind the response is the next one, the 0 that net_recv
\* ends it with, or the heap.
BytesAt(i) == IF i < buf_size THEN {response_buf[i + 1]} ELSE {0} \cup Alphabet[extractor]

Return == pc' = "done" /\ UNCHANGED <<byte_count, mem, mem_count, state_sequence>>

\* The loop ends when the response does.
Finish == pc = "scan" /\ byte_count >= buf_size /\ extractor # "dicom" /\ Return
          /\ UNCHANGED <<extractor, response_buf, annotation>>

Emit(code) == state_sequence' = Append(state_sequence, code)

(***************************************************************************)
(* atoi: blanks, which CR and LF are, then digits.                         *)
(***************************************************************************)
IsDigit(b) == b \in 0..9

\* The number that at most four digits make, as many as are read here.
Number(d) ==
    CASE Len(d) = 0 -> 0
      [] Len(d) = 1 -> d[1]
      [] Len(d) = 2 -> 10 * d[1] + d[2]
      [] Len(d) = 3 -> 100 * d[1] + 10 * d[2] + d[3]
      [] OTHER -> 1000 * d[1] + 100 * d[2] + 10 * d[3] + d[4]

Atoi(s) ==
    LET blank == {CR, LF}
        first == SelectInSeq(s, LAMBDA b : b \notin blank)
        rest  == IF first = 0 THEN <<>> ELSE SubSeq(s, first, Len(s))
        end   == SelectInSeq(rest, LAMBDA b : ~IsDigit(b))
    IN Number(IF end = 0 THEN rest ELSE SubSeq(rest, 1, end - 1))

\* The bytes of the window from an offset, whether this message wrote them or not.
Window(m, at, len) == [i \in 1..len |-> m[at + i - 1]]

(***************************************************************************)
(* Extractors of lines: a line that begins as a status line does has a     *)
(* code at a fixed offset, and a code of 0 ends the scan.                  *)
(***************************************************************************)

\* Mutant: the end of the response ends a line too.
LineEndsWithResponse(m) ==
    \/ mem_count > 0 /\ m[mem_count - 1] = CR /\ m[mem_count] = LF
    \/ byte_count + 1 = buf_size

LineEnds(m) == mem_count > 0 /\ m[mem_count - 1] = CR /\ m[mem_count] = LF

\* Every line of smtp and ftp; lines that begin with the name of the protocol.
AnyLine(m)    == TRUE
StatusLine(m) == mem_count >= 1 /\ m[0] = Magic

NextByte == [mem EXCEPT ![mem_count] = response_buf[byte_count + 1]]

LineCode(code) ==
    IF code = 0 THEN pc' = "done" /\ UNCHANGED <<mem_count, state_sequence>>
    ELSE Emit(code) /\ mem_count' = 0 /\ UNCHANGED pc

ScanLine(e, IsStatusLine(_), code_at) ==
    /\ Scanning({e})
    /\ mem' = NextByte /\ byte_count' = byte_count + 1
    /\ IF LineEnds(NextByte)
       THEN IF IsStatusLine(NextByte) THEN LineCode(Atoi(Window(NextByte, code_at, 3)))
            ELSE mem_count' = 0 /\ UNCHANGED <<pc, state_sequence>>
       ELSE mem_count' = mem_count + 1 /\ UNCHANGED <<pc, state_sequence>>
    /\ UNCHANGED <<extractor, response_buf, annotation>>

extract_response_codes_smtp == ScanLine("smtp", AnyLine, 0)
extract_response_codes_ftp  == ScanLine("ftp", AnyLine, 0)
extract_response_codes_rtsp == ScanLine("rtsp", StatusLine, 2)
extract_response_codes_sip  == ScanLine("sip", StatusLine, 1)
extract_response_codes_http == ScanLine("http", StatusLine, 2)

\* IPP: the header ends with an empty line; the two bytes of the IPP status are read
\* from the response behind it, whether it has them or not.
HeaderEnds(m) ==
    mem_count > 3 /\ Window(m, mem_count - 3, 4) = <<CR, LF, CR, LF>>

HttpOK == 2

extract_response_codes_ipp ==
    /\ Scanning({"ipp"})
    /\ mem' = NextByte /\ byte_count' = byte_count + 1
    /\ LET code == Atoi(Window(NextByte, 1, 1)) IN
       IF HeaderEnds(NextByte)
       THEN IF ~StatusLine(NextByte) THEN mem_count' = 0 /\ UNCHANGED <<pc, state_sequence>>
            ELSE IF code # HttpOK THEN LineCode(code)
            ELSE \E third \in BytesAt(byte_count + 3), fourth \in BytesAt(byte_count + 4) :
                   LineCode(code + 10 * third + fourth)
       ELSE mem_count' = mem_count + 1 /\ UNCHANGED <<pc, state_sequence>>
    /\ UNCHANGED <<extractor, response_buf, annotation>>

(***************************************************************************)
(* Extractors of marked messages: a message ends one byte behind a mark,   *)
(* or with the response, and its code is that of its first bytes.  SNTP,   *)
(* NTP and SNMP cast the address of a local buffer instead.                *)
(***************************************************************************)
FirstBytes(m) == Atoi(Window(m, 0, 4))
Pointer(m)    == Address

ScanMarked(e, least, CodeBehindMark(_), CodeAtEnd(_)) ==
    /\ Scanning({e})
    /\ mem' = NextByte /\ byte_count' = byte_count + 1
    /\ IF mem_count > least /\ NextByte[mem_count - 1] = Mark
       THEN LineCode(CodeBehindMark(NextByte))
       ELSE IF byte_count' = buf_size
            THEN /\ pc' = "done" /\ UNCHANGED mem_count
                 /\ IF CodeAtEnd(NextByte) = 0 THEN UNCHANGED state_sequence
                    ELSE Emit(CodeAtEnd(NextByte))
            ELSE mem_count' = mem_count + 1 /\ UNCHANGED <<pc, state_sequence>>
    /\ UNCHANGED <<extractor, response_buf, annotation>>

extract_response_codes_tftp == ScanMarked("tftp", 0, FirstBytes, FirstBytes)
extract_response_codes_dhcp == ScanMarked("dhcp", 2, FirstBytes, FirstBytes)
extract_response_codes_SNTP == ScanMarked("SNTP", 0, Pointer, FirstBytes)
extract_response_codes_NTP  == ScanMarked("NTP", 0, Pointer, FirstBytes)
extract_response_codes_SNMP == ScanMarked("SNMP", 1, Pointer, Pointer)

(***************************************************************************)
(* Binary protocols                                                        *)
(***************************************************************************)

\* TLS: type, length and message type are in the first bytes of a record, and the
\* code waits for the byte behind them.  The rest of the record is skipped; a length
\* of 0 wraps and skips everything.
ApplicationData == 3
TlsHeader == 3

TlsCode(m) == 20 * m[0] + (IF m[0] = ApplicationData THEN 9 ELSE m[2])

\* Where the next record begins: one byte back, so that none is lost.
NextRecord(at) == IF at < buf_size THEN at - 1 ELSE at

extract_response_codes_tls ==
    /\ Scanning({"tls"})
    /\ mem' = NextByte
    /\ IF mem_count >= TlsHeader
       THEN LET toSkip == (NextByte[1] - 1) % Width
                at     == Min({buf_size, byte_count + 1 + toSkip})
            IN /\ byte_count' = NextRecord(at)
               /\ Emit(TlsCode(NextByte)) /\ mem_count' = 0
       ELSE byte_count' = byte_count + 1 /\ mem_count' = mem_count + 1
            /\ UNCHANGED state_sequence
    /\ UNCHANGED <<extractor, response_buf, annotation, pc>>

\* DNS: the question of the query ends with a zero, some bytes before the answer.
DnsHeader == 3

extract_response_codes_dns ==
    /\ Scanning({"dns"})
    /\ mem' = NextByte
    /\ IF mem_count >= DnsHeader /\ NextByte[mem_count] = 0
       THEN /\ byte_count' = byte_count + 6 /\ mem_count' = 0
            /\ Emit(20 * NextByte[1] + NextByte[2])
       ELSE byte_count' = byte_count + 1 /\ mem_count' = mem_count + 1
            /\ UNCHANGED state_sequence
    /\ UNCHANGED <<extractor, response_buf, annotation, pc>>

\* DICOM: the type of the first PDU, and no state at all without one.
extract_response_codes_dicom ==
    /\ pc = "scan" /\ extractor = "dicom"
    /\ pc' = "done"
    /\ state_sequence' = IF buf_size = 0 THEN <<>> ELSE <<0, response_buf[1]>>
    /\ UNCHANGED <<extractor, response_buf, annotation, byte_count, mem, mem_count>>

\* DTLS 1.2.  The test for a record that is longer than the response compares an
\* unsigned number with 0 and never holds; the cursor moves by the length of the
\* record without its header.
Unknown   == 8
Malformed == 9
CCS == 20
ALERT == 21
HS == 22
APPLICATION == 23
HEARTBEAT == 24
DtlsHeader == 3

\* The shortest content of each type that is in order.
Least(type) == CASE type = CCS -> 1 [] type = ALERT -> 2 [] type = HS -> 2
                 [] type = APPLICATION -> 0 [] type = HEARTBEAT -> 3

\* The message type, or that it cannot be told; a longer content is taken for an
\* encrypted one, and a handshake whose fragment has not the length of its record.
MessageTypes(type, length, at) ==
    CASE length < Least(type) -> {Malformed}
      [] type \in {APPLICATION, HEARTBEAT} /\ length >= Least(type) -> {Unknown}
      [] type = HS /\ length >= Least(HS) ->
           UNION {IF fragment = length - Least(HS) THEN BytesAt(at + DtlsHeader) ELSE {Unknown} :
                    fragment \in BytesAt(at + DtlsHeader + 1)}
      [] type \in {CCS, ALERT} /\ length > Least(type) -> {Unknown}
      [] type \in {CCS, ALERT} /\ length = Least(type) ->
           BytesAt(at + DtlsHeader + length - 1)

IsRecord(at) ==
    /\ buf_size - at > DtlsHeader
    /\ response_buf[at + 1] \in CCS..HEARTBEAT /\ response_buf[at + 2] = Version

extract_response_codes_dtls12 ==
    /\ Scanning({"dtls12"})
    /\ IF IsRecord(byte_count)
       THEN LET type   == response_buf[byte_count + 1]
                length == response_buf[byte_count + DtlsHeader]
            IN /\ \E message \in MessageTypes(type, length, byte_count) :
                    Emit(Width * type + message)
               /\ byte_count' = byte_count + length
       ELSE byte_count' = byte_count + 1 /\ UNCHANGED state_sequence
    /\ UNCHANGED <<extractor, response_buf, annotation, pc, mem, mem_count>>

\* SSH: a packet begins with its length; its first bytes are read with it.  The
\* identification is a line.  Behind the response the scan goes on over what is there,
\* and the comparison with what is left wraps.
SshHeader == 2
InHeader  == 1
MacLength == 1
Identification == 256
IsKeyExchange(code) == code = 2

LineFeeds == {i \in byte_count + SshHeader + 1..buf_size : response_buf[i] = LF}

extract_response_codes_ssh ==
    /\ Scanning({"ssh"})
    /\ \E size \in BytesAt(byte_count), code \in BytesAt(byte_count + 1) :
         LET at     == byte_count + SshHeader
             inside == (size - InHeader) % Width
         IN IF size = Magic
            THEN /\ Emit(Identification)
                 /\ byte_count' = IF LineFeeds = {} THEN Max({at, buf_size}) + 1 ELSE Min(LineFeeds)
                 /\ UNCHANGED pc
            ELSE IF inside > (buf_size - at) % Width
            THEN pc' = "done" /\ byte_count' = at /\ UNCHANGED state_sequence
            ELSE /\ Emit(code)
                 /\ byte_count' = (at + inside + (IF IsKeyExchange(code) THEN 0 ELSE MacLength)) % Width
                 /\ UNCHANGED pc
    /\ UNCHANGED <<extractor, response_buf, annotation, mem, mem_count>>

Scan ==
    \/ extract_response_codes_smtp \/ extract_response_codes_ftp \/ extract_response_codes_rtsp
    \/ extract_response_codes_sip \/ extract_response_codes_http \/ extract_response_codes_ipp
    \/ extract_response_codes_tftp \/ extract_response_codes_dhcp \/ extract_response_codes_SNTP
    \/ extract_response_codes_NTP \/ extract_response_codes_SNMP \/ extract_response_codes_tls
    \/ extract_response_codes_dns \/ extract_response_codes_dicom
    \/ extract_response_codes_dtls12 \/ extract_response_codes_ssh \/ Finish

Next == Receive \/ Scan

\* The extractor runs; whether the server sends more is up to it.
Spec == Init /\ [][Next]_vars /\ WF_vars(Scan)

(***************************************************************************)
(* Properties                                                              *)
(***************************************************************************)

\* The window, the cursor and the codes are of their types; the first code is the
\* initial state, but for DICOM without a response.
TypeOK ==
    /\ extractor \in Extractors /\ pc \in {"scan", "done"}
    /\ response_buf \in Seq(Alphabet[extractor]) /\ buf_size <= MaxResponse[extractor]
    /\ byte_count \in 0..3 * Width /\ mem_count \in 0..MemSize
    /\ DOMAIN mem = 0..MemSize
    /\ \A i \in DOMAIN state_sequence : state_sequence[i] \in Nat
    /\ state_sequence # <<>> => Head(state_sequence) = 0
    /\ state_sequence = <<>> => extractor = "dicom" /\ response_buf = <<>>

\* Extractors whose result for a part of the response is not what the whole begins
\* with: the end of the part counts as the end of a message, or the scan reads on
\* behind it.
Unsteady == {"tftp", "dhcp", "SNTP", "NTP", "SNMP", "ipp", "dtls12", "ssh"}

\* The state sequence that annotates a message is a prefix of those that annotate the
\* later ones: a response that grows only adds states.
AnnotationsGrow ==
    pc = "done" /\ extractor \notin Unsteady => IsPrefix(annotation, state_sequence)

\* Extractors that may scan for ever.
Endless == {"dtls12", "ssh"}

\* A scan that has to end, whatever the server has sent.
Extracting == pc = "scan" /\ extractor \notin Endless
ExtractionEnds == Extracting ~> ~Extracting
=============================================================================
