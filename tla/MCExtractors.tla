---------------------------- MODULE MCExtractors ----------------------------
(***************************************************************************)
(* Buffers for every protocol: all the short ones over the bytes it looks  *)
(* for, or its headers and delimiters strung together and cut off anywhere.*)
(* Responses of a few bytes that tell cases apart.                         *)
(***************************************************************************)
EXTENDS Extraction

(* What at most n of the tokens, one after another, give.                  *)
Strings(tokens, n) ==
    LET f[i \in 0 .. n] == IF i = 0 THEN {<<>>}
                           ELSE {s \o t : s \in f[i - 1], t \in tokens \cup {<<>>}}
    IN  f[n]

Prefixes(strings) == UNION {{SubSeq(s, 1, n) : n \in 1 .. Len(s)} : s \in strings}
Repeat(b, n) == [i \in 1 .. n |-> b]
Singles(bytes) == {<<b>> : b \in bytes}

X == <<88>>

Lines == Strings(Singles({13, 10}) \cup {X}, 5)
TwoLines == {<<88, 88>> \o s : s \in Strings({<<13>>, <<10>>, CRLF \o CRLF, X}, 4)}
DnsQueries == {Repeat(1, 12) \o s : s \in Strings({<<0>>, X, Repeat(1, 12) \o <<0>>}, 4)}
NtpTimes == {Repeat(b, n) : b \in {0, 1}, n \in {47, 48, 49, 69, 70, 71, 121, 122, 123, 140}}
SshBuffers == Strings({<<83, 83, 72, 45, 50, 88>>, CRLF, X}, 4)
    \cup Prefixes(Strings({<<0, 0, 0, 2, 1, 20>>, <<0, 0, 0, 4, 1, 50, 88, 88>>,
                           <<0, 0, 255, 255, 1, 21>>, <<0, 0, 0, 1, 1, 20>>,
                           <<0, 0, 255, 250, 1, 90>>, Repeat(88, 8)}, 3))
TlsBuffers == Prefixes(Strings({<<22, 3, 3, 0, 0>>, <<23, 3, 3, 0, 2, 88, 88>>,
                                <<21, 3, 3, 255, 255>>, X}, 4))
DicomBuffers == Prefixes(Strings({<<1, 0, 0, 0, 0, 0>>, <<2, 0, 0, 0, 0, 2, 88, 88>>,
                                  <<3, 0, 0, 0, 255, 250>>, <<4, 0, 0, 0, 255, 255>>,
                                  <<5, 0, 0, 0, 255, 249>>, X}, 3))
DtlsBuffers == Strings({<<22, 254, 253>>, <<20, 254>>, <<253>>, X}, 5)

MCInputs == {<<p, s>> \in
    ({"tftp", "SNTP", "SNMP"} \X Strings(Singles({0}) \cup {X}, 7))
    \cup ({"dhcp"} \X Strings(Singles({255}) \cup {X}, 7))
    \cup ({"NTP"} \X NtpTimes)
    \cup ({"smtp", "ftp"} \X Lines)
    \cup ({"rtsp", "http"} \X TwoLines)
    \cup ({"sip"} \X Strings({<<13>>, <<10>>, ACK, BYE, X}, 4))
    \cup ({"ipp"} \X Strings({CRLF \o CRLF, <<3>>, POST, X}, 4))
    \cup ({"dns"} \X DnsQueries)
    \cup ({"ssh"} \X SshBuffers) \cup ({"tls"} \X TlsBuffers)
    \cup ({"dicom"} \X DicomBuffers) \cup ({"dtls12"} \X DtlsBuffers)
    : s # <<>>}

-----------------------------------------------------------------------------
(* Responses                                                               *)

\* Bytes of Responses.
CR == 10
LF == 11
Magic == 12
Mark == 13
Version == 14
Text == 15
ApplicationData == 3
HS == 22

MarkedExtractors == {"tftp", "dhcp", "SNTP", "NTP", "SNMP"}

MCResponseExtractors ==
    {"smtp", "ftp", "rtsp", "sip", "http", "ipp", "tls", "dns", "dicom", "dtls12", "ssh"}
        \cup MarkedExtractors

MCAlphabet == [e \in MCResponseExtractors |->
    CASE e \in {"smtp", "ftp"} -> {1, CR, LF, Text}
      [] e \in {"rtsp", "sip", "http"} -> {1, CR, LF, Magic}
      [] e = "ipp" -> {2, CR, LF, Magic}
      [] e \in MarkedExtractors -> {0, 1, Mark}
      [] e = "tls" -> {0, 1, ApplicationData}
      [] e = "dns" -> {0, 1}
      [] e = "dicom" -> {1, 2}
      [] e = "dtls12" -> {0, 1, 2, HS, Version}
      [] e = "ssh" -> {1, 2, LF, Magic}]

MCMaxResponse == [e \in MCResponseExtractors |->
    CASE e \in {"tls", "ipp"} -> 6
      [] e \in {"smtp", "ftp", "rtsp", "sip", "http"} -> 5
      [] e \in {"dtls12", "ssh"} -> 4
      [] e \in MarkedExtractors -> 5
      [] e = "dns" -> 8
      [] OTHER -> 2]
=============================================================================
