---------------------------- MODULE SocksCodec ----------------------------
(***************************************************************************)
(* The parsers and marshalers of socks5.go.  A message arrives byte by     *)
(* byte on a TCP connection; io.ReadFull waits for what is still missing,  *)
(* and SocksConn calls a message complete when its parser has returned.    *)
(* Datagrams are parsed whole.                                             *)
(*                                                                         *)
(* The text of an address, socksAddr.addr, is a record of its form and its *)
(* bytes: how an IP address is printed and read back is what decides which *)
(* bytes an answer has.  The bytes of a name, and of a link-local address  *)
(* printed with its zone ("fe80::1%eth0"), are its characters.             *)
(***************************************************************************)
EXTENDS Naturals, Sequences, SequencesExt

CONSTANTS
  Base,            \* values of a byte, 256
  V4Len,           \* bytes of an IPv4 address, 4
  MappedPrefix,    \* what precedes an IPv4 address mapped into IPv6, 12 bytes
  Version,         \* socks5Version, 5
  Method,          \* the authentication method of the server, 0 or 2
  MaxBytes         \* bound: bytes of a message

ipv4       == 1
domainName == 3
ipv6       == 4
passwordAuthVersion == 1

Byte  == 0 .. Base - 1

ASSUME CodecAssumption ==
  /\ Base \in Nat /\ ipv6 < Base
  /\ V4Len \in Nat \ {0}
  /\ MappedPrefix \in Seq(Byte) \ {<<>>}
  /\ Version \in Byte /\ Method \in Byte

V6Len == Len(MappedPrefix) + V4Len

VARIABLE stream    \* the bytes of a message received so far

(***************************************************************************)
(* What a parser returns on the bytes received: it waits, it fails, or it  *)
(* has used some of them.                                                  *)
(***************************************************************************)
More == [status |-> "more"]
Bad  == [status |-> "bad"]
Ok(used, value) == [status |-> "ok", used |-> used, value |-> value]

Has(s, n)      == Len(s) >= n
Part(s, i, n)  == SubSeq(s, i + 1, i + n)
After(s, n)    == SubSeq(s, n + 1, Len(s))

(***************************************************************************)
(* net.IP: String, ParseIP, To4 and To16; nil is <<>>.  A mapped address   *)
(* is printed as the IPv4 address it stands for, and any IPv4 text is read *)
(* as a mapped address; a text with a zone is not read at all.             *)
(***************************************************************************)
Last4(ip) == After(ip, Len(MappedPrefix))

IPString(ip) ==
  IF Len(ip) = V6Len /\ IsPrefix(MappedPrefix, ip)
    THEN [form |-> "v4", bytes |-> Last4(ip)]
    ELSE [form |-> IF Len(ip) = V4Len THEN "v4" ELSE "v6", bytes |-> ip]

Name(bytes)  == [form |-> "name", bytes |-> bytes]
Zoned(bytes) == [form |-> "zoned", bytes |-> bytes]

ParseIP(text) ==
  CASE text.form = "v4"   -> MappedPrefix \o text.bytes
    [] text.form = "v6"   -> text.bytes
    [] text.form \in {"name", "zoned"} -> <<>>

To4(ip) == IF IsPrefix(MappedPrefix, ip) THEN Last4(ip) ELSE <<>>
To16_Shortest(ip) == IF To4(ip) # <<>> THEN To4(ip) ELSE ip
To16(ip) == ip

(***************************************************************************)
(* socksAddr.                                                              *)
(***************************************************************************)

\* The length of a domain name; it is read whole, however it is segmented.
NameLen_Received(s) == IF Has(s, 4) /\ Len(s) - 4 < s[2] THEN Len(s) - 4 ELSE s[2]
NameLen(s) == s[2]

\* Bytes of DST.ADDR, the length of a name included; s holds them.
AddrLen(s) == CASE s[1] = ipv4       -> V4Len
                [] s[1] = ipv6       -> V6Len
                [] s[1] = domainName -> 1 + NameLen(s)

AddrText(s) ==
  IF s[1] = domainName THEN Name(Part(s, 2, NameLen(s)))
                       ELSE IPString(Part(s, 1, AddrLen(s)))

ParseSocksAddr(s) ==
  CASE ~Has(s, 1) -> More
    [] Has(s, 1) /\ s[1] \notin {ipv4, domainName, ipv6} -> Bad
    [] s[1] = domainName /\ ~Has(s, 2) -> More
    [] OTHER ->
         LET end == 1 + AddrLen(s)
         IN  IF Has(s, end + 2)
               THEN Ok(end + 2, [addrType |-> s[1], addr |-> AddrText(s),
                                 port |-> Base * s[end + 1] + s[end + 2]])
               ELSE More

Encoded(a) ==
  CASE a.addrType = ipv4       -> To4(ParseIP(a.addr))
    [] a.addrType = ipv6       -> To16(ParseIP(a.addr))
    [] a.addrType = domainName -> <<Len(a.addr.bytes)>> \o a.addr.bytes

\* marshal returns an error.
Unmarshalable(a) ==
  IF a.addrType = domainName THEN Len(a.addr.bytes) >= Base ELSE Encoded(a) = <<>>

Marshal(a) == <<a.addrType>> \o Encoded(a) \o <<a.port \div Base, a.port % Base>>

(***************************************************************************)
(* The messages of a client.                                               *)
(***************************************************************************)
ParseClientGreeting(s) ==
  CASE ~Has(s, 2) -> More
    [] Has(s, 2) /\ s[1] # Version -> Bad
    [] OTHER -> LET methods == Part(s, 2, s[2])
                IN  CASE ~Has(s, 2 + s[2]) -> More
                      [] Has(s, 2 + s[2]) /\ Contains(methods, Method) ->
                           Ok(2 + s[2], Method)
                      [] OTHER -> Bad

ParseClientAuth(s) ==
  CASE ~Has(s, 2) -> More
    [] Has(s, 2) /\ s[1] # passwordAuthVersion -> Bad
    [] OTHER -> LET mid == 3 + s[2]
                IN  IF Has(s, mid) /\ Has(s, mid + s[mid])
                      THEN Ok(mid + s[mid], [usr |-> Part(s, 2, s[2]),
                                             pwd |-> Part(s, mid, s[mid])])
                      ELSE More

\* The version and the reserved byte of a request are read, and not looked at.
ParseClientRequest(s) ==
  LET dest == ParseSocksAddr(After(s, 3))
  IN  CASE ~Has(s, 3)           -> More
        [] Has(s, 3) /\ dest.status = "ok" ->
             Ok(3 + dest.used, [command |-> s[2], destination |-> dest.value])
        [] OTHER                -> [status |-> dest.status]

\* A datagram ends where it ends: what would be waited for is an error.  FRAG
\* is returned, and the caller does not look at it.
ParseUDPRequest(d) ==
  LET addr == ParseSocksAddr(After(d, 3))
  IN  IF Has(d, 4) /\ d[1] = 0 /\ d[2] = 0 /\ addr.status = "ok"
        THEN Ok(3 + addr.used, [frag |-> d[3], addr |-> addr.value])
        ELSE Bad

(***************************************************************************)
(* The messages of the server.                                             *)
(***************************************************************************)

\* getAddrType, on the host that splitHostPort has cut out of the LocalAddr of a
\* socket, as an IP address prints or with a zone.
GetAddrType(text) ==
  CASE ParseIP(text) = <<>> -> domainName
    [] To4(ParseIP(text)) # <<>> -> ipv4
    [] OTHER -> ipv6

\* bindAddr of a reply, from the text of a local address.
BindAddr(text, port) == [addrType |-> GetAddrType(text), addr |-> text, port |-> port]

MarshalResponse(reply, bindAddr) == <<Version, reply, 0>> \o Marshal(bindAddr)

\* The datagram that brings data from the target a back to the client.
Answer(a, data) == <<0, 0, 0>> \o Marshal(a) \o data

(***************************************************************************)
(* The arrival of a message.                                               *)
(***************************************************************************)
CodecInit == stream = <<>>

Arrive ==
  /\ Len(stream) < MaxBytes
  /\ \E b \in Byte : stream' = Append(stream, b)

CodecSpec == CodecInit /\ [][Arrive]_stream

(***************************************************************************)
(* Properties.                                                             *)
(***************************************************************************)

\* How TCP cuts a message into segments does not matter: once a parser of the
\* handshake has an outcome, the bytes that come later do not change it, and
\* are left to the next parser.
Outcomes(s) == <<ParseClientGreeting(s), ParseClientAuth(s), ParseClientRequest(s)>>

SegmentationIsInvisible ==
  [][\A i \in 1 .. 3 : LET outcome == Outcomes(stream)[i]
                       IN  outcome.status = "more" \/ Outcomes(stream')[i] = outcome
    ]_stream

\* An answer to a datagram carries, byte for byte, the address the client sent
\* the datagram to, whatever its form was turned into on the way (a mapped
\* IPv6 address is kept as IPv4 text), so the client can tell its targets
\* apart, and the connection cache of the association, keyed by what was
\* parsed, does not mix them.
AnswersEchoTheRequest ==
  LET d == ParseUDPRequest(stream)
  IN  d.status = "ok" =>
        LET a    == d.value.addr
            body == After(stream, d.used)
        IN  ~Unmarshalable(a) /\ Answer(a, body) = <<0, 0, 0>> \o After(stream, 3)

\* The local addresses there are: IP addresses without a zone, and link-local
\* ones with any zone (any characters that a name may have as well).
LocalText(addr) == IF addr.form = "name" THEN Zoned(addr.bytes) ELSE addr

\* What a client is told of one.
Announced(text) == IF text.form = "zoned" THEN Name(text.bytes) ELSE text

\* The address in a reply is that of a local socket in either family.  An IP
\* address without a zone is read by the client as the address it is; one with a
\* zone fits no IPv6 field of a reply, and is read as a domain name spelled like
\* its text, zone included, never as an IP address or as an error.  The port is
\* that of the socket either way.
BoundAddressIsReadable ==
  LET a == ParseSocksAddr(stream)
  IN  a.status = "ok" =>
        LET text  == LocalText(a.value.addr)
            bound == BindAddr(text, a.value.port)
            reply == ParseSocksAddr(After(MarshalResponse(0, bound), 3))
        IN  /\ ~Unmarshalable(bound) /\ reply.status = "ok"
            /\ reply.value = [bound EXCEPT !.addr = Announced(text)]

\* An answer names the address it means: that of a datagram the target the client
\* named, that of a reply the local socket, a link-local one by its text.
AnswersReadBack == AnswersEchoTheRequest /\ BoundAddressIsReadable
=============================================================================
