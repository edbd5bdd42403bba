------------------------- MODULE Conversions_proofs -------------------------
(* What the conversions compute, for every message, list and header: the      *)
(* codec of socks5.go for any width of a byte and of the addresses, the       *)
(* cities and ports of main.go for any PIA_REGIONS, and the pause after a 429 *)
(* for any width of an integer.                                               *)
EXTENDS SocksCodec, CityList, RetryAfter, SequenceTheorems, FiniteSetTheorems, TLAPS

------------------------------------------------------------------------------
\* What io.ReadFull has read of a message.
LEMMA PartProperties ==
  ASSUME NEW s \in Seq(Byte), NEW i \in Nat, NEW n \in Nat, Has(s, i + n)
  PROVE  /\ Part(s, i, n) \in Seq(Byte) /\ Len(Part(s, i, n)) = n
         /\ \A k \in 1 .. n : Part(s, i, n)[k] = s[i + k]
BY DEF Part, Has

\* What it has left of a message.
LEMMA AfterProperties ==
  ASSUME NEW s \in Seq(Byte), NEW n \in Nat, Has(s, n)
  PROVE  /\ After(s, n) \in Seq(Byte) /\ Len(After(s, n)) = Len(s) - n
         /\ \A k \in 1 .. Len(s) - n : After(s, n)[k] = s[n + k]
BY DEF After, Has

\* Sequences of the same bytes are the same.
LEMMA SameSeq ==
  ASSUME NEW s \in Seq(Byte), NEW t \in Seq(Byte), Len(s) = Len(t),
         \A i \in 1 .. Len(s) : s[i] = t[i]
  PROVE  s = t
OBVIOUS

\* One more byte adds to a message and changes nothing of it.
LEMMA Grows ==
  ASSUME NEW s \in Seq(Byte), NEW b \in Byte
  PROVE  /\ Append(s, b) \in Seq(Byte)
         /\ \A n \in Nat : Has(s, n) => Has(Append(s, b), n)
         /\ \A i \in 1 .. Len(s) : Append(s, b)[i] = s[i]
BY DEF Has

\* What has been read of a message stays what it is.
LEMMA PartGrows ==
  ASSUME NEW s \in Seq(Byte), NEW b \in Byte, NEW i \in Nat, NEW n \in Nat,
         Has(s, i + n)
  PROVE  Part(Append(s, b), i, n) = Part(s, i, n)
<1> DEFINE t == Append(s, b)
<1>1. t \in Seq(Byte) /\ Has(t, i + n)
  BY Grows
<1>2. \A k \in 1 .. n : t[i + k] = s[i + k]
  <2>1. \A k \in 1 .. n : i + k \in 1 .. Len(s)
    BY DEF Has
  <2> QED BY <2>1, Grows
<1> HIDE DEF t
<1>3. /\ Part(t, i, n) \in Seq(Byte) /\ Len(Part(t, i, n)) = n
      /\ \A k \in 1 .. n : Part(t, i, n)[k] = t[i + k]
  BY <1>1, PartProperties
<1>4. /\ Part(s, i, n) \in Seq(Byte) /\ Len(Part(s, i, n)) = n
      /\ \A k \in 1 .. n : Part(s, i, n)[k] = s[i + k]
  BY PartProperties
<1>5. Part(t, i, n) = Part(s, i, n)
  BY <1>2, <1>3, <1>4, SameSeq
<1> QED BY <1>5 DEF t

\* What is left of a message grows as the message does.
LEMMA AfterGrows ==
  ASSUME NEW s \in Seq(Byte), NEW b \in Byte, NEW n \in Nat, Has(s, n)
  PROVE  After(Append(s, b), n) = Append(After(s, n), b)
<1> DEFINE t == Append(s, b)
           a == After(s, n)
           l == Len(s) - n
<1>1. t \in Seq(Byte) /\ Has(t, n) /\ Len(t) - n = l + 1 /\ n + (l + 1) = Len(t)
  BY Grows DEF Has
<1>2. l \in Nat /\ n + l = Len(s)
  BY DEF Has
<1>3. a \in Seq(Byte) /\ Len(a) = l /\ \A k \in 1 .. l : a[k] = s[n + k]
  BY AfterProperties
<1>4. \A k \in 1 .. l : t[n + k] = s[n + k]
  <2>1. \A k \in 1 .. l : n + k \in 1 .. Len(s)
    BY <1>2
  <2> QED BY <2>1, Grows
<1>5. t[Len(t)] = b
  OBVIOUS
<1> HIDE DEF t, a, l
<1>6. /\ After(t, n) \in Seq(Byte) /\ Len(After(t, n)) = l + 1
      /\ \A k \in 1 .. l + 1 : After(t, n)[k] = t[n + k]
  BY <1>1, AfterProperties
<1>7. /\ Append(a, b) \in Seq(Byte) /\ Len(Append(a, b)) = l + 1
      /\ Append(a, b)[l + 1] = b
      /\ \A k \in 1 .. l : Append(a, b)[k] = a[k]
  BY <1>2, <1>3
<1>8. \A k \in 1 .. l + 1 : After(t, n)[k] = Append(a, b)[k]
  <2> SUFFICES ASSUME NEW k \in 1 .. l + 1
               PROVE  After(t, n)[k] = Append(a, b)[k]
    OBVIOUS
  <2>1. CASE k = l + 1
    BY <1>1, <1>5, <1>6, <1>7, <2>1
  <2>2. CASE k \in 1 .. l
    BY <1>3, <1>4, <1>6, <1>7, <2>2
  <2>3. l \in Nat
    BY <1>2
  <2>4. k = l + 1 \/ k \in 1 .. l
    BY <2>3
  <2> QED BY <2>1, <2>2, <2>4
<1>9. After(t, n) = Append(a, b)
  BY <1>6, <1>7, <1>8, SameSeq
<1> QED BY <1>9 DEF t, a

\* parseSocksAddr (socks5.go:666-717) does not look past what it has used.
LEMMA AddrStable ==
  ASSUME NEW s \in Seq(Byte), NEW b \in Byte, ParseSocksAddr(s).status # "more"
  PROVE  ParseSocksAddr(Append(s, b)) = ParseSocksAddr(s)
<1> DEFINE t == Append(s, b)
<1>1. Has(s, 1)
  BY DEF ParseSocksAddr, More
<1>2. t[1] = s[1] /\ Has(t, 1)
  BY <1>1, Grows DEF Has
<1>3. CASE s[1] \notin {ipv4, domainName, ipv6}
  BY <1>1, <1>2, <1>3 DEF ParseSocksAddr
<1>4. CASE s[1] \in {ipv4, domainName, ipv6}
  <2> DEFINE end == 1 + AddrLen(s)
  <2>1. s[1] = domainName => Has(s, 2) /\ Has(t, 2) /\ t[2] = s[2] /\ s[2] \in Nat
    <3>1. s[1] = domainName => Has(s, 2)
      BY <1>1, <1>4 DEF ParseSocksAddr, More
    <3>2. Has(s, 2) => Has(t, 2) /\ t[2] = s[2] /\ s[2] \in Byte
      BY Grows DEF Has
    <3>3. s[2] \in Byte => s[2] \in Nat
      BY CodecAssumption DEF Byte
    <3> QED BY <3>1, <3>2, <3>3
  <2>2. AddrLen(s) \in Nat /\ AddrLen(t) = AddrLen(s)
    BY <1>2, <1>4, <2>1, CodecAssumption DEF AddrLen, NameLen, V6Len
  <2>3. Has(s, end + 2)
    BY <1>1, <1>4, <2>1 DEF ParseSocksAddr, More
  <2>4. Has(t, end + 2)
    BY <2>2, <2>3, Grows
  <2>5. Len(s) \in Nat /\ Len(s) >= end + 2
    BY <2>3 DEF Has
  <2>6. t[end + 1] = s[end + 1] /\ t[end + 2] = s[end + 2]
    <3>1. end + 1 \in 1 .. Len(s) /\ end + 2 \in 1 .. Len(s)
      BY <2>2, <2>5
    <3> QED BY <3>1, Grows
  <2>7. AddrText(t) = AddrText(s)
    <3>1. Part(t, 1, AddrLen(s)) = Part(s, 1, AddrLen(s))
      <4>1. Has(s, 1 + AddrLen(s))
        BY <2>2, <2>5 DEF Has
      <4> QED BY <2>2, <4>1, PartGrows
    <3>2. CASE s[1] = domainName
      <4>0. NameLen(s) = s[2] /\ NameLen(t) = s[2]
        BY <2>1, <3>2 DEF NameLen
      <4>1. AddrLen(s) = 1 + s[2]
        BY <4>0, <3>2 DEF AddrLen, ipv4, ipv6, domainName
      <4>2. Has(s, 2 + s[2])
        BY <2>1, <2>5, <3>2, <4>1 DEF Has
      <4>3. Part(t, 2, s[2]) = Part(s, 2, s[2])
        BY <2>1, <3>2, <4>2, PartGrows
      <4> QED BY <1>2, <3>2, <4>0, <4>3 DEF AddrText
    <3>3. CASE s[1] # domainName
      BY <1>2, <2>2, <3>1, <3>3 DEF AddrText
    <3> QED BY <3>2, <3>3
  <2>8. ParseSocksAddr(s) = Ok(end + 2, [addrType |-> s[1], addr |-> AddrText(s),
                                         port |-> Base * s[end + 1] + s[end + 2]])
    BY <1>1, <1>4, <2>1, <2>3 DEF ParseSocksAddr
  <2>9. ParseSocksAddr(t) = Ok(1 + AddrLen(t) + 2,
                               [addrType |-> t[1], addr |-> AddrText(t),
                                port |-> Base * t[1 + AddrLen(t) + 1]
                                           + t[1 + AddrLen(t) + 2]])
    BY <1>2, <1>4, <2>1, <2>2, <2>4 DEF ParseSocksAddr
  <2> QED BY <1>2, <2>2, <2>6, <2>7, <2>8, <2>9
<1> QED BY <1>3, <1>4

\* A byte that has arrived stays what it is, and is a number.
LEMMA ByteGrows ==
  ASSUME NEW s \in Seq(Byte), NEW b \in Byte, NEW n \in Nat \ {0}, Has(s, n)
  PROVE  /\ Has(Append(s, b), n) /\ Append(s, b)[n] = s[n]
         /\ s[n] \in Nat
<1>1. n \in 1 .. Len(s)
  BY DEF Has
<1>2. s[n] \in Byte
  BY <1>1
<1>3. Byte \subseteq Nat
  BY CodecAssumption DEF Byte
<1> QED BY <1>1, <1>2, <1>3, Grows

\* parseClientGreeting does not look past what it has used.
LEMMA GreetingStable ==
  ASSUME NEW s \in Seq(Byte), NEW b \in Byte,
         ParseClientGreeting(s).status # "more"
  PROVE  ParseClientGreeting(Append(s, b)) = ParseClientGreeting(s)
<1> DEFINE t == Append(s, b)
<1>1. /\ \A n \in Nat \ {0} : Has(s, n) => Has(t, n) /\ t[n] = s[n] /\ s[n] \in Nat
      /\ \A i, n \in Nat : Has(s, i + n) => Part(t, i, n) = Part(s, i, n)
  BY ByteGrows, PartGrows
<1> HIDE DEF t
<1>2. Has(s, 2)
  BY DEF ParseClientGreeting, More
<1>3. Has(s, 1)
  BY <1>2 DEF Has
<1>4. Has(t, 2) /\ t[1] = s[1] /\ t[2] = s[2] /\ s[2] \in Nat
  BY <1>1, <1>2, <1>3
<1>5. CASE s[1] # Version
  <2>1. ParseClientGreeting(t) = ParseClientGreeting(s)
    BY <1>2, <1>4, <1>5 DEF ParseClientGreeting
  <2> QED BY <2>1 DEF t
<1>6. CASE s[1] = Version
  <2>1. Has(s, 2 + s[2])
    BY <1>2, <1>6 DEF ParseClientGreeting, More
  <2>2. 2 + s[2] \in Nat \ {0}
    BY <1>4
  <2>3. Has(t, 2 + s[2]) /\ Part(t, 2, s[2]) = Part(s, 2, s[2])
    BY <1>1, <1>4, <2>1, <2>2
  <2>4. ParseClientGreeting(t) = ParseClientGreeting(s)
    BY <1>2, <1>4, <1>6, <2>1, <2>3 DEF ParseClientGreeting
  <2> QED BY <2>4 DEF t
<1> QED BY <1>5, <1>6

\* parseClientAuth does not look past what it has used.
LEMMA AuthStable ==
  ASSUME NEW s \in Seq(Byte), NEW b \in Byte, ParseClientAuth(s).status # "more"
  PROVE  ParseClientAuth(Append(s, b)) = ParseClientAuth(s)
<1> DEFINE t == Append(s, b)
           mid == 3 + s[2]
<1>1. /\ \A n \in Nat \ {0} : Has(s, n) => Has(t, n) /\ t[n] = s[n] /\ s[n] \in Nat
      /\ \A i, n \in Nat : Has(s, i + n) => Part(t, i, n) = Part(s, i, n)
  BY ByteGrows, PartGrows
<1> HIDE DEF t
<1>2. Has(s, 2)
  BY DEF ParseClientAuth, More
<1>3. Has(s, 1)
  BY <1>2 DEF Has
<1>4. Has(t, 2) /\ t[1] = s[1] /\ t[2] = s[2] /\ s[2] \in Nat
  BY <1>1, <1>2, <1>3
<1>5. CASE s[1] # passwordAuthVersion
  <2>1. ParseClientAuth(t) = ParseClientAuth(s)
    BY <1>2, <1>4, <1>5 DEF ParseClientAuth
  <2> QED BY <2>1 DEF t
<1>6. CASE s[1] = passwordAuthVersion
  <2>1. Has(s, mid) /\ Has(s, mid + s[mid])
    BY <1>2, <1>6 DEF ParseClientAuth, More
  <2>2. mid \in Nat \ {0}
    BY <1>4
  <2>3. Has(t, mid) /\ t[mid] = s[mid] /\ s[mid] \in Nat
    BY <1>1, <2>1, <2>2
  <2>4. mid + s[mid] \in Nat \ {0}
    BY <2>2, <2>3
  <2>5. Has(t, mid + s[mid]) /\ Part(t, mid, s[mid]) = Part(s, mid, s[mid])
    BY <1>1, <2>1, <2>2, <2>3, <2>4
  <2>6. Part(t, 2, s[2]) = Part(s, 2, s[2])
    <3>1. Has(s, 2 + s[2])
      BY <1>4, <2>1 DEF Has
    <3> QED BY <1>1, <1>4, <3>1
  <2>7. ParseClientAuth(t) = ParseClientAuth(s)
    BY <1>2, <1>4, <1>6, <2>1, <2>3, <2>5, <2>6 DEF ParseClientAuth
  <2> QED BY <2>7 DEF t
<1> QED BY <1>5, <1>6

\* parseClientRequest does not look past what it has used.
LEMMA RequestStable ==
  ASSUME NEW s \in Seq(Byte), NEW b \in Byte, ParseClientRequest(s).status # "more"
  PROVE  ParseClientRequest(Append(s, b)) = ParseClientRequest(s)
<1> DEFINE t == Append(s, b)
           dest == ParseSocksAddr(After(s, 3))
<1>1. Has(s, 3)
  BY DEF ParseClientRequest, More
<1>2. Has(s, 2)
  BY <1>1 DEF Has
<1>3. Has(t, 3) /\ t[2] = s[2]
  <2>1. \A n \in Nat \ {0} : Has(s, n) => Has(t, n) /\ t[n] = s[n]
    BY ByteGrows
  <2> HIDE DEF t
  <2> QED BY <1>1, <1>2, <2>1
<1>4. After(s, 3) \in Seq(Byte) /\ After(t, 3) = Append(After(s, 3), b)
  BY <1>1, AfterProperties, AfterGrows
<1>5. dest.status # "more"
  BY <1>1 DEF ParseClientRequest
<1>6. ParseSocksAddr(After(t, 3)) = dest
  BY <1>4, <1>5, AddrStable
<1> HIDE DEF t, dest
<1>7. /\ ParseClientRequest(s) = IF dest.status = "ok"
           THEN Ok(3 + dest.used, [command |-> s[2], destination |-> dest.value])
           ELSE [status |-> dest.status]
      /\ ParseClientRequest(t) = IF dest.status = "ok"
           THEN Ok(3 + dest.used, [command |-> t[2], destination |-> dest.value])
           ELSE [status |-> dest.status]
  BY <1>1, <1>3, <1>6 DEF ParseClientRequest, dest
<1>8. ParseClientRequest(t) = ParseClientRequest(s)
  BY <1>3, <1>7
<1> QED BY <1>8 DEF t

\* A message is bytes.
LEMMA StreamCorrect == CodecSpec => [](stream \in Seq(Byte))
<1>1. CodecInit => stream \in Seq(Byte)
  BY DEF CodecInit
<1>2. stream \in Seq(Byte) /\ [Arrive]_stream => (stream \in Seq(Byte))'
  BY DEF Arrive
<1> QED BY <1>1, <1>2, PTL DEF CodecSpec

\* However TCP segments a message of the handshake, its parser has the same
\* outcome and leaves the same bytes to the next one (socks5.go:576-656).
THEOREM Stable == CodecSpec => SegmentationIsInvisible
<1> DEFINE Same == \A i \in 1 .. 3 :
                     LET outcome == Outcomes(stream)[i]
                     IN  outcome.status = "more" \/ Outcomes(stream')[i] = outcome
<1>1. stream \in Seq(Byte) /\ [Arrive]_stream => [Same]_stream
  <2> SUFFICES ASSUME stream \in Seq(Byte), Arrive PROVE Same
    OBVIOUS
  <2>1. PICK b \in Byte : stream' = Append(stream, b)
    BY DEF Arrive
  <2>2. \/ ParseClientGreeting(stream).status = "more"
        \/ ParseClientGreeting(stream') = ParseClientGreeting(stream)
    BY <2>1, GreetingStable
  <2>3. \/ ParseClientAuth(stream).status = "more"
        \/ ParseClientAuth(stream') = ParseClientAuth(stream)
    BY <2>1, AuthStable
  <2>4. \/ ParseClientRequest(stream).status = "more"
        \/ ParseClientRequest(stream') = ParseClientRequest(stream)
    BY <2>1, RequestStable
  <2> QED BY <2>2, <2>3, <2>4 DEF Outcomes
<1> QED BY <1>1, StreamCorrect, PTL DEF CodecSpec, SegmentationIsInvisible

\* The two families of address differ in their length.
LEMMA Widths ==
  /\ Len(MappedPrefix) \in Nat \ {0} /\ MappedPrefix \in Seq(Byte)
  /\ V4Len \in Nat \ {0} /\ V6Len \in Nat \ {0} /\ V4Len # V6Len
<1>1. MappedPrefix \in Seq(Byte) /\ MappedPrefix # <<>>
  BY CodecAssumption
<1>2. Len(MappedPrefix) \in Nat \ {0}
  BY <1>1, EmptySeq
<1> QED BY <1>1, <1>2, CodecAssumption DEF V6Len

\* An IPv4 text is read as a mapped address, which is an IPv4 address again.
LEMMA MappedText ==
  ASSUME NEW p \in Seq(Byte)
  PROVE  To4(MappedPrefix \o p) = p
<1> DEFINE m == Len(MappedPrefix)
           ip == MappedPrefix \o p
<1>1. MappedPrefix \in Seq(Byte) /\ m \in Nat \ {0} /\ Len(p) \in Nat
  BY Widths, LenProperties
<1>2. ip \in Seq(Byte) /\ Len(ip) = m + Len(p)
  BY <1>1, ConcatProperties
<1>3. SubSeq(ip, 1, m) = SubSeq(MappedPrefix, 1, m)
  <2>1. /\ SubSeq(ip, 1, m) \in Seq(Byte) /\ Len(SubSeq(ip, 1, m)) = m
        /\ \A i \in 1 .. m : SubSeq(ip, 1, m)[i] = ip[i]
    BY <1>1, <1>2
  <2>2. /\ SubSeq(MappedPrefix, 1, m) \in Seq(Byte)
        /\ Len(SubSeq(MappedPrefix, 1, m)) = m
        /\ \A i \in 1 .. m : SubSeq(MappedPrefix, 1, m)[i] = MappedPrefix[i]
    BY <1>1
  <2>3. \A i \in 1 .. m : ip[i] = MappedPrefix[i]
    BY <1>1, ConcatProperties
  <2> QED BY <2>1, <2>2, <2>3, SameSeq
<1>4. IsPrefix(MappedPrefix, ip)
  BY <1>1, <1>2, <1>3 DEF IsPrefix
<1>5. After(ip, m) = p
  <2>1. Has(ip, m) /\ Len(ip) - m = Len(p)
    BY <1>1, <1>2 DEF Has
  <2>2. /\ After(ip, m) \in Seq(Byte) /\ Len(After(ip, m)) = Len(p)
        /\ \A i \in 1 .. Len(p) : After(ip, m)[i] = ip[m + i]
    BY <1>1, <1>2, <2>1, AfterProperties
  <2>3. \A i \in 1 .. Len(p) : ip[m + i] = p[i]
    BY <1>1, ConcatProperties
  <2> QED BY <2>2, <2>3, SameSeq
<1> QED BY <1>4, <1>5 DEF To4, Last4

\* A mapped address is its prefix and the address it stands for.
LEMMA MappedAddress ==
  ASSUME NEW q \in Seq(Byte), Len(q) = V6Len, IsPrefix(MappedPrefix, q)
  PROVE  /\ MappedPrefix \o Last4(q) = q
         /\ Last4(q) \in Seq(Byte) /\ Len(Last4(q)) = V4Len
<1> DEFINE m == Len(MappedPrefix)
<1>1. /\ MappedPrefix \in Seq(Byte) /\ m \in Nat \ {0} /\ V4Len \in Nat \ {0}
      /\ Len(q) = m + V4Len
  BY Widths DEF V6Len
<1>2. SubSeq(q, 1, m) = MappedPrefix
  BY <1>1, SubSeqFull DEF IsPrefix
<1>3. SubSeq(q, 1, m) \o SubSeq(q, m + 1, Len(q)) = SubSeq(q, 1, Len(q))
  <2>1. /\ 1 \in 1 .. Len(q) + 1 /\ m \in 1 - 1 .. Len(q)
        /\ Len(q) \in m .. Len(q)
    BY <1>1
  <2> HIDE DEF m
  <2> QED BY <2>1, ConcatAdjacentSubSeq
<1>4. SubSeq(q, 1, Len(q)) = q
  BY SubSeqFull
<1>5. After(q, m) \in Seq(Byte) /\ Len(After(q, m)) = V4Len
  <2>1. Has(q, m) /\ Len(q) - m = V4Len
    BY <1>1 DEF Has
  <2> QED BY <1>1, <2>1, AfterProperties
<1> QED BY <1>2, <1>3, <1>4, <1>5 DEF Last4, After

\* What the parser has of a complete address.
Received(s) ==
  /\ Has(s, 1) /\ s[1] \in {ipv4, domainName, ipv6}
  /\ s[1] = domainName => Has(s, 2)
  /\ Has(s, 1 + AddrLen(s) + 2)

ReceivedAddr(s) ==
  [addrType |-> s[1], addr |-> AddrText(s),
   port |-> Base * s[1 + AddrLen(s) + 1] + s[1 + AddrLen(s) + 2]]

\* A parsed address was complete, and is the one received.
LEMMA OkMeansReceived ==
  ASSUME NEW s \in Seq(Byte), ParseSocksAddr(s).status = "ok"
  PROVE  /\ Received(s) /\ AddrLen(s) \in Nat \ {0}
         /\ ParseSocksAddr(s) = Ok(1 + AddrLen(s) + 2, ReceivedAddr(s))
<1>1. Has(s, 1)
  BY DEF ParseSocksAddr, More
<1>2. s[1] \in {ipv4, domainName, ipv6}
  BY <1>1 DEF ParseSocksAddr, Bad
<1>3. s[1] = domainName => Has(s, 2)
  BY <1>1, <1>2 DEF ParseSocksAddr, More
<1>4. Has(s, 1 + AddrLen(s) + 2)
  BY <1>1, <1>2, <1>3 DEF ParseSocksAddr, More
<1>5. Has(s, 2) => s[2] \in Nat
  <2>1. Has(s, 2) => s[2] \in Byte
    BY DEF Has
  <2> QED BY <2>1, CodecAssumption DEF Byte
<1>6. AddrLen(s) \in Nat \ {0}
  BY <1>2, <1>3, <1>5, Widths DEF AddrLen, NameLen
<1>7. ParseSocksAddr(s) = Ok(1 + AddrLen(s) + 2, ReceivedAddr(s))
  BY <1>1, <1>2, <1>3, <1>4 DEF ParseSocksAddr, ReceivedAddr
<1> QED BY <1>1, <1>2, <1>3, <1>4, <1>6, <1>7 DEF Received

\* The bytes of an IPv4 address.
LEMMA ReadBack4 ==
  ASSUME NEW p \in Seq(Byte), Len(p) = V4Len
  PROVE  To4(ParseIP(IPString(p))) = p /\ p # <<>>
<1>1. IPString(p) = [form |-> "v4", bytes |-> p]
  BY Widths DEF IPString
<1>2. ParseIP(IPString(p)) = MappedPrefix \o p
  BY <1>1 DEF ParseIP
<1> QED BY <1>2, MappedText, Widths

\* The bytes of an IPv6 address, mapped or not.
LEMMA ReadBack6 ==
  ASSUME NEW q \in Seq(Byte), Len(q) = V6Len
  PROVE  To16(ParseIP(IPString(q))) = q /\ q # <<>>
<1>1. CASE IsPrefix(MappedPrefix, q)
  <2>1. IPString(q) = [form |-> "v4", bytes |-> Last4(q)]
    BY <1>1 DEF IPString
  <2>2. ParseIP(IPString(q)) = MappedPrefix \o Last4(q)
    BY <2>1 DEF ParseIP
  <2> QED BY <1>1, <2>2, MappedAddress, Widths DEF To16
<1>2. CASE ~IsPrefix(MappedPrefix, q)
  <2>1. IPString(q) = [form |-> "v6", bytes |-> q]
    BY <1>2, Widths DEF IPString
  <2>2. ParseIP(IPString(q)) = q
    BY <2>1 DEF ParseIP
  <2> QED BY <2>2, Widths DEF To16
<1> QED BY <1>1, <1>2

\* The bytes of an address, printed and read back, are those received.
LEMMA EncodedAsReceived ==
  ASSUME NEW s \in Seq(Byte), Received(s), AddrLen(s) \in Nat \ {0}
  PROVE  /\ Encoded(ReceivedAddr(s)) = Part(s, 1, AddrLen(s))
         /\ ~Unmarshalable(ReceivedAddr(s))
<1> DEFINE a == ReceivedAddr(s)
           n == AddrLen(s)
           p == Part(s, 1, n)
<1>1. Has(s, 1 + n)
  BY DEF Received, Has
<1>2. p \in Seq(Byte) /\ Len(p) = n
  BY <1>1, PartProperties
<1>3. a.addrType = s[1] /\ a.addr = AddrText(s)
  BY DEF ReceivedAddr
<1> HIDE DEF a
<1>4. CASE s[1] = ipv4
  <2>1. n = V4Len /\ a.addr = IPString(p)
    BY <1>3, <1>4 DEF AddrLen, AddrText, ipv4, ipv6, domainName
  <2>2. To4(ParseIP(a.addr)) = p /\ p # <<>>
    BY <1>2, <2>1, ReadBack4
  <2>3. Encoded(a) = p
    BY <1>3, <1>4, <2>2 DEF Encoded, ipv4, ipv6, domainName
  <2> QED BY <1>3, <1>4, <2>2, <2>3 DEF Unmarshalable, ipv4, domainName, a
<1>5. CASE s[1] = ipv6
  <2>1. n = V6Len /\ a.addr = IPString(p)
    BY <1>3, <1>5 DEF AddrLen, AddrText, ipv4, ipv6, domainName
  <2>2. To16(ParseIP(a.addr)) = p /\ p # <<>>
    BY <1>2, <2>1, ReadBack6
  <2>3. Encoded(a) = p
    BY <1>3, <1>5, <2>2 DEF Encoded, ipv4, ipv6, domainName
  <2> QED BY <1>3, <1>5, <2>2, <2>3 DEF Unmarshalable, ipv6, domainName, a
<1>6. CASE s[1] = domainName
  <2> DEFINE name == Part(s, 2, s[2])
  <2>1. s[2] \in Byte /\ s[2] \in Nat /\ s[2] < Base /\ 2 \in 1 .. Len(s)
    <3>1. s[2] \in Byte /\ 2 \in 1 .. Len(s)
      BY <1>6 DEF Received, Has
    <3> QED BY <3>1, CodecAssumption DEF Byte
  <2>2. n = 1 + s[2] /\ a.addr = Name(name)
    BY <1>3, <1>6 DEF AddrLen, AddrText, NameLen, ipv4, ipv6, domainName
  <2>3. Has(s, 2 + s[2])
    BY <1>1, <2>1, <2>2 DEF Has
  <2>4. name \in Seq(Byte) /\ Len(name) = s[2]
    BY <2>1, <2>3, PartProperties
  <2>5. Encoded(a) = <<s[2]>> \o name
    BY <1>3, <1>6, <2>2, <2>4 DEF Encoded, Name, ipv4, ipv6, domainName
  <2>6. <<s[2]>> \o name = p
    <3>1. 2 + s[2] \in 2 .. Len(s)
      BY <2>1, <2>3 DEF Has
    <3>2. SubSeq(s, 2, 2 + s[2]) = <<s[2]>> \o SubSeq(s, 2 + 1, 2 + s[2])
      BY <2>1, <3>1, SubSeqRecursiveFirst
    <3>3. p = SubSeq(s, 2, 2 + s[2]) /\ name = SubSeq(s, 2 + 1, 2 + s[2])
      BY <2>1, <2>2 DEF Part
    <3> QED BY <3>2, <3>3
  <2>7. ~Unmarshalable(a)
    BY <1>3, <1>6, <2>1, <2>2, <2>4, CodecAssumption DEF Unmarshalable, Name
  <2> QED BY <2>5, <2>6, <2>7 DEF a
<1> QED BY <1>4, <1>5, <1>6 DEF Received

\* Two bytes of a port, written and read.
LEMMA PortBytes ==
  ASSUME NEW base \in Nat, NEW hi \in 0 .. base - 1, NEW lo \in 0 .. base - 1
  PROVE  /\ (base * hi + lo) \div base = hi
         /\ (base * hi + lo) % base = lo
<1>1. base \in Nat \ {0} /\ hi \in Nat /\ lo \in Nat /\ lo < base
  OBVIOUS
<1>2. base * hi \in Nat /\ base * hi + lo \in Nat
  BY <1>1
<1> DEFINE v == base * hi + lo
<1>3. v \div base \in Int /\ v % base \in 0 .. base - 1 /\ v = base * (v \div base) + (v % base)
  BY <1>1, <1>2
<1>4. \A q \in Int, r \in 0 .. base - 1 : base * q + r = base * hi + lo => q = hi
  <2> SUFFICES ASSUME NEW q \in Int, NEW r \in 0 .. base - 1,
                      base * q + r = base * hi + lo
               PROVE  q = hi
    OBVIOUS
  <2>1. base * (q - hi) = lo - r
    BY <1>1
  <2>2. CASE q > hi
    <3>1. base * (q - hi) >= base
      BY <1>1, <2>2
    <3> QED BY <2>1, <3>1, <1>1
  <2>3. CASE q < hi
    <3>1. base * (q - hi) <= -base
      BY <1>1, <2>3
    <3> QED BY <2>1, <3>1, <1>1
  <2> QED BY <2>2, <2>3, <1>1
<1>5. v \div base = hi
  BY <1>2, <1>3, <1>4
<1>6. v % base = lo
  BY <1>3, <1>5, <1>1
<1> QED BY <1>5, <1>6

\* The parts of a type, an address and a port put together.
LEMMA PiecesOf ==
  ASSUME NEW t \in Byte, NEW e \in Seq(Byte), NEW hi \in Byte, NEW lo \in Byte
  PROVE  LET w == <<t>> \o e \o <<hi, lo>>
         IN  /\ w \in Seq(Byte) /\ Len(w) = 3 + Len(e) /\ w[1] = t
             /\ Part(w, 1, Len(e)) = e
             /\ w[Len(e) + 2] = hi /\ w[Len(e) + 3] = lo
<1> DEFINE x == <<t>>
           z == <<hi, lo>>
           xy == x \o e
           w == xy \o z
           n == Len(e)
<1>1. /\ x \in Seq(Byte) /\ Len(x) = 1 /\ x[1] = t
      /\ z \in Seq(Byte) /\ Len(z) = 2 /\ z[1] = hi /\ z[2] = lo /\ n \in Nat
  OBVIOUS
<1> HIDE DEF x, z
<1>3. /\ xy \in Seq(Byte) /\ Len(xy) = Len(x) + Len(e)
      /\ \A i \in 1 .. Len(x) + Len(e) :
           xy[i] = IF i <= Len(x) THEN x[i] ELSE e[i - Len(x)]
  <2>1. x \in Seq(Byte)
    BY <1>1
  <2> QED BY ONLY <2>1, e \in Seq(Byte), ConcatProperties
<1> HIDE DEF xy
<1>5. /\ w \in Seq(Byte) /\ Len(w) = Len(xy) + Len(z)
      /\ \A i \in 1 .. Len(xy) + Len(z) :
           w[i] = IF i <= Len(xy) THEN xy[i] ELSE z[i - Len(xy)]
  <2>1. xy \in Seq(Byte) /\ z \in Seq(Byte)
    BY <1>1, <1>3
  <2> QED BY ONLY <2>1, ConcatProperties
<1> HIDE DEF w, n
<1>6. /\ Len(w) = 3 + n /\ Len(xy) = 1 + n /\ Len(e) = n /\ n \in Nat
  BY <1>1, <1>3, <1>5 DEF n
<1>7. w[1] = t /\ w[n + 2] = hi /\ w[n + 3] = lo
  <2>1. w[1] = xy[1] /\ xy[1] = x[1]
    BY <1>1, <1>3, <1>5, <1>6
  <2>2. w[n + 2] = z[1] /\ w[n + 3] = z[2]
    <3>1. /\ n + 2 \in 1 .. Len(xy) + Len(z) /\ n + 3 \in 1 .. Len(xy) + Len(z)
          /\ ~(n + 2 <= Len(xy)) /\ ~(n + 3 <= Len(xy))
          /\ n + 2 - Len(xy) = 1 /\ n + 3 - Len(xy) = 2
      BY <1>1, <1>6
    <3>2. ASSUME NEW i \in 1 .. Len(xy) + Len(z), NEW j,
                 ~(i <= Len(xy)), i - Len(xy) = j
          PROVE  w[i] = z[j]
      BY <1>5, <3>2
    <3> QED BY <1>1, <1>6, <3>1, <3>2
  <2> QED BY <1>1, <2>1, <2>2
<1>8. Part(w, 1, n) = e
  <2>1. Has(w, 1 + n)
    BY <1>6 DEF Has
  <2>2. /\ Part(w, 1, n) \in Seq(Byte) /\ Len(Part(w, 1, n)) = n
        /\ \A k \in 1 .. n : Part(w, 1, n)[k] = w[1 + k]
    <3>1. w \in Seq(Byte) /\ 1 \in Nat /\ n \in Nat
      BY <1>5, <1>6
    <3> QED BY ONLY <3>1, <2>1, PartProperties
  <2>3. \A k \in 1 .. n : w[1 + k] = e[k]
    BY <1>1, <1>3, <1>5, <1>6
  <2> QED BY <1>6, <2>2, <2>3, SameSeq
<1>9. /\ w \in Seq(Byte) /\ Len(w) = 3 + n /\ w[1] = t
      /\ Part(w, 1, n) = e /\ w[n + 2] = hi /\ w[n + 3] = lo
  BY <1>5, <1>6, <1>7, <1>8
<1> QED BY <1>9 DEF w, xy, x, z, n

\* Type, address and port, put together again.
LEMMA ThreePieces ==
  ASSUME NEW s \in Seq(Byte), NEW n \in Nat, Has(s, 3 + n)
  PROVE  <<s[1]>> \o Part(s, 1, n) \o <<s[n + 2], s[n + 3]>> = Part(s, 0, 3 + n)
<1> DEFINE y == Part(s, 1, n)
           u == <<s[1]>> \o y \o <<s[n + 2], s[n + 3]>>
           w == Part(s, 0, 3 + n)
<1>1. s[1] \in Byte /\ s[n + 2] \in Byte /\ s[n + 3] \in Byte
  <2>1. 1 \in 1 .. Len(s) /\ n + 2 \in 1 .. Len(s) /\ n + 3 \in 1 .. Len(s)
    BY DEF Has
  <2> QED BY <2>1
<1>2. /\ y \in Seq(Byte) /\ Len(y) = n /\ \A k \in 1 .. n : y[k] = s[1 + k]
  <2>1. Has(s, 1 + n) /\ 1 \in Nat
    BY DEF Has
  <2> QED BY ONLY <2>1, s \in Seq(Byte), n \in Nat, PartProperties
<1>3. /\ w \in Seq(Byte) /\ Len(w) = 3 + n /\ \A k \in 1 .. 3 + n : w[k] = s[k]
  <2>1. 3 + n \in Nat /\ Has(s, 0 + (3 + n))
    BY DEF Has
  <2>2. /\ w \in Seq(Byte) /\ Len(w) = 3 + n
        /\ \A k \in 1 .. 3 + n : w[k] = s[0 + k]
    BY <2>1, PartProperties
  <2> QED BY <2>2
<1> HIDE DEF y
<1>4. /\ u \in Seq(Byte) /\ Len(u) = 3 + n /\ u[1] = s[1]
      /\ Part(u, 1, n) = y /\ u[n + 2] = s[n + 2] /\ u[n + 3] = s[n + 3]
  <2>1. y \in Seq(Byte) /\ Len(y) = n
    BY <1>2
  <2>2. /\ u \in Seq(Byte) /\ Len(u) = 3 + Len(y) /\ u[1] = s[1]
        /\ Part(u, 1, Len(y)) = y
        /\ u[Len(y) + 2] = s[n + 2] /\ u[Len(y) + 3] = s[n + 3]
    BY ONLY <1>1, <2>1, PiecesOf
  <2> HIDE DEF u
  <2> QED BY <2>1, <2>2
<1> HIDE DEF u, w
<1>5. \A k \in 1 .. n : u[1 + k] = s[1 + k]
  <2>1. Has(u, 1 + n)
    BY <1>4 DEF Has
  <2>2. \A k \in 1 .. n : Part(u, 1, n)[k] = u[1 + k]
    BY <1>4, <2>1, PartProperties
  <2> QED BY <1>2, <1>4, <2>2
<1>6. \A i \in 1 .. 3 + n : u[i] = w[i]
  <2> SUFFICES ASSUME NEW i \in 1 .. 3 + n PROVE u[i] = w[i]
    OBVIOUS
  <2>1. w[i] = s[i]
    BY <1>3
  <2>2. CASE i = 1 \/ i = n + 2 \/ i = n + 3
    BY <1>4, <2>1, <2>2
  <2>3. ASSUME NEW k \in 1 .. n, i = 1 + k
        PROVE  u[i] = w[i]
    BY <1>5, <2>1, <2>3
  <2>4. \/ i = 1 \/ i = n + 2 \/ i = n + 3
        \/ \E k \in 1 .. n : i = 1 + k
    <3>1. i - 1 \in 1 .. n => i = 1 + (i - 1)
      OBVIOUS
    <3>2. i = 1 \/ i = n + 2 \/ i = n + 3 \/ i - 1 \in 1 .. n
      OBVIOUS
    <3> QED BY <3>1, <3>2
  <2> QED BY <2>2, <2>3, <2>4
<1>7. u = w
  BY <1>3, <1>4, <1>6, SameSeq
<1> QED BY <1>7 DEF u, w, y

\* marshal (socks5.go:719-747) writes an address that was parsed as it came.
LEMMA MarshalAsReceived ==
  ASSUME NEW s \in Seq(Byte), Received(s), AddrLen(s) \in Nat \ {0}
  PROVE  Marshal(ReceivedAddr(s)) = Part(s, 0, 3 + AddrLen(s))
<1> DEFINE n == AddrLen(s)
           a == ReceivedAddr(s)
<1>1. n \in Nat /\ Len(s) \in Nat /\ 3 + n <= Len(s) /\ Has(s, 3 + n)
  BY DEF Received, Has
<1>2. Encoded(a) = Part(s, 1, n)
  BY EncodedAsReceived
<1>3. /\ a.addrType = s[1]
      /\ a.port = Base * s[1 + n + 1] + s[1 + n + 2]
  BY DEF ReceivedAddr
<1> HIDE DEF a, n
<1>4. a.port = Base * s[n + 2] + s[n + 3]
  <2>1. 1 + n + 1 = n + 2 /\ 1 + n + 2 = n + 3
    BY <1>1
  <2> QED BY <1>3, <2>1
<1>5. s[n + 2] \in 0 .. Base - 1 /\ s[n + 3] \in 0 .. Base - 1
  <2>1. n + 2 \in 1 .. Len(s) /\ n + 3 \in 1 .. Len(s)
    BY <1>1
  <2>2. s[n + 2] \in Byte /\ s[n + 3] \in Byte
    BY <2>1
  <2> QED BY <2>2 DEF Byte
<1>6. a.port \div Base = s[n + 2] /\ a.port % Base = s[n + 3]
  <2>1. Base \in Nat
    BY CodecAssumption
  <2>2. /\ (Base * s[n + 2] + s[n + 3]) \div Base = s[n + 2]
        /\ (Base * s[n + 2] + s[n + 3]) % Base = s[n + 3]
    BY <2>1, <1>5, PortBytes
  <2> QED BY <1>4, <2>2
<1>7. Marshal(a) = <<s[1]>> \o Part(s, 1, n) \o <<s[n + 2], s[n + 3]>>
  BY <1>2, <1>3, <1>6 DEF Marshal
<1>8. Marshal(a) = Part(s, 0, 3 + n)
  BY <1>1, <1>7, ThreePieces
<1> QED BY <1>8 DEF a, n

\* Reading in two steps reads the same.
LEMMA AfterAfter ==
  ASSUME NEW s \in Seq(Byte), NEW m \in Nat, NEW n \in Nat, Has(s, m + n)
  PROVE  After(After(s, m), n) = After(s, m + n)
<1> DEFINE u == After(s, m)
           l == Len(s) - (m + n)
<1>1. l \in Nat /\ Has(s, m) /\ Len(s) - m - n = l
  BY DEF Has
<1>2. u \in Seq(Byte) /\ Len(u) = Len(s) - m /\ \A k \in 1 .. Len(s) - m : u[k] = s[m + k]
  BY <1>1, AfterProperties
<1>3. /\ After(s, m + n) \in Seq(Byte) /\ Len(After(s, m + n)) = l
      /\ \A k \in 1 .. l : After(s, m + n)[k] = s[m + n + k]
  <2>1. m + n \in Nat
    OBVIOUS
  <2> QED BY ONLY <2>1, s \in Seq(Byte), Has(s, m + n), AfterProperties
<1>4. Has(u, n) /\ Len(u) - n = l
  BY <1>1, <1>2 DEF Has
<1> HIDE DEF u, l
<1>5. /\ After(u, n) \in Seq(Byte) /\ Len(After(u, n)) = l
      /\ \A k \in 1 .. l : After(u, n)[k] = u[n + k]
  BY <1>2, <1>4, AfterProperties
<1>6. \A k \in 1 .. l : After(u, n)[k] = After(s, m + n)[k]
  <2> SUFFICES ASSUME NEW k \in 1 .. l
               PROVE  After(u, n)[k] = After(s, m + n)[k]
    OBVIOUS
  <2>1. n + k \in 1 .. Len(s) - m /\ m + (n + k) = m + n + k
    BY <1>1 DEF Has
  <2> QED BY <1>2, <1>3, <1>5, <2>1
<1>7. After(u, n) = After(s, m + n)
  BY <1>3, <1>5, <1>6, SameSeq
<1> QED BY <1>7 DEF u

\* A sequence is its first n elements and the others.
LEMMA Cut ==
  ASSUME NEW s \in Seq(Byte), NEW n \in Nat, Has(s, n)
  PROVE  Part(s, 0, n) \o After(s, n) = s
<1>1. Len(s) \in Nat /\ n <= Len(s)
  BY DEF Has
<1>2. /\ 1 \in 1 .. Len(s) + 1 /\ n \in 1 - 1 .. Len(s)
      /\ Len(s) \in n .. Len(s)
  BY <1>1
<1>3. SubSeq(s, 1, n) \o SubSeq(s, n + 1, Len(s)) = SubSeq(s, 1, Len(s))
  BY <1>2, ConcatAdjacentSubSeq
<1>4. Part(s, 0, n) = SubSeq(s, 1, n)
  BY DEF Part
<1> QED BY <1>3, <1>4, SubSeqFull DEF After

\* The answer to a datagram has the header of the datagram.
LEMMA Echo ==
  ASSUME stream \in Seq(Byte)
  PROVE  AnswersEchoTheRequest
<1> DEFINE d == ParseUDPRequest(stream)
           r == After(stream, 3)
           n == AddrLen(r)
           a == ReceivedAddr(r)
<1> SUFFICES ASSUME d.status = "ok"
             PROVE  /\ ~Unmarshalable(d.value.addr)
                    /\ Answer(d.value.addr, After(stream, d.used))
                         = <<0, 0, 0>> \o After(stream, 3)
  BY DEF AnswersEchoTheRequest
<1>1. Has(stream, 4) /\ ParseSocksAddr(r).status = "ok"
  BY DEF ParseUDPRequest, Bad
<1>2. Has(stream, 3)
  BY <1>1 DEF Has
<1>3. r \in Seq(Byte) /\ Len(r) = Len(stream) - 3
  BY <1>2, AfterProperties
<1>4. /\ Received(r) /\ n \in Nat \ {0}
      /\ ParseSocksAddr(r) = Ok(1 + n + 2, a)
  BY <1>1, <1>3, OkMeansReceived
<1>5. d = Ok(3 + (1 + n + 2), [frag |-> stream[3], addr |-> a])
  <2>1. d = Ok(3 + ParseSocksAddr(r).used,
               [frag |-> stream[3], addr |-> ParseSocksAddr(r).value])
    BY DEF ParseUDPRequest, Bad
  <2> HIDE DEF d, r, n, a
  <2> QED BY <1>4, <2>1 DEF Ok
<1> HIDE DEF d, n, a
<1>6. d.value.addr = a /\ d.used = 3 + (3 + n)
  BY <1>4, <1>5 DEF Ok
<1>7. Has(r, 3 + n) /\ Has(stream, 3 + (3 + n)) /\ 3 + n \in Nat
  BY <1>2, <1>3, <1>4 DEF Received, Has, n
<1>8. After(stream, 3 + (3 + n)) = After(r, 3 + n)
  BY <1>7, AfterAfter
<1>9. Marshal(a) = Part(r, 0, 3 + n)
  BY <1>3, <1>4, MarshalAsReceived DEF a, n
<1>10. ~Unmarshalable(a)
  BY <1>3, <1>4, EncodedAsReceived DEF a, n
<1>11. Marshal(a) \o After(r, 3 + n) = r
  BY <1>3, <1>7, <1>9, Cut
<1>12. Answer(a, After(r, 3 + n)) = <<0, 0, 0>> \o (Marshal(a) \o After(r, 3 + n))
  <2>1. <<0, 0, 0>> \in Seq(Byte)
    BY CodecAssumption DEF Byte, ipv6
  <2>2. Marshal(a) \in Seq(Byte)
    <3>1. Has(r, 0 + (3 + n))
      BY <1>7
    <3> QED BY <1>3, <1>7, <1>9, <3>1, PartProperties
  <2>3. After(r, 3 + n) \in Seq(Byte)
    BY <1>3, <1>7, AfterProperties
  <2> QED BY <2>1, <2>2, <2>3, ConcatAssociative DEF Answer
<1> QED BY <1>6, <1>8, <1>10, <1>11, <1>12 DEF r

\* An address of a socket that is marshaled is parsed as it was.
LEMMA MarshalIsParsed ==
  ASSUME NEW type \in {ipv4, ipv6}, NEW bytes \in Seq(Byte),
         Len(bytes) = IF type = ipv4 THEN V4Len ELSE V6Len,
         NEW hi \in Byte, NEW lo \in Byte, NEW bound,
         bound = [addrType |-> type, addr |-> IPString(bytes),
                  port |-> Base * hi + lo],
         Encoded(bound) = bytes
  PROVE  /\ Marshal(bound) \in Seq(Byte) /\ Len(Marshal(bound)) = Len(bytes) + 3
         /\ ParseSocksAddr(Marshal(bound)) = Ok(Len(bytes) + 3, bound)
<1> DEFINE w == Marshal(bound)
           n == Len(bytes)
<1>1. Base \in Nat /\ Byte = 0 .. Base - 1 /\ type \in Byte
  BY CodecAssumption DEF Byte, ipv4, ipv6
<1>2. (Base * hi + lo) \div Base = hi /\ (Base * hi + lo) % Base = lo
  BY <1>1, PortBytes
<1>3. w = <<type>> \o bytes \o <<hi, lo>>
  BY <1>2 DEF Marshal
<1> HIDE DEF w
<1>4. /\ w \in Seq(Byte) /\ Len(w) = 3 + n /\ w[1] = type
      /\ Part(w, 1, n) = bytes /\ w[n + 2] = hi /\ w[n + 3] = lo
  <2> DEFINE u == <<type>> \o bytes \o <<hi, lo>>
  <2>1. type \in Byte /\ bytes \in Seq(Byte) /\ hi \in Byte /\ lo \in Byte
    BY <1>1
  <2>2. /\ u \in Seq(Byte) /\ Len(u) = 3 + Len(bytes) /\ u[1] = type
        /\ Part(u, 1, Len(bytes)) = bytes
        /\ u[Len(bytes) + 2] = hi /\ u[Len(bytes) + 3] = lo
    BY ONLY <2>1, PiecesOf
  <2>3. w = u
    BY <1>3
  <2> HIDE DEF u
  <2> QED BY <2>2, <2>3
<1>5. AddrLen(w) = n /\ n \in Nat
  BY <1>4 DEF AddrLen, ipv4, ipv6, domainName
<1>6. AddrText(w) = IPString(bytes)
  BY <1>4, <1>5 DEF AddrText, ipv4, ipv6, domainName
<1>7. /\ Has(w, 1) /\ Has(w, 1 + n + 2) /\ w[1] \in {ipv4, domainName, ipv6}
      /\ w[1] # domainName /\ 1 + n + 1 = n + 2 /\ 1 + n + 2 = n + 3
  BY <1>4, <1>5 DEF Has, ipv4, ipv6, domainName
<1>8. ParseSocksAddr(w) = Ok(1 + n + 2, [addrType |-> w[1], addr |-> AddrText(w),
                                port |-> Base * w[1 + n + 1] + w[1 + n + 2]])
  BY <1>5, <1>7 DEF ParseSocksAddr
<1>9. ParseSocksAddr(w) = Ok(n + 3, bound)
  BY <1>4, <1>6, <1>7, <1>8
<1>10. Len(w) = n + 3
  BY <1>4, <1>5
<1> QED BY <1>4, <1>9, <1>10 DEF w

\* What follows a prefix.
LEMMA AfterPrefix ==
  ASSUME NEW h \in Seq(Byte), NEW w \in Seq(Byte)
  PROVE  After(h \o w, Len(h)) = w
<1> DEFINE u == h \o w
           m == Len(h)
           l == Len(w)
<1>1. /\ u \in Seq(Byte) /\ Len(u) = Len(h) + Len(w)
      /\ \A i \in 1 .. Len(h) + Len(w) :
           u[i] = IF i <= Len(h) THEN h[i] ELSE w[i - Len(h)]
  BY ONLY h \in Seq(Byte), w \in Seq(Byte), ConcatProperties
<1> HIDE DEF u
<1>2. m \in Nat /\ l \in Nat
  OBVIOUS
<1> HIDE DEF m, l
<1>3. Has(u, m) /\ Len(u) - m = l
  BY <1>1, <1>2 DEF Has, m, l
<1>4. /\ After(u, m) \in Seq(Byte) /\ Len(After(u, m)) = l
      /\ \A k \in 1 .. l : After(u, m)[k] = u[m + k]
  BY <1>1, <1>2, <1>3, AfterProperties
<1>5. \A k \in 1 .. l : u[m + k] = w[k]
  <2> SUFFICES ASSUME NEW k \in 1 .. l PROVE u[m + k] = w[k]
    OBVIOUS
  <2>1. /\ m + k \in 1 .. Len(h) + Len(w) /\ ~(m + k <= Len(h))
        /\ m + k - Len(h) = k
    BY <1>2 DEF m, l
  <2>2. ASSUME NEW i \in 1 .. Len(h) + Len(w), NEW j,
               ~(i <= Len(h)), i - Len(h) = j
        PROVE  u[i] = w[j]
    BY <1>1, <2>2
  <2> QED BY <1>1, <1>2, <2>1, <2>2
<1>6. After(u, m) = w
  BY <1>4, <1>5, SameSeq DEF l
<1> QED BY <1>6 DEF u, m

\* The address of a socket, given by its bytes, is read by the client as it is:
\* getAddrType of socks5.go:624-632, marshal and parseSocksAddr.
LEMMA SocketAddress ==
  ASSUME NEW type \in {ipv4, ipv6}, NEW bytes \in Seq(Byte),
         Len(bytes) = IF type = ipv4 THEN V4Len ELSE V6Len,
         NEW hi \in Byte, NEW lo \in Byte,
         GetAddrType(IPString(bytes)) = type,
         type = ipv4 => To4(ParseIP(IPString(bytes))) = bytes,
         type = ipv6 => To16(ParseIP(IPString(bytes))) = bytes
  PROVE  LET bound == BindAddr(IPString(bytes), Base * hi + lo)
             reply == ParseSocksAddr(After(MarshalResponse(0, bound), 3))
         IN  ~Unmarshalable(bound) /\ reply.status = "ok" /\ reply.value = bound
<1> DEFINE bound == BindAddr(IPString(bytes), Base * hi + lo)
           w == Marshal(bound)
           h == <<Version, 0, 0>>
<1>1. bound = [addrType |-> type, addr |-> IPString(bytes), port |-> Base * hi + lo]
  BY DEF BindAddr
<1>2. Encoded(bound) = bytes
  BY <1>1 DEF Encoded, ipv4, ipv6, domainName
<1>3. bytes # <<>>
  <2>1. Len(bytes) # 0
    BY Widths
  <2> QED BY <2>1, EmptySeq
<1>4. ~Unmarshalable(bound)
  BY <1>1, <1>2, <1>3 DEF Unmarshalable, ipv4, ipv6, domainName
<1>5. w \in Seq(Byte) /\ ParseSocksAddr(w) = Ok(Len(bytes) + 3, bound)
  <2> HIDE DEF bound
  <2> QED BY <1>1, <1>2, MarshalIsParsed
<1>6. h \in Seq(Byte) /\ Len(h) = 3
  BY CodecAssumption DEF Byte, ipv6
<1> HIDE DEF bound, w, h
<1>7. After(h \o w, Len(h)) = w
  BY ONLY <1>5, <1>6, AfterPrefix
<1>8. MarshalResponse(0, bound) = h \o w
  BY DEF MarshalResponse, h, w
<1>9. ParseSocksAddr(After(MarshalResponse(0, bound), 3)) = Ok(Len(bytes) + 3, bound)
  BY <1>5, <1>6, <1>7, <1>8
<1>10. Ok(Len(bytes) + 3, bound).status = "ok" /\ Ok(Len(bytes) + 3, bound).value = bound
  BY DEF Ok
<1> QED BY <1>4, <1>9, <1>10 DEF bound

\* The type of the address of a socket, by the bytes it was printed from.
LEMMA AddrTypeOf4 ==
  ASSUME NEW p \in Seq(Byte), Len(p) = V4Len
  PROVE  GetAddrType(IPString(p)) = ipv4
<1>1. To4(ParseIP(IPString(p))) = p /\ p # <<>>
  BY ReadBack4
<1>2. ParseIP(IPString(p)) # <<>>
  <2>1. ParseIP(IPString(p)) = MappedPrefix \o p
    BY Widths DEF IPString, ParseIP
  <2>2. p \in Seq(Byte) /\ MappedPrefix \in Seq(Byte)
    BY Widths
  <2>3. Len(MappedPrefix \o p) = Len(MappedPrefix) + Len(p)
    BY ONLY <2>2, ConcatProperties
  <2>4. Len(MappedPrefix \o p) # 0
    BY <2>3, Widths
  <2> QED BY <2>1, <2>4
<1> QED BY <1>1, <1>2 DEF GetAddrType

\* The same of an address of the other family that is not mapped.
LEMMA AddrTypeOf6 ==
  ASSUME NEW q \in Seq(Byte), Len(q) = V6Len, ~IsPrefix(MappedPrefix, q)
  PROVE  GetAddrType(IPString(q)) = ipv6
<1>1. ParseIP(IPString(q)) = q
  BY Widths DEF IPString, ParseIP
<1>2. q # <<>>
  BY ReadBack6
<1> QED BY <1>1, <1>2 DEF GetAddrType, To4

\* The address of a local socket in a reply, without a zone.
LEMMA BoundIP ==
  ASSUME stream \in Seq(Byte), ParseSocksAddr(stream).status = "ok",
         stream[1] # domainName
  PROVE  LET addr  == AddrText(stream)
             bound == BindAddr(addr, ReceivedAddr(stream).port)
             reply == ParseSocksAddr(After(MarshalResponse(0, bound), 3))
         IN  /\ addr.form # "name" /\ addr.form # "zoned"
             /\ ~Unmarshalable(bound) /\ reply.status = "ok" /\ reply.value = bound
<1> DEFINE n == AddrLen(stream)
           p == Part(stream, 1, n)
           hi == stream[1 + n + 1]
           lo == stream[1 + n + 2]
<1>1. Received(stream) /\ n \in Nat \ {0}
  BY OkMeansReceived
<1>2. ReceivedAddr(stream).port = Base * hi + lo
  BY DEF ReceivedAddr
<1>3. stream[1] \in {ipv4, ipv6} /\ AddrText(stream) = IPString(p)
  BY <1>1 DEF Received, AddrText
<1>4. hi \in Byte /\ lo \in Byte
  <2>1. 1 + n + 1 \in 1 .. Len(stream) /\ 1 + n + 2 \in 1 .. Len(stream)
    BY <1>1 DEF Received, Has
  <2> HIDE DEF n
  <2> QED BY <2>1
<1>5. p \in Seq(Byte) /\ Len(p) = n
  <2>1. Has(stream, 1 + n)
    BY <1>1 DEF Received, Has
  <2> QED BY <1>1, <2>1, PartProperties
<1>6. stream[1] = ipv4 => n = V4Len
  BY DEF AddrLen, ipv4, ipv6, domainName
<1>7. stream[1] = ipv6 => n = V6Len
  BY DEF AddrLen, ipv4, ipv6, domainName
<1> HIDE DEF n, p, hi, lo
<1> DEFINE Readable(addr) ==
             LET bound == BindAddr(addr, Base * hi + lo)
                 reply == ParseSocksAddr(After(MarshalResponse(0, bound), 3))
             IN  ~Unmarshalable(bound) /\ reply.status = "ok" /\ reply.value = bound
<1>8. ASSUME NEW q \in Seq(Byte), Len(q) = V4Len
      PROVE  Readable(IPString(q))
  <2>1. GetAddrType(IPString(q)) = ipv4 /\ To4(ParseIP(IPString(q))) = q
    BY <1>8, AddrTypeOf4, ReadBack4
  <2>2. Len(q) = IF ipv4 = ipv4 THEN V4Len ELSE V6Len
    BY <1>8
  <2>3. ipv4 \in {ipv4, ipv6} /\ ipv4 # ipv6
    BY DEF ipv4, ipv6
  <2> QED BY <1>4, <2>1, <2>2, <2>3, SocketAddress
<1>9. ASSUME NEW q \in Seq(Byte), Len(q) = V6Len
      PROVE  Readable(IPString(q))
  <2>1. CASE IsPrefix(MappedPrefix, q)
    <3>1. Last4(q) \in Seq(Byte) /\ Len(Last4(q)) = V4Len
      BY <1>9, <2>1, MappedAddress
    <3>2. IPString(q) = IPString(Last4(q))
      BY <1>9, <2>1, <3>1, Widths DEF IPString
    <3> HIDE DEF Readable
    <3> QED BY <1>8, <3>1, <3>2
  <2>2. CASE ~IsPrefix(MappedPrefix, q)
    <3>1. GetAddrType(IPString(q)) = ipv6 /\ To16(ParseIP(IPString(q))) = q
      BY <1>9, <2>2, AddrTypeOf6, ReadBack6
    <3>2. Len(q) = IF ipv6 = ipv4 THEN V4Len ELSE V6Len
      BY <1>9 DEF ipv4, ipv6
    <3>3. ipv6 \in {ipv4, ipv6} /\ ipv4 # ipv6
      BY DEF ipv4, ipv6
    <3> QED BY <1>4, <3>1, <3>2, <3>3, SocketAddress
  <2> QED BY <2>1, <2>2
<1> HIDE DEF Readable
<1>10. Readable(IPString(p))
  BY <1>3, <1>5, <1>6, <1>7, <1>8, <1>9
<1>11. IPString(p).form # "name" /\ IPString(p).form # "zoned"
  BY DEF IPString
<1> QED BY <1>2, <1>3, <1>10, <1>11 DEF Readable

\* A name that was received whole is read again from its bytes alone.
LEMMA NameIsParsed ==
  ASSUME NEW s \in Seq(Byte), Received(s), s[1] = domainName,
         AddrLen(s) \in Nat \ {0},
         NEW w, w = Part(s, 0, 3 + AddrLen(s))
  PROVE  w \in Seq(Byte) /\ ParseSocksAddr(w) = Ok(1 + AddrLen(s) + 2, ReceivedAddr(s))
<1> DEFINE n == AddrLen(s)
<1>1. /\ n \in Nat /\ Has(s, 3 + n) /\ Len(s) \in Nat /\ 3 + n <= Len(s)
      /\ s[2] \in Nat /\ n = 1 + s[2]
  <2>1. s[2] \in Byte
    BY DEF Received, Has
  <2>2. s[2] \in Nat
    BY <2>1, CodecAssumption DEF Byte
  <2> QED BY <2>2 DEF Received, Has, AddrLen, NameLen, ipv4, ipv6, domainName
<1>2. w \in Seq(Byte) /\ Len(w) = 3 + n /\ \A i \in 1 .. 3 + n : w[i] = s[i]
  <2>1. 3 + n \in Nat /\ Has(s, 0 + (3 + n))
    BY <1>1
  <2>2. /\ w \in Seq(Byte) /\ Len(w) = 3 + n
        /\ \A k \in 1 .. 3 + n : w[k] = s[0 + k]
    BY <2>1, PartProperties
  <2> QED BY <2>2
<1> HIDE DEF n
<1>3. w[1] = s[1] /\ w[2] = s[2] /\ w[n + 2] = s[n + 2] /\ w[n + 3] = s[n + 3]
  <2>1. /\ 1 \in 1 .. 3 + n /\ 2 \in 1 .. 3 + n
        /\ n + 2 \in 1 .. 3 + n /\ n + 3 \in 1 .. 3 + n
    BY <1>1
  <2> QED BY ONLY <1>2, <2>1
<1>4. AddrLen(w) = n
  BY <1>1, <1>3 DEF AddrLen, NameLen, ipv4, ipv6, domainName
<1>5. AddrText(w) = AddrText(s)
  <2> DEFINE l == s[2]
  <2>1. Has(s, 2 + l) /\ Has(w, 2 + l) /\ l \in Nat
    BY <1>1, <1>2 DEF Has
  <2> HIDE DEF l
  <2>2. /\ Part(s, 2, l) \in Seq(Byte) /\ Len(Part(s, 2, l)) = l
        /\ \A k \in 1 .. l : Part(s, 2, l)[k] = s[2 + k]
    BY <2>1, PartProperties
  <2>3. /\ Part(w, 2, l) \in Seq(Byte) /\ Len(Part(w, 2, l)) = l
        /\ \A k \in 1 .. l : Part(w, 2, l)[k] = w[2 + k]
    <3>1. 2 \in Nat
      OBVIOUS
    <3> QED BY ONLY <1>2, <2>1, <3>1, PartProperties
  <2>4. \A k \in 1 .. l : w[2 + k] = s[2 + k]
    <3>1. \A k \in 1 .. l : 2 + k \in 1 .. 3 + n
      BY ONLY <1>1, <2>1 DEF l
    <3> QED BY ONLY <1>2, <3>1
  <2>5. Part(w, 2, l) = Part(s, 2, l)
    BY <2>2, <2>3, <2>4, SameSeq
  <2> QED BY <1>3, <2>5 DEF AddrText, NameLen, l
<1>6. Has(w, 1) /\ Has(w, 2) /\ Has(w, 1 + n + 2) /\ 1 + n + 1 = n + 2 /\ 1 + n + 2 = n + 3
  <2>1. Len(w) = 3 + n /\ n \in Nat /\ n >= 1
    BY ONLY <1>1, <1>2
  <2> QED BY ONLY <2>1 DEF Has
<1>7. ParseSocksAddr(w) = Ok(1 + n + 2, [addrType |-> w[1], addr |-> AddrText(w),
                                port |-> Base * w[1 + n + 1] + w[1 + n + 2]])
  BY <1>3, <1>4, <1>6 DEF ParseSocksAddr
<1>8. ParseSocksAddr(w) = Ok(1 + n + 2, [addrType |-> s[1], addr |-> AddrText(s),
                                port |-> Base * s[1 + n + 1] + s[1 + n + 2]])
  BY <1>3, <1>5, <1>6, <1>7
<1> QED BY <1>2, <1>8 DEF n, ReceivedAddr

\* The same of an address with a zone, any text that fits a name: what is sent is
\* what a client would send for that name.
LEMMA BoundZoned ==
  ASSUME stream \in Seq(Byte), ParseSocksAddr(stream).status = "ok",
         stream[1] = domainName
  PROVE  LET bound == BindAddr(Zoned(AddrText(stream).bytes), ReceivedAddr(stream).port)
             reply == ParseSocksAddr(After(MarshalResponse(0, bound), 3))
         IN  /\ ~Unmarshalable(bound) /\ reply.status = "ok"
             /\ reply.value = [bound EXCEPT !.addr = AddrText(stream)]
<1> DEFINE n == AddrLen(stream)
           a == ReceivedAddr(stream)
           text == Zoned(AddrText(stream).bytes)
           bound == BindAddr(text, a.port)
           w == Part(stream, 0, 3 + n)
           h == <<Version, 0, 0>>
<1>1. Received(stream) /\ n \in Nat \ {0}
  BY OkMeansReceived
<1>2. a = [addrType |-> domainName, addr |-> AddrText(stream), port |-> a.port]
  BY DEF ReceivedAddr
<1>3. bound = [addrType |-> domainName, addr |-> text, port |-> a.port]
  <2>1. text.form = "zoned"
    BY DEF Zoned
  <2> HIDE DEF text, a
  <2>2. ParseIP(text) = <<>>
    BY <2>1 DEF ParseIP
  <2>3. To4(<<>>) = <<>>
    <3>1. Len(MappedPrefix) > 0 /\ Len(<<>>) = 0
      BY Widths
    <3>2. ~IsPrefix(MappedPrefix, <<>>)
      BY <3>1 DEF IsPrefix
    <3> QED BY <3>2 DEF To4
  <2>4. GetAddrType(text) = domainName
    BY <2>2, <2>3 DEF GetAddrType
  <2> QED BY <2>4 DEF BindAddr
<1>4. text.bytes = AddrText(stream).bytes
  BY DEF Zoned
<1>5. w \in Seq(Byte) /\ ParseSocksAddr(w) = Ok(1 + n + 2, a)
  BY <1>1, NameIsParsed
<1>6. Marshal(a) = w /\ ~Unmarshalable(a)
  BY <1>1, MarshalAsReceived, EncodedAsReceived
<1> HIDE DEF a, bound, text, w, n, h
<1>7. Marshal(bound) = w /\ ~Unmarshalable(bound)
  <2>1. /\ bound.addrType = domainName /\ a.addrType = domainName
        /\ bound.addr.bytes = a.addr.bytes /\ bound.port = a.port
    <3>1. a.addrType = domainName /\ a.addr = AddrText(stream)
      BY <1>2
    <3>2. bound.addrType = domainName /\ bound.addr = text /\ bound.port = a.port
      BY <1>3
    <3> QED BY <1>4, <3>1, <3>2
  <2>2. Encoded(bound) = Encoded(a)
    BY <2>1 DEF Encoded, ipv4, ipv6, domainName
  <2>3. Marshal(bound) = Marshal(a)
    BY <2>1, <2>2 DEF Marshal
  <2>4. Unmarshalable(bound) <=> Unmarshalable(a)
    BY <2>1 DEF Unmarshalable
  <2> QED BY <1>6, <2>3, <2>4
<1>8. After(MarshalResponse(0, bound), 3) = w
  <2>1. h \in Seq(Byte) /\ Len(h) = 3
    BY CodecAssumption DEF h, Byte, ipv6
  <2>2. After(h \o w, Len(h)) = w
    BY ONLY <1>5, <2>1, AfterPrefix
  <2>3. MarshalResponse(0, bound) = h \o w
    BY <1>7 DEF MarshalResponse, h
  <2> QED BY <2>1, <2>2, <2>3
<1>9. [bound EXCEPT !.addr = AddrText(stream)] = a
  BY <1>2, <1>3
<1>10. Ok(1 + n + 2, a).status = "ok" /\ Ok(1 + n + 2, a).value = a
  BY DEF Ok
<1> QED BY <1>5, <1>7, <1>8, <1>9, <1>10 DEF bound, text, a

\* The address of a local socket in a reply.
LEMMA Bound ==
  ASSUME stream \in Seq(Byte)
  PROVE  BoundAddressIsReadable
<1> DEFINE a == ParseSocksAddr(stream)
           Readable(text) ==
             LET bound == BindAddr(text, ReceivedAddr(stream).port)
                 reply == ParseSocksAddr(After(MarshalResponse(0, bound), 3))
             IN  /\ ~Unmarshalable(bound) /\ reply.status = "ok"
                 /\ reply.value = [bound EXCEPT !.addr = Announced(text)]
<1> SUFFICES ASSUME a.status = "ok"
             PROVE  LET text  == LocalText(a.value.addr)
                        bound == BindAddr(text, a.value.port)
                        reply == ParseSocksAddr(After(MarshalResponse(0, bound), 3))
                    IN  /\ ~Unmarshalable(bound) /\ reply.status = "ok"
                        /\ reply.value = [bound EXCEPT !.addr = Announced(text)]
  BY DEF BoundAddressIsReadable
<1>1. a.value.addr = AddrText(stream) /\ a.value.port = ReceivedAddr(stream).port
  BY OkMeansReceived DEF Ok, ReceivedAddr
<1>2. CASE stream[1] = domainName
  <2> DEFINE text == Zoned(AddrText(stream).bytes)
  <2>1. AddrText(stream) = Name(AddrText(stream).bytes)
    BY <1>2 DEF AddrText, Name
  <2>2. LocalText(AddrText(stream)) = text /\ Announced(text) = AddrText(stream)
    BY <2>1 DEF LocalText, Announced, Name, Zoned
  <2>3. Readable(text)
    BY <1>2, <2>2, BoundZoned
  <2> HIDE DEF a
  <2> QED BY <1>1, <2>2, <2>3
<1>3. CASE stream[1] # domainName
  <2> DEFINE text  == AddrText(stream)
             bound == BindAddr(text, ReceivedAddr(stream).port)
  <2>1. text.form # "name" /\ text.form # "zoned"
    BY <1>3, BoundIP
  <2>2. LocalText(text) = text /\ Announced(text) = text
    BY <2>1 DEF LocalText, Announced
  <2>3. [bound EXCEPT !.addr = text] = bound
    BY DEF BindAddr
  <2>4. Readable(text)
    BY <1>3, <2>2, <2>3, BoundIP
  <2> HIDE DEF a
  <2> QED BY <1>1, <2>2, <2>4
<1> QED BY <1>2, <1>3

\* An answer to a datagram has the header of that datagram byte for byte
\* (socks5.go:772-830).  In a reply (socks5.go:386-398, 624-632) an IP address
\* without a zone is read as the address it is, and the text of a link-local
\* address with its zone as a domain name of the same characters.  For every
\* message and every width.
THEOREM ReadBack == CodecSpec => []AnswersReadBack
<1>1. stream \in Seq(Byte) => AnswersReadBack
  BY Echo, Bound DEF AnswersReadBack
<1> QED BY <1>1, StreamCorrect, PTL

------------------------------------------------------------------------------
\* Wrapping changes nothing that fits, and always gives something that fits.
LEMMA WrapFits ==
  ASSUME NEW x \in Nat
  PROVE  /\ Wrap(x) \in -MaxInt - 1 .. MaxInt
         /\ x <= MaxInt => Wrap(x) = x
<1> DEFINE m == 2 * (MaxInt + 1)
<1>1. MaxInt \in Nat /\ m \in Nat \ {0} /\ x + MaxInt + 1 \in Nat
  BY RetryAfterAssumption
<1>2. (x + MaxInt + 1) % m \in 0 .. m - 1
  BY <1>1
<1>3. x <= MaxInt => (x + MaxInt + 1) % m = x + MaxInt + 1
  <2>1. ASSUME NEW y \in Nat, NEW k \in Nat \ {0}, y < k
        PROVE  y % k = y
    BY <2>1
  <2>2. x <= MaxInt => x + MaxInt + 1 < m
    BY <1>1
  <2> QED BY <1>1, <2>1, <2>2
<1> QED BY <1>1, <1>2, <1>3 DEF Wrap

\* Every header there is.
THEOREM HeaderCorrect == RetrySpec => [](header \in Header)
<1>1. RetryInit => header \in Header
  BY DEF RetryInit, Header
<1>2. header \in Header /\ [AnotherHeader]_header => (header \in Header)'
  BY DEF AnotherHeader
<1> QED BY <1>1, <1>2, PTL DEF RetrySpec

\* The pause after a 429 is at least the floor and at most what was asked for
\* and the floor, whether the product of seconds overflows or not
\* (tunnel.go:166-172 after pia.go:89).
THEOREM CooldownIsBounded == RetrySpec => []CooldownBounds
<1>1. header \in Header => CooldownBounds
  <2> SUFFICES ASSUME header \in Header PROVE CooldownBounds
    OBVIOUS
  <2> USE RetryAfterAssumption
  <2>1. header.form \in {"nothing", "seconds", "date"} /\ header.n \in -MaxInt - 1 .. MaxInt
    BY DEF Header, Nothing
  <2>2. CASE header.form = "seconds" /\ header.n > 0
    <3> DEFINE p == header.n * Second
    <3>1. p \in Nat
      BY <2>1, <2>2
    <3>2. /\ Times(header.n) \in -MaxInt - 1 .. MaxInt
          /\ p <= MaxInt => Times(header.n) = p
      BY <3>1, WrapFits DEF Times
    <3>3. ParseRetryAfter(header) = Times(header.n) /\ Requested(header) = p
      BY <2>2 DEF ParseRetryAfter, Requested
    <3> QED BY <3>1, <3>2, <3>3 DEF CooldownBounds, Delay
  <2>3. CASE header.form = "seconds" /\ ~(header.n > 0)
    <3>1. header.n * Second <= 0 /\ header.n * Second \in Int
      BY <2>1, <2>3
    <3>2. ParseRetryAfter(header) = 0 /\ Requested(header) = header.n * Second
      BY <2>3 DEF ParseRetryAfter, Requested
    <3> QED BY <3>1, <3>2 DEF CooldownBounds, Delay
  <2>4. CASE header.form # "seconds"
    <3>1. /\ Requested(header) = header.n
          /\ header.n > 0 => ParseRetryAfter(header) \in {header.n, 0}
          /\ ~(header.n > 0) => ParseRetryAfter(header) = 0
          /\ header.form = "date" /\ header.n > 0 => ParseRetryAfter(header) = header.n
          /\ header.form = "nothing" => header.n = 0
      BY <2>1, <2>4 DEF ParseRetryAfter, Requested, Header, Nothing
    <3> QED BY <2>1, <2>4, <3>1 DEF CooldownBounds, Delay
  <2> QED BY <2>1, <2>2, <2>3, <2>4
<1> QED BY <1>1, HeaderCorrect, PTL
------------------------------------------------------------------------------
\* The cities and their ports.  A city is in the list at the place its entry
\* has among the entries accepted before it, so the port of a city that asked
\* for none is BASE_PORT plus its place, whatever the entries around it ask
\* for; the filter keeps that order, which is why two such ports differ.
ServedCity == [region : Regions, port : Nat, asked : Ports \cup {NoPort, BadPort}]

ListType ==
  /\ entries \in Seq(Entry)
  /\ next \in Nat /\ next > 0
  /\ cities \in Seq(ServedCity)
  /\ looked \in Nat /\ looked <= Len(cities)
  /\ served \in Seq(ServedCity)

PlacesKept ==
  /\ entries # <<>> => Len(cities) = Place(next)
  /\ entries = <<>> => Len(cities) = next - 1
  /\ \A n \in 1 .. Len(entries) : n < next /\ Accepts(entries[n]) =>
       /\ Place(n) + 1 \in 1 .. Len(cities)
       /\ cities[Place(n) + 1].region = entries[n].region
       /\ cities[Place(n) + 1].port = IF Asked(entries[n]) THEN entries[n].asked
                                                          ELSE BasePort + Place(n)

OwnPorts ==
  \A k \in 1 .. Len(cities) : ~Asked(cities[k]) => cities[k].port = BasePort + k - 1

FilterKeeps ==
  /\ looked > 0 => Built
  /\ \A k \in 1 .. looked : cities[k].region \in KnownRegions =>
       \E i \in 1 .. Len(served) : served[i] = cities[k]
  /\ \A i \in 1 .. Len(served) :
       ~Asked(served[i]) => served[i].port < BasePort + looked
  /\ \A i, j \in 1 .. Len(served) :
       i < j /\ ~Asked(served[i]) /\ ~Asked(served[j]) => served[i].port < served[j].port

ListInv == ListType /\ PlacesKept /\ OwnPorts /\ FilterKeeps

\* The place of an entry is the place of the one before it, and one more if
\* that one was accepted.
LEMMA PlaceStep ==
  ASSUME NEW n \in Nat, n > 0
  PROVE  /\ Place(n) \in Nat
         /\ Place(n + 1) = IF Accepts(entries[n]) THEN Place(n) + 1 ELSE Place(n)
<1> DEFINE Before(k) == {m \in 1 .. k - 1 : Accepts(entries[m])}
<1>1. IsFiniteSet(Before(n))
  <2>1. IsFiniteSet(1 .. n - 1)
    BY FS_Interval
  <2> QED BY <2>1, FS_Subset
<1>2. Cardinality(Before(n)) \in Nat
  BY <1>1, FS_CardinalityType
<1>3. Before(n + 1) = IF Accepts(entries[n]) THEN Before(n) \cup {n} ELSE Before(n)
  OBVIOUS
<1>4. n \notin Before(n)
  OBVIOUS
<1>5. Cardinality(Before(n) \cup {n}) = Cardinality(Before(n)) + 1
  <2> HIDE DEF Before
  <2> QED BY <1>1, <1>4, FS_AddElement
<1>6. Place(n) = Cardinality(Before(n)) /\ Place(n + 1) = Cardinality(Before(n + 1))
  BY DEF Place
<1> HIDE DEF Before
<1> QED BY <1>2, <1>3, <1>5, <1>6

LEMMA FirstPlace == Place(1) = 0
<1>1. {m \in 1 .. 1 - 1 : Accepts(entries[m])} = {}
  OBVIOUS
<1> QED BY <1>1, FS_EmptySet DEF Place

LEMMA ListInit == CityListInit => ListInv
<1> SUFFICES ASSUME CityListInit PROVE ListInv
  OBVIOUS
<1>1. entries \in Seq(Entry)
  BY CityListAssumption, SeqDef DEF CityListInit, BoundedSeq, SeqOf
<1>2. ListType
  BY <1>1 DEF CityListInit, ListType
<1>3. PlacesKept
  BY FirstPlace DEF CityListInit, PlacesKept
<1>4. OwnPorts /\ FilterKeeps
  BY DEF CityListInit, OwnPorts, FilterKeeps
<1> QED BY <1>2, <1>3, <1>4 DEF ListInv

\* What an entry says, and the city it makes.
LEMMA EntrySays ==
  ASSUME NEW e \in Entry, Accepts(e)
  PROVE  e.region \in Regions /\ e.asked \in Ports \cup {NoPort, BadPort}
BY DEF Entry, Blank, Plain, City, Accepts

LEMMA ServedPort ==
  ASSUME NEW c \in ServedCity
  PROVE  c.port \in Nat
BY DEF ServedCity

\* One more city keeps the cities before it.
LEMMA OneMore ==
  ASSUME NEW s \in Seq(ServedCity), NEW c \in ServedCity
  PROVE  /\ Append(s, c) \in Seq(ServedCity)
         /\ Len(Append(s, c)) = Len(s) + 1
         /\ \A i \in 1 .. Len(s) : Append(s, c)[i] = s[i]
         /\ Append(s, c)[Len(s) + 1] = c
BY AppendProperties

\* An entry that is ignored moves the loop on, and nothing else.
LEMMA IgnoredKeeps ==
  ASSUME ListInv, AddEntry, ~Accepts(entries[next])
  PROVE  ListInv'
<1> USE DEF ListInv
<1>1. /\ cities' = cities /\ next' = next + 1
      /\ entries' = entries /\ looked' = looked /\ served' = served
      /\ entries # <<>> /\ next <= Len(entries)
  BY DEF AddEntry
<1>2. ListType'
  BY <1>1 DEF ListType
<1>3. Place(next + 1) = Place(next) /\ \A n : Place(n)' = Place(n)
  BY <1>1, PlaceStep DEF ListType, Place
<1>4. PlacesKept'
  BY <1>1, <1>3 DEF PlacesKept, ListType, Accepts, Asked
<1>5. OwnPorts'
  BY <1>1 DEF OwnPorts, Asked
<1>6. ~Built
  BY <1>1 DEF Built, ListType
<1>7. FilterKeeps'
  BY <1>1, <1>6 DEF FilterKeeps, ListType, Asked
<1> QED BY <1>2, <1>4, <1>5, <1>7

\* An accepted entry, or a default city, makes the next city.
LEMMA AcceptedKeeps ==
  ASSUME ListInv, AddEntry, Accepts(entries[next])
  PROVE  ListInv'
<1> USE DEF ListInv
<1> DEFINE e == entries[next]
           c == [region |-> e.region, port |-> EntryPort(e), asked |-> e.asked]
<1>1. /\ cities' = Append(cities, c) /\ next' = next + 1
      /\ entries' = entries /\ looked' = looked /\ served' = served
      /\ entries # <<>> /\ next <= Len(entries)
  BY DEF AddEntry
<1>2. e \in Entry /\ e.region \in Regions /\ e.asked \in Ports \cup {NoPort, BadPort}
  BY <1>1, EntrySays DEF ListType
<1>3. EntryPort(e) = (IF Asked(e) THEN e.asked ELSE BasePort + Len(cities))
      /\ EntryPort(e) \in Nat
  <2>1. BasePort + Len(cities) \in Nat
    BY CityListAssumption DEF ListType
  <2>2. Asked(e) => e.asked \in Nat
    BY CityListAssumption DEF Asked
  <2> QED BY <2>1, <2>2 DEF EntryPort
<1>4. c \in ServedCity /\ c.region = e.region /\ c.port = EntryPort(e)
      /\ (Asked(c) <=> Asked(e))
  BY <1>2, <1>3 DEF ServedCity, Asked
<1> HIDE DEF c
<1>5. /\ cities' \in Seq(ServedCity) /\ Len(cities') = Len(cities) + 1
      /\ \A i \in 1 .. Len(cities) : cities'[i] = cities[i]
      /\ cities'[Len(cities) + 1] = c
  BY <1>1, <1>4, OneMore DEF ListType
<1>6. ListType'
  BY <1>1, <1>5 DEF ListType
<1>7. /\ Place(next + 1) = Place(next) + 1 /\ Place(next) = Len(cities)
      /\ \A n : Place(n)' = Place(n)
  BY <1>1, PlaceStep DEF ListType, PlacesKept, Place
<1>8. PlacesKept'
  <2>1. /\ (entries # <<>> => Len(cities) = Place(next))'
        /\ (entries = <<>> => Len(cities) = next - 1)'
    BY <1>1, <1>5, <1>7
  <2>2. ASSUME NEW n \in 1 .. Len(entries), n < next', Accepts(entries[n])
        PROVE  /\ Place(n) + 1 \in 1 .. Len(cities')
               /\ cities'[Place(n) + 1].region = entries[n].region
               /\ cities'[Place(n) + 1].port = IF Asked(entries[n]) THEN entries[n].asked
                                                                   ELSE BasePort + Place(n)
    <3>1. CASE n = next
      BY <3>1, <1>3, <1>4, <1>5, <1>7 DEF ListType
    <3>2. CASE n # next
      <4>1. n < next
        BY <3>2, <2>2, <1>1 DEF ListType
      <4>2. Place(n) + 1 \in 1 .. Len(cities)
        BY <4>1, <2>2 DEF PlacesKept
      <4> QED BY <4>1, <4>2, <2>2, <1>5 DEF PlacesKept, ListType
    <3> QED BY <3>1, <3>2
  <2> QED BY <2>1, <2>2, <1>1, <1>7 DEF PlacesKept, Accepts, Asked
<1>9. OwnPorts'
  BY <1>3, <1>4, <1>5 DEF OwnPorts, Asked, ListType
<1>10. looked = 0
  BY <1>1 DEF FilterKeeps, Built, ListType
<1>11. FilterKeeps'
  BY <1>1, <1>10 DEF FilterKeeps, Asked
<1> QED BY <1>6, <1>8, <1>9, <1>11

LEMMA DefaultKeeps ==
  ASSUME ListInv, AddDefault
  PROVE  ListInv'
<1> USE DEF ListInv
<1> DEFINE c == [region |-> DefaultRegions[next], port |-> BasePort + next - 1,
                 asked |-> NoPort]
<1>1. /\ cities' = Append(cities, c) /\ next' = next + 1
      /\ entries' = entries /\ looked' = looked /\ served' = served
      /\ entries = <<>> /\ next <= Len(DefaultRegions)
  BY DEF AddDefault
<1>2. c \in ServedCity /\ c.port = BasePort + next - 1
  BY <1>1, CityListAssumption DEF ServedCity, ListType
<1> HIDE DEF c
<1>3. /\ cities' \in Seq(ServedCity) /\ Len(cities') = Len(cities) + 1
      /\ \A i \in 1 .. Len(cities) : cities'[i] = cities[i]
      /\ cities'[Len(cities) + 1] = c
  BY <1>1, <1>2, OneMore DEF ListType
<1>4. ListType'
  BY <1>1, <1>3 DEF ListType
<1>5. PlacesKept'
  BY <1>1, <1>3 DEF PlacesKept, ListType
<1>6. OwnPorts'
  BY <1>1, <1>2, <1>3, CityListAssumption DEF OwnPorts, Asked, ListType, PlacesKept
<1>7. ~Built
  BY <1>1, CityListAssumption DEF Built, ListType
<1>8. FilterKeeps'
  BY <1>1, <1>3, <1>7 DEF FilterKeeps, ListType, Asked
<1> QED BY <1>4, <1>5, <1>6, <1>8

\* The filter appends a city whose own port lies above those already kept.
LEMMA FilterStepKeeps ==
  ASSUME ListInv, FilterUnknownRegions
  PROVE  ListInv'
<1> USE DEF ListInv
<1> DEFINE c == cities[looked + 1]
<1>1. /\ Built /\ looked < Len(cities) /\ looked' = looked + 1
      /\ served' = IF c.region \in KnownRegions THEN Append(served, c) ELSE served
      /\ entries' = entries /\ next' = next /\ cities' = cities
  BY DEF FilterUnknownRegions
<1>2. looked \in Nat /\ looked + 1 \in 1 .. Len(cities)
  BY <1>1 DEF ListType
<1>3. /\ c \in ServedCity /\ c.port \in Nat
      /\ ~Asked(c) => c.port = BasePort + looked
  <2>1. c \in ServedCity
    BY <1>2 DEF ListType
  <2>2. ~Asked(c) => c.port = BasePort + (looked + 1) - 1
    BY <1>2 DEF OwnPorts
  <2> QED BY <2>1, <2>2, <1>2, ServedPort, CityListAssumption
<1>4. PlacesKept' /\ OwnPorts'
  BY <1>1 DEF PlacesKept, OwnPorts, Place, Accepts, Asked
<1>5. Built'
  BY <1>1 DEF Built
<1>6. CASE c.region \notin KnownRegions
  <2>1. served' = served
    BY <1>1, <1>6
  <2>2. ListType'
    BY <2>1, <1>1 DEF ListType
  <2>3. FilterKeeps'
    <3>1. (\A k \in 1 .. looked : cities[k].region \in KnownRegions =>
             \E i \in 1 .. Len(served) : served[i] = cities[k])'
      <4> SUFFICES ASSUME NEW k \in 1 .. looked + 1, cities[k].region \in KnownRegions
                   PROVE  \E i \in 1 .. Len(served) : served[i] = cities[k]
        BY <1>1, <2>1
      <4>1. k \in 1 .. looked
        BY <1>2, <1>6
      <4> QED BY <4>1 DEF FilterKeeps
    <3>2. (\A i \in 1 .. Len(served) :
             ~Asked(served[i]) => served[i].port < BasePort + looked)'
      <4> SUFFICES ASSUME NEW i \in 1 .. Len(served), ~Asked(served[i])
                   PROVE  served[i].port < BasePort + (looked + 1)
        BY <1>1, <2>1 DEF Asked
      <4>1. served[i].port \in Nat /\ served[i].port < BasePort + looked
        BY ServedPort DEF FilterKeeps, ListType
      <4> QED BY <4>1, <1>2, CityListAssumption
    <3> QED BY <3>1, <3>2, <2>1, <1>5 DEF FilterKeeps, Asked
  <2> QED BY <2>2, <2>3, <1>4
<1>7. CASE c.region \in KnownRegions
  <2>1. served' = Append(served, c)
    BY <1>1, <1>7
  <2> HIDE DEF c
  <2>2. /\ served' \in Seq(ServedCity) /\ Len(served') = Len(served) + 1
        /\ \A i \in 1 .. Len(served) : served'[i] = served[i]
        /\ served'[Len(served) + 1] = c
    BY <2>1, <1>3, OneMore DEF ListType
  <2>3. ListType'
    BY <2>2, <1>1 DEF ListType
  <2>4. (\A k \in 1 .. looked : cities[k].region \in KnownRegions =>
           \E i \in 1 .. Len(served) : served[i] = cities[k])'
    <3> SUFFICES ASSUME NEW k \in 1 .. looked + 1, cities[k].region \in KnownRegions
                 PROVE  \E i \in 1 .. Len(served) + 1 : served'[i] = cities[k]
      BY <1>1, <2>2
    <3>1. CASE k = looked + 1
      BY <3>1, <2>2 DEF c, ListType
    <3>2. CASE k # looked + 1
      <4>1. PICK i \in 1 .. Len(served) : served[i] = cities[k]
        BY <3>2, <1>2 DEF FilterKeeps
      <4> QED BY <4>1, <2>2
    <3> QED BY <3>1, <3>2
  <2>5. (\A i \in 1 .. Len(served) :
           ~Asked(served[i]) => served[i].port < BasePort + looked)'
    <3> SUFFICES ASSUME NEW i \in 1 .. Len(served) + 1, ~Asked(served'[i])
                 PROVE  served'[i].port < BasePort + (looked + 1)
      BY <1>1, <2>2 DEF Asked
    <3>1. CASE i = Len(served) + 1
      BY <3>1, <2>2, <1>3, <1>2, CityListAssumption
    <3>2. CASE i # Len(served) + 1
      <4>1. i \in 1 .. Len(served) /\ served'[i] = served[i]
        BY <3>2, <2>2 DEF ListType
      <4>2. served[i].port \in Nat /\ served[i].port < BasePort + looked
        BY <4>1, ServedPort DEF FilterKeeps, ListType
      <4> QED BY <4>1, <4>2, <1>2, CityListAssumption
    <3> QED BY <3>1, <3>2
  <2>6. (\A i, j \in 1 .. Len(served) :
           i < j /\ ~Asked(served[i]) /\ ~Asked(served[j])
             => served[i].port < served[j].port)'
    <3> SUFFICES ASSUME NEW i \in 1 .. Len(served) + 1, NEW j \in 1 .. Len(served) + 1,
                        i < j, ~Asked(served'[i]), ~Asked(served'[j])
                 PROVE  served'[i].port < served'[j].port
      BY <2>2 DEF Asked
    <3>1. i \in 1 .. Len(served) /\ served'[i] = served[i]
      BY <2>2 DEF ListType
    <3>2. CASE j = Len(served) + 1
      BY <3>1, <3>2, <1>3, <2>2 DEF FilterKeeps, ListType
    <3>3. CASE j # Len(served) + 1
      <4>1. j \in 1 .. Len(served) /\ served'[j] = served[j]
        BY <3>3, <2>2 DEF ListType
      <4> QED BY <4>1, <3>1 DEF FilterKeeps
    <3> QED BY <3>2, <3>3
  <2>7. FilterKeeps'
    BY <2>4, <2>5, <2>6, <1>5 DEF FilterKeeps
  <2> QED BY <2>3, <2>7, <1>4
<1> QED BY <1>6, <1>7

LEMMA ListStep == ListInv /\ [CityListNext]_listVars => ListInv'
<1> SUFFICES ASSUME ListInv, [CityListNext]_listVars PROVE ListInv'
  OBVIOUS
<1>1. CASE AddEntry
  BY <1>1, IgnoredKeeps, AcceptedKeeps
<1>2. CASE AddDefault
  BY <1>2, DefaultKeeps
<1>3. CASE FilterUnknownRegions
  BY <1>3, FilterStepKeeps
<1>4. CASE UNCHANGED listVars
  BY <1>4 DEF listVars, ListInv, ListType, PlacesKept, OwnPorts, FilterKeeps, Built,
             Place, Accepts, Asked
<1> QED BY <1>1, <1>2, <1>3, <1>4 DEF CityListNext

\* main.go:183-236, README.md:78 and :87: for every PIA_REGIONS, every base
\* port and every list of PIA's, each city that is served has the port its
\* entry asks for or BASE_PORT plus its place, and two cities share a port
\* only if one of them asked for it.
THEOREM PortsAreAsDocumented == CityListSpec => []PortsAsDocumented
<1>1. ListInv => PortsAsDocumented
  <2> SUFFICES ASSUME ListInv, Listed PROVE PortsAsDocumented
    BY DEF PortsAsDocumented
  <2> USE DEF ListInv
  <2>1. ASSUME NEW n \in 1 .. Len(entries), Accepts(entries[n]),
               entries[n].region \in KnownRegions
        PROVE  \E i \in 1 .. Len(served) :
                 /\ served[i].region = entries[n].region
                 /\ served[i].port = IF Asked(entries[n]) THEN entries[n].asked
                                                          ELSE BasePort + Place(n)
    <3>1. n < next /\ looked = Len(cities)
      BY DEF Listed, Built, ListType
    <3>2. /\ Place(n) + 1 \in 1 .. looked
          /\ cities[Place(n) + 1].region = entries[n].region
          /\ cities[Place(n) + 1].port = IF Asked(entries[n]) THEN entries[n].asked
                                                             ELSE BasePort + Place(n)
      BY <2>1, <3>1 DEF PlacesKept
    <3>3. PICK i \in 1 .. Len(served) : served[i] = cities[Place(n) + 1]
      BY <3>2, <2>1 DEF FilterKeeps
    <3> QED BY <3>2, <3>3
  <2>2. ASSUME NEW i \in 1 .. Len(served), NEW j \in 1 .. Len(served),
               i # j, served[i].port = served[j].port
        PROVE  Asked(served[i]) \/ Asked(served[j])
    <3>1. served[i].port \in Nat /\ served[j].port \in Nat
      BY ServedPort DEF ListType
    <3>2. i < j \/ j < i
      BY <2>2
    <3> QED BY <2>2, <3>1, <3>2 DEF FilterKeeps
  <2> QED BY <2>1, <2>2 DEF PortsAsDocumented
<1> QED BY <1>1, ListInit, ListStep, PTL DEF CityListSpec
==============================================================================
