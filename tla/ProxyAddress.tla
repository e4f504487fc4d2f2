------------------------------ MODULE ProxyAddress ------------------------------
(***************************************************************************)
(* Addresses: how a client spells one, the bytes the proxy makes of it     *)
(* (byte-utils.js) and what the Go server reads back (socks5.go).          *)
(***************************************************************************)
EXTENDS Naturals, Sequences

Octet == 0..255
Word == 0..(256 * 256 - 1)

IPv4 == 1
Domain == 3
IPv6 == 4

\* A host is spelled as a name, as four decimal numbers, or as words between
\* colons with at most one "::", which stands after the first `gap` words.
\* A number, a word and a letter count as one character each.
Name(text) == [form |-> "name", parts |-> text, gap |-> 0, short |-> FALSE]
Dotted(numbers) == [form |-> "dotted", parts |-> numbers, gap |-> 0, short |-> FALSE]
Colons(words) == [form |-> "colons", parts |-> words, gap |-> 0, short |-> FALSE]
Shortened(head, tail) ==
    [form |-> "colons", parts |-> head \o tail, gap |-> Len(head), short |-> TRUE]

IsHost(host) ==
    /\ host.form \in {"name", "dotted", "colons"} /\ host.parts \in Seq(Nat)
    /\ host.form = "dotted" => Len(host.parts) = 4
    /\ host.gap \in 0..Len(host.parts) /\ host.short \in BOOLEAN

PortBytes(number) == <<number \div 256, number % 256>>

Zeros(n) == [i \in 1..n |-> 0]

Words(host) ==
    IF host.short
    THEN SubSeq(host.parts, 1, host.gap) \o Zeros(8 - Len(host.parts))
         \o SubSeq(host.parts, host.gap + 1, Len(host.parts))
    ELSE host.parts

IsIpv6(host) ==
    /\ host.form = "colons" /\ Len(Words(host)) = 8
    /\ \A i \in 1..8 : Words(host)[i] \in Word

WordBytes(words) ==
    [i \in 1..16 |-> PortBytes(words[(i + 1) \div 2])[((i + 1) % 2) + 1]]

IsIpv4(host) == host.form = "dotted" /\ \A i \in 1..4 : host.parts[i] \in Octet

\* A destination: the type of its host, the host's bytes and the port.
Destination(kind, host, number) == [type |-> kind, host |-> host, port |-> number]

\* What encodeAddress takes a host to be; whatever is no address is a name.
HostType(host) == IF IsIpv4(host) THEN IPv4 ELSE IF IsIpv6(host) THEN IPv6 ELSE Domain
HostBytes(host) == IF IsIpv6(host) THEN WordBytes(Words(host)) ELSE host.parts

Encodable(host, number) ==
    /\ number \in Word \ {0}
    /\ HostType(host) = Domain => Len(host.parts) \in 1..255

\* [type, address, port], a name with its length before it.
DestinationBytes(d) ==
    <<d.type>> \o (IF d.type = Domain THEN <<Len(d.host)>> ELSE <<>>) \o d.host \o PortBytes(d.port)

EncodeAddress(host, number) == DestinationBytes(Destination(HostType(host), HostBytes(host), number))

-----------------------------------------------------------------------------
(* The server *)

Refused == Destination(0, <<>>, 0)

\* net.IP.String prints an IPv4-mapped IPv6 address as the IPv4 address.
ToAddress(kind, addr, number) ==
    IF kind = IPv6 /\ SubSeq(addr, 1, 12) = Zeros(10) \o <<255, 255>>
    THEN Destination(IPv4, SubSeq(addr, 13, 16), number)
    ELSE Destination(kind, addr, number)

\* Mutant of NameOf: the length is taken for a part of the name.
NameOf_Whole(addr) == addr

\* A name may come with its length before it or without.
NameOf(addr) == IF Len(addr) = addr[1] + 1 THEN Tail(addr) ELSE addr

ParseBrookDestination(dst) ==
    IF Len(dst) < 3 THEN Refused
    ELSE LET addr == SubSeq(dst, 2, Len(dst) - 2)
             number == dst[Len(dst) - 1] * 256 + dst[Len(dst)]
         IN  CASE dst[1] = IPv4 /\ Len(addr) = 4 -> ToAddress(IPv4, addr, number)
               [] dst[1] = IPv6 /\ Len(addr) = 16 -> ToAddress(IPv6, addr, number)
               [] dst[1] = Domain /\ addr # <<>> /\ addr # <<0>> /\ Len(NameOf(addr)) <= 255
                    -> ToAddress(Domain, NameOf(addr), number)
               [] OTHER -> Refused
=============================================================================
