------------------------------ MODULE MCProxyStream ------------------------------
(* StreamPath on small instances: clients, whose meaning is written out here *)
(* once more.  The other bounds are in the configuration.                  *)
EXTENDS StreamPath

Site == Name(<<97, 46, 98>>)
Loopback == Shortened(<<>>, <<1>>)
Mapped == Shortened(<<>>, <<65535, 258, 772>>)
Odd == Dotted(<<1, 2, 3, 999>>)

Line(kind, host, number, path) ==
    [kind |-> kind, host |-> host, port |-> number, path |-> path]

MCText ==
    LET lines == <<
            Line("connect", Site, 0, 0),
            Line("connect", Loopback, 8443, 0),
            Line("connect", Site, 70000, 0),
            Line("absolute", Site, 0, 305),
            Line("absolute", Odd, 8080, 305),
            Line("origin", Site, 0, 0),
            Line("bare", Site, 0, 0),
            Line("host", Mapped, 8080, 0),
            Line("proxy", Site, 0, 0),
            Line("other", Site, 0, 0)>>
    IN  [u \in 300..309 |-> lines[u - 299]]

Body == <<10, 5>>

Socks5(methods, version, command, to) ==
    [protocol |-> "socks5", methods |-> methods, version |-> version, command |-> command, to |-> to, body |-> Body]
Http(lines, end, body) == [protocol |-> "http", lines |-> lines, end |-> end, body |-> body]
Other(body) == [protocol |-> "other", body |-> body]

Named == Destination(Domain, <<97, 46, 98>>, 443)
V4 == Destination(IPv4, <<10, 0, 0, 5>>, 80)
V6 == Destination(IPv6, Zeros(15) \o <<1>>, 80)

Case(client, asks, upload) == [client |-> client, asks |-> asks, upload |-> upload]

\* Whom a client asks for and what its target must get.
Good ==
    { Case(Socks5(<<2, 0>>, 5, 1, Named), Named, Body),
      Case(Socks5(<<0>>, 5, 1, V4), V4, Body),
      Case(Socks5(<<0>>, 5, 1, V6), V6, Body),
      Case(Http(<<300, 308>>, CRLF, Body), Named, Body),
      Case(Http(<<301>>, <<LF>>, Body), Destination(IPv6, Zeros(15) \o <<1>>, 8443), Body),
      Case(Http(<<303, 308, 309>>, CRLF, Body), Destination(Domain, <<97, 46, 98>>, 80),
           <<305, CR, LF, 309, CR, LF, CR, LF>> \o Body),
      Case(Http(<<304, 309, 308>>, <<LF>>, Body), Destination(Domain, <<1, 2, 3, 999>>, 8080),
           <<305, CR, LF, 309, CR, LF, CR, LF>> \o Body),
      Case(Http(<<305, 309, 307>>, CRLF, Body), Destination(IPv4, <<1, 2, 3, 4>>, 8080),
           <<305, CR, LF, 309, CR, LF, 307, CR, LF, CR, LF>> \o Body) }

Malformed ==
    { Socks5(<<2>>, 5, 1, V4),
      Socks5(<<0>>, 4, 1, V4),
      Socks5(<<0>>, 5, 2, V4),
      Socks5(<<0>>, 5, 1, Destination(2, <<1>>, 80)),
      Socks5(<<0>>, 5, 1, Destination(Domain, <<>>, 257)),
      Http(<<302, 309>>, CRLF, <<>>),
      Http(<<305, 309>>, CRLF, <<>>),
      Http(<<306>>, CRLF, <<>>),
      Http(<<309>>, CRLF, <<>>) }

\* A header that is too long, unless it comes in one chunk; a plain request
\* without a header line; two kinds of line end.
Odds ==
    { Http(<<303, 309, 309, 309, 309>>, CRLF, <<>>),
      Http(<<303>>, CRLF, Body),
      Other(<<303, LF, 309, CR, LF, 309, LF, LF>> \o Body) }

MCClients == {g.client : g \in Good} \cup Malformed \cup Odds
MCWires == {Bytes(c) : c \in MCClients}

ASSUME MeaningIsRight ==
    /\ \A g \in Good : Right(g.client) /\ Asks(g.client) = g.asks /\ Upload(g.client) = g.upload
    /\ \A c \in Malformed : Asks(c) = Refused

MCListenerTypes == {"auto"}
MCConfs == {[samePassword |-> TRUE, withoutBrook |-> FALSE, default |-> TRUE],
            [samePassword |-> FALSE, withoutBrook |-> TRUE, default |-> TRUE]}
MCClientClocks == {879, 1121}
MCClientNonces == {1}
MCServerNonces == {2}
MCReply == <<1, 2>>
=============================================================================
