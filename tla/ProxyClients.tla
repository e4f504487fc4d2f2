------------------------------- MODULE ProxyClients -------------------------------
(***************************************************************************)
(* What clients send to the proxy and what they mean by it: whom the       *)
(* server has to dial for them, and which bytes the target has to get.     *)
(*                                                                         *)
(*   protocol    "socks5", "http", or "other": anything else               *)
(*   methods, version, command, to     of a SOCKS5 request                 *)
(*   lines, end                        of an HTTP header                   *)
(*   body                              what comes behind the message       *)
(***************************************************************************)
EXTENDS ProxyStream

CONSTANT Clients

-----------------------------------------------------------------------------
(* What they send *)

SocksMessage(c) ==
    <<5, Len(c.methods)>> \o c.methods \o <<c.version, c.command, 0>> \o DestinationBytes(c.to)

HeaderOf(lines, end) == EachWith(lines, end) \o end

MessageOf(c) ==
    CASE c.protocol = "socks5" -> SocksMessage(c)
      [] c.protocol = "http" -> HeaderOf(c.lines, c.end)
      [] OTHER -> <<>>

Bytes(c) == MessageOf(c) \o c.body

\* A name has its length before it, an address the length its type says; a
\* request of another type has any bytes.
IsDestination(d) ==
    /\ d.type \in Octet /\ d.host \in Seq(Octet) /\ d.port \in Word
    /\ d.type = IPv4 => Len(d.host) = 4
    /\ d.type = IPv6 => Len(d.host) = 16
    /\ d.type = Domain => Len(d.host) \in Octet

ASSUME ClientsAssumption ==
    /\ \A c \in Clients :
           /\ c.protocol \in {"socks5", "http", "other"} /\ c.body \in Seq(Unit)
           /\ c.protocol = "socks5" => /\ c.methods \in Seq(Octet) /\ Len(c.methods) \in Octet
                                       /\ c.version \in Octet /\ c.command \in Octet /\ IsDestination(c.to)
           /\ c.protocol = "http" => /\ c.lines \in Seq(DOMAIN Text) /\ c.lines # <<>>
                                     /\ c.end \in {CRLF, <<LF>>}
    /\ Wires = {Bytes(c) : c \in Clients}

-----------------------------------------------------------------------------
(* What they mean *)

\* The line that names the target, 0 when none does.
Authority(lines) ==
    LET hosts == {i \in 2..Len(lines) : Is(lines[i], {"host"})}
    IN  IF Is(lines[1], {"connect", "absolute"}) THEN lines[1]
        ELSE IF hosts = {} THEN 0 ELSE lines[CHOOSE i \in hosts : \A j \in hosts : i <= j]

Connects(lines) == Is(lines[1], {"connect"})
AskedPort(lines) == PortOf(Authority(lines), IF Connects(lines) THEN 443 ELSE 80)

\* Whom a message asks for, Refused when it asks for nobody that can be dialled.
SocksAsks(c) ==
    IF /\ \E i \in DOMAIN c.methods : c.methods[i] = 0
       /\ c.version = 5 /\ c.command = 1
       /\ c.to.type \in {IPv4, IPv6} \/ (c.to.type = Domain /\ c.to.host # <<>>)
    THEN ToAddress(c.to.type, c.to.host, c.to.port)
    ELSE Refused

HttpAsks(lines) ==
    LET host == Text[Authority(lines)].host
    IN  IF Is(lines[1], {"bare"}) \/ Authority(lines) = 0 THEN Refused
        ELSE IF ~Encodable(host, AskedPort(lines)) THEN Refused
        ELSE ToAddress(HostType(host), HostBytes(host), AskedPort(lines))

Asks(c) ==
    CASE c.protocol = "socks5" -> SocksAsks(c)
      [] c.protocol = "http" -> HttpAsks(c.lines)
      [] OTHER -> Refused

\* A plain request reaches its target in origin form and without the lines that
\* are the proxy's; one with no other line does not reach it as it was meant.
PassedOn(lines) == Kept(Tail(lines))
Plain(c) == c.protocol = "http" /\ ~Connects(c.lines)

Upload(c) ==
    IF Plain(c)
    THEN HeaderOf(<<IF Is(c.lines[1], {"absolute"}) THEN Text[c.lines[1]].path ELSE c.lines[1]>>
                  \o PassedOn(c.lines), CRLF) \o c.body
    ELSE c.body

\* A message that must succeed: it names a target, begins like a request and is
\* no longer than a header may be.
Right(c) ==
    /\ Asks(c) # Refused
    /\ c.protocol = "http" => /\ Is(c.lines[1], {"connect", "absolute", "origin"})
                              /\ Len(MessageOf(c)) <= MAX_HEADER + 1

Meaning(c) ==
    [protocol |-> c.protocol, bytes |-> Bytes(c), length |-> Len(MessageOf(c)), right |-> Right(c),
     asks |-> Asks(c), upload |-> Upload(c), bare |-> Plain(c) /\ PassedOn(c.lines) = <<>>]

Meanings == {Meaning(c) : c \in {d \in Clients : d.protocol # "other"}}

\* What the client means, if the proxy takes it for one of its protocol, or for none
\* it knows.
Speaks(m) == m.bytes = wire /\ type \in {"auto", "unknown", m.protocol}

-----------------------------------------------------------------------------
\* The variables keep their types.  However a client's message was cut into
\* chunks and in whichever of the four forms it named the target: a client that
\* sent a whole message is never waited for, one whose message is right is not
\* told that it is wrong, and the server dials nobody but whom the client asked
\* for.
TargetAgrees ==
    /\ ProxyTypeOK
    /\ \A m \in Meanings : Speaks(m) =>
           /\ given >= m.length => ~Waits
           /\ m.right => \A i \in DOMAIN replies : replies[i] \in {"no_auth", "success", "failure"}
           /\ target # Refused => target = m.asks

\* The target gets the client's bytes and nothing else: from the end of the
\* message on, whole and in order, wherever the chunks, the client's frames
\* and the leftover of the handshake begin and end; and all of them when the
\* client has closed and nothing is in flight.  Left out are the plain requests of
\* which no header line is passed on: the rewriting puts an empty line too many
\* behind their head, and the target does not get what was sent.
UploadIsBody ==
    \A m \in Meanings : Speaks(m) /\ ~m.bare =>
        /\ IsPrefix(remote, m.upload)
        /\ tunnel = "fin" /\ unsealed = <<>> /\ up = <<>> => remote = m.upload
=============================================================================
