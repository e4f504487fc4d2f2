----------------------------- MODULE ProxyHandshake -----------------------------
(***************************************************************************)
(* What the proxy does with the first bytes of a client until it knows     *)
(* where the client wants to go: ProtocolDetector.detect, the SOCKS5       *)
(* handshake and the HTTP proxy request.  The bytes come in chunks that    *)
(* have nothing to do with the messages.                                   *)
(*                                                                         *)
(* A unit of the client's bytes is an octet or, above 255, the text of a   *)
(* line without its end, whose meaning is Text[unit]:                      *)
(*   kind      "connect", "absolute", "origin", "bare" (a request line of  *)
(*             one word), "host", "proxy" (Proxy-...), "other"             *)
(*   host, port  the authority named; port 0 where none is                 *)
(*   path      an absolute request line in origin form (a unit)            *)
(***************************************************************************)
EXTENDS ProxyAddress, SequencesExt

CONSTANTS
    Text,           \* the texts of lines
    Wires,          \* what clients may send before the proxy is told the target
    ListenerTypes,  \* "auto", "socks5" or "http"
    MAX_HEADER      \* the most a buffer may hold without a header end

Unit == Octet \cup DOMAIN Text

ASSUME HandshakeAssumption ==
    /\ MAX_HEADER \in Nat /\ ListenerTypes \subseteq {"auto", "socks5", "http"}
    /\ DOMAIN Text \subseteq Nat \ Octet
    /\ \A u \in DOMAIN Text : IsHost(Text[u].host) /\ Text[u].port \in Nat /\ Text[u].path \in Nat
    /\ Wires \subseteq Seq(Unit)

CR == 13
LF == 10
CRLF == <<CR, LF>>

VARIABLES
    wire,       \* all the client sends
    given,      \* how much of it was delivered
    type,       \* the listener's type, then the protocol
    stage,      \* where the handshake is
    buf,        \* bytes read and not parsed
    replies,    \* what the client was sent
    dst,        \* the destination for the Brook header
    leftover,   \* bytes that go upstream before anything read later
    isConnect,
    replySent

handshakeVars == <<wire, given, type, stage, buf, replies, dst, leftover, isConnect, replySent>>

HandshakeInit ==
    /\ wire \in Wires /\ given = 0
    /\ type \in ListenerTypes
    /\ stage = "first"
    /\ buf = <<>> /\ replies = <<>> /\ dst = <<>> /\ leftover = <<>>
    /\ isConnect = FALSE /\ replySent = FALSE

IsText(u) == u \in DOMAIN Text
Is(u, kinds) == IsText(u) /\ Text[u].kind \in kinds

-----------------------------------------------------------------------------
(* Reading *)

\* The places where a header may end.
HeaderEnds(b) ==
    {i + 1 : i \in {j \in 1..(Len(b) - 1) : SubSeq(b, j, j + 1) = <<LF, LF>>}}
    \cup {i + 3 : i \in {j \in 1..(Len(b) - 3) : SubSeq(b, j, j + 3) = CRLF \o CRLF}}

\* The first of them, 0 when there is none.
HeaderEnd(b) == IF HeaderEnds(b) = {} THEN 0 ELSE CHOOSE e \in HeaderEnds(b) : \A f \in HeaderEnds(b) : e <= f

\* How much of the buffer the next step needs; it has been there already.
Need ==
    CASE stage = "greeting" -> 2
      [] stage = "methods" -> 2 + buf[2]
      [] stage = "request" -> 4
      [] stage = "name" -> 5
      [] stage = "address" ->
           4 + (CASE buf[4] = IPv4 -> 4 [] buf[4] = Domain -> 1 + buf[5] [] OTHER -> 16) + 2

Waits ==
    \/ stage = "first"
    \/ stage \in {"greeting", "methods", "request", "name", "address"} /\ Len(buf) < Need
    \/ stage = "header" /\ HeaderEnd(buf) = 0 /\ Len(buf) <= MAX_HEADER

Stay(vs) == UNCHANGED vs /\ UNCHANGED <<wire, given, type>>

Detect(u) ==
    CASE u = 5 -> "socks5"
      [] Is(u, {"connect", "absolute", "origin", "bare"}) -> "http"
      [] OTHER -> "unknown"

\* A read resolves with the client's next n units.
Chunk(n) ==
    /\ Waits /\ n \in 1..(Len(wire) - given)
    /\ given' = given + n
    /\ buf' = buf \o SubSeq(wire, given + 1, given + n)
    /\ IF stage = "first"
       THEN /\ type' = IF type = "auto" THEN Detect(buf'[1]) ELSE type
            /\ stage' = CASE type' = "socks5" -> "greeting"
                          [] type' = "http" -> "header"
                          [] OTHER -> "failed"
       ELSE UNCHANGED <<type, stage>>
    /\ UNCHANGED <<wire, replies, dst, leftover, isConnect, replySent>>

Fails(code) ==
    /\ stage' = "failed"
    /\ replies' = IF code = "none" THEN replies ELSE Append(replies, code)
    /\ Stay(<<buf, dst, leftover, isConnect, replySent>>)

\* The client leaves or the 8 s are over.
Abandon == Waits /\ Fails("none")

Goes(next) == stage' = next /\ Stay(<<buf, replies, dst, leftover, isConnect, replySent>>)

-----------------------------------------------------------------------------
(* SOCKS5 *)

Has(st) == stage = st /\ Len(buf) >= Need

Version == Has("greeting") /\ IF buf[1] = 5 THEN Goes("methods") ELSE Fails("none")

Methods ==
    /\ Has("methods")
    /\ IF \E i \in 3..(2 + buf[2]) : buf[i] = 0
       THEN \/ /\ replies' = Append(replies, "no_auth")
               /\ buf' = SubSeq(buf, 3 + buf[2], Len(buf))
               /\ stage' = "request"
               /\ Stay(<<dst, leftover, isConnect, replySent>>)
            \/ Fails("none")       \* the write throws
       ELSE Fails("no_acceptable_method")

Request ==
    /\ Has("request")
    /\ CASE buf[1] # 5 -> Fails("none")
         [] buf[1] = 5 /\ buf[2] # 1 -> Fails("command_not_supported")
         [] buf[1] = 5 /\ buf[2] = 1 ->
              CASE buf[4] \in {IPv4, IPv6} -> Goes("address")
                [] buf[4] = Domain -> Goes("name")
                [] OTHER -> Fails("address_type_not_supported")

NameLength == Has("name") /\ IF buf[5] = 0 THEN Fails("none") ELSE Goes("address")

\* Mutant of Address: what came with the request is forgotten.
Address_Forgets ==
    /\ Has("address")
    /\ dst' = SubSeq(buf, 4, Need)
    /\ stage' = "done"
    /\ Stay(<<buf, replies, leftover, isConnect, replySent>>)

Address ==
    /\ Has("address")
    /\ dst' = SubSeq(buf, 4, Need)
    /\ leftover' = SubSeq(buf, Need + 1, Len(buf))
    /\ stage' = "done"
    /\ Stay(<<buf, replies, isConnect, replySent>>)

-----------------------------------------------------------------------------
(* HTTP *)

\* The request line ends at the first CR LF of the whole header and only in
\* a header without one at the first LF.
FirstLineEnd(h) ==
    LET crlf == {i \in 1..(Len(h) - 1) : SubSeq(h, i, i + 1) = CRLF}
        ends == IF crlf # {} THEN crlf ELSE {i \in 1..Len(h) : h[i] = LF}
    IN  CHOOSE e \in ends : \A f \in ends : e <= f

\* The units of s that are in S, in their order.
Only(s, S) ==
    LET only[n \in 0..Len(s)] ==
            IF n = 0 THEN <<>> ELSE IF s[n] \in S THEN Append(only[n - 1], s[n]) ELSE only[n - 1]
    IN  only[Len(s)]

Texts(units) == Only(units, DOMAIN Text)

\* The lines the proxy passes on.
Kept(lines) == Only(lines, {u \in DOMAIN Text : ~Is(u, {"proxy"})})

\* Every line with its end behind it.
EachWith(lines, end) ==
    LET width == Len(end) + 1
    IN  [n \in 1..(Len(lines) * width) |->
            IF (n - 1) % width = 0 THEN lines[((n - 1) \div width) + 1] ELSE end[(n - 1) % width]]

\* The Host header, on any line but the first; 0 when there is none.
HostLine(h) ==
    LET lines == {i \in 2..Len(h) : h[i - 1] = LF /\ Is(h[i], {"host"})}
    IN  IF lines = {} THEN 0 ELSE h[CHOOSE i \in lines : \A j \in lines : i <= j]

\* parseHostPort and URL: the port named or the one the scheme implies.
PortOf(authority, default) == IF Text[authority].port = 0 THEN default ELSE Text[authority].port

\* The header with the request in origin form, Proxy- lines dropped and every
\* line ended by CR LF; a header of no lines ends in one CR LF more.
Rewritten(request, lines) ==
    LET kept == Kept(Texts(lines))
    IN  <<IF Is(request, {"absolute"}) THEN Text[request].path ELSE request>> \o CRLF
        \o (IF kept = <<>> THEN CRLF ELSE EachWith(kept, CRLF))
        \o CRLF

TooLarge == stage = "header" /\ HeaderEnd(buf) = 0 /\ Len(buf) > MAX_HEADER /\ Fails("431")

Header ==
    /\ stage = "header" /\ HeaderEnd(buf) # 0
    /\ LET h == SubSeq(buf, 1, HeaderEnd(buf))
           rest == SubSeq(buf, HeaderEnd(buf) + 1, Len(buf))
           end == FirstLineEnd(h)
           words == Texts(SubSeq(h, 1, end - 1))
           request == words[1]
           connect == Is(request, {"connect"})
           authority == IF Is(request, {"connect", "absolute"}) THEN request ELSE HostLine(h)
           host == Text[authority].host
           port == PortOf(authority, IF connect THEN 443 ELSE 80)
       IN  CASE words = <<>> \/ (Len(words) = 1 /\ Is(words[1], {"bare"})) -> Fails("400")
             [] words # <<>> /\ ~(Len(words) = 1 /\ Is(words[1], {"bare"})) ->
                  CASE authority = 0 -> Fails("400")
                    [] authority # 0 /\ ~Encodable(host, port) -> Fails("none")
                    [] authority # 0 /\ Encodable(host, port) ->
                         /\ dst' = EncodeAddress(host, port)
                         /\ leftover' =
                              IF connect THEN rest
                              ELSE Rewritten(request, SubSeq(h, end, Len(h))) \o rest
                         /\ isConnect' = connect
                         /\ stage' = "done"
                         /\ Stay(<<buf, replies, replySent>>)

-----------------------------------------------------------------------------
(* The two functions the handshake returns, of which one answers once. *)

Answer(says) ==
    /\ stage = "done" /\ ~replySent /\ replySent' = TRUE
    /\ replies' = IF says = "" THEN replies ELSE Append(replies, says)
    /\ UNCHANGED <<wire, given, type, stage, buf, dst, leftover, isConnect>>

\* A plain HTTP request is answered by its target.
SendSuccess == Answer(IF type = "http" /\ ~isConnect THEN "" ELSE "success")
SendFailure == Answer("failure")

HandshakeStep ==
    \/ \E n \in 1..Len(wire) : Chunk(n)
    \/ Abandon
    \/ Version \/ Methods \/ Request \/ NameLength \/ Address
    \/ TooLarge \/ Header

HandshakeTypeOK ==
    /\ wire \in Wires /\ given \in 0..Len(wire)
    /\ type \in {"auto", "socks5", "http", "unknown"}
    /\ stage \in {"first", "greeting", "methods", "request", "name", "address", "header",
                  "done", "failed"}
    /\ buf \in Seq(Unit) /\ dst \in Seq(Nat) /\ leftover \in Seq(Nat)
    /\ replies \in Seq({"no_auth", "no_acceptable_method", "command_not_supported",
                        "address_type_not_supported", "400", "431", "success", "failure"})
    /\ isConnect \in BOOLEAN /\ replySent \in BOOLEAN
=============================================================================
