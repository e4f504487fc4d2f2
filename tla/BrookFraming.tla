------------------------------ MODULE BrookFraming ------------------------------
(***************************************************************************)
(* The bytes of one encrypted Brook stream: what BrookTunnel seals and     *)
(* opens with brook-framing.js and brook-crypto.js and what                *)
(* handleEncryptedBrookStream (brook_stream.go) opens and seals.  Each     *)
(* side counts its nonces by itself, the client as two words and the       *)
(* server as one number, and each must come to the same.                   *)
(*                                                                         *)
(* A unit on the wire is one byte of a raw nonce or of a sealed box; a box *)
(* opens only when it is whole and key and nonce are those it was sealed   *)
(* with.                                                                   *)
(***************************************************************************)
EXTENDS ProxyAddress, SequencesExt

CONSTANTS
    WORD,               \* values of a nonce word (2^32 in the code)
    NONCE_LENGTH,       \* 12 in the code
    TAG_LENGTH,         \* 16 in the code
    CHUNK_SIZE,         \* the client's frames (32768 in the code)
    MAX_FRAME_PAYLOAD,  \* the server's frames (2014 in the code)
    MAX_HEADER_LENGTH,  \* 2048 in the code
    MAX_DRIFT,          \* 120 s in the code
    ServerClock,        \* the server's time
    ClientClocks,       \* the times the client's clock may show
    ClientNonces,       \* the nonces each side may draw
    ServerNonces,
    Confs,              \* whether the passwords agree, the client's mode, the server's default
    Reply               \* what the target sends

ASSUME FramingAssumption ==
    /\ WORD \in Nat \ {0} /\ NONCE_LENGTH \in Nat \ {0} /\ TAG_LENGTH \in Nat \ {0}
    /\ CHUNK_SIZE \in Nat \ {0} /\ MAX_FRAME_PAYLOAD \in Nat \ {0}
    /\ MAX_HEADER_LENGTH \in Nat /\ MAX_DRIFT \in Nat /\ ServerClock \in Nat
    /\ Confs \subseteq [samePassword : BOOLEAN, withoutBrook : BOOLEAN, default : BOOLEAN]
    /\ ClientClocks \subseteq Nat
    /\ ClientNonces \cup ServerNonces \subseteq 0..(WORD * WORD - 1)
    /\ Reply \in Seq(Nat)

\* The longest payload that the client takes.
LONGEST == 256 * 256 - 17

ASSUME LengthsAssumption == CHUNK_SIZE < 256 * 256 /\ MAX_FRAME_PAYLOAD <= LONGEST

VARIABLES
    conf,       \* the passwords and modes
    clock,      \* the client's clock
    tunnel,     \* where BrookTunnel's upstream is
    cn,         \* its nonce, as words, and the nonce it started from
    unsealed,   \* bytes taken from the client and not sealed
    sent,       \* all it took from the client to be sent on
    asked,      \* the destination it was given
    up,         \* the stream to the server: units in flight, and its end
    upEnd,
    server,     \* where the server is
    scn,        \* its copy of the client's nonce, and the nonce it started from
    mode,       \* the mode that opened the header
    target,     \* whom it dials
    remote,     \* what the target got
    answered,   \* how much of Reply the server read
    raw,        \* what it read and did not seal
    sn,         \* its own nonce, and the nonce it started from
    down,       \* the stream to the client
    downEnd,    \* "open", "fin" or "reset"
    rx,         \* rxBuffer
    csn,        \* the client's copy of the server's nonce, and where it started
    expected,   \* expectedPayloadLen
    got,        \* what the client got
    decoder     \* "nonce", "frames", "error" or "fin"

clientVars == <<conf, clock, tunnel, cn, unsealed, sent, asked>>
serverVars == <<server, scn, mode, target, remote>>
replyVars == <<answered, raw, sn>>
decoderVars == <<rx, csn, expected, got, decoder>>
framingVars == <<clientVars, up, upEnd, serverVars, replyVars, down, downEnd, decoderVars>>

-----------------------------------------------------------------------------
(* Nonces, keys and boxes *)

\* Mutant of NextWords: no carry.
NextWords_NoCarry(w) == [w EXCEPT !.low = (@ + 1) % WORD]

\* The client's nextNonce adds in the low word and carries into the high one.
NextWords(w) ==
    LET low == (w.low + 1) % WORD
    IN  [low |-> low, high |-> IF low = 0 THEN (w.high + 1) % WORD ELSE w.high]

ToWords(n) == [low |-> n % WORD, high |-> n \div WORD]
Value(w) == w.high * WORD + w.low

\* The server's NextNonce.
NextNonce(n) == (n + 1) % (WORD * WORD)

\* A key comes of the password in the form the mode implies and a nonce.
Key(password, withoutBrook, nonce) == <<password, withoutBrook, nonce>>

Seal(key, nonce, plain) ==
    [i \in 1..(Len(plain) + TAG_LENGTH) |-> [key |-> key, nonce |-> nonce, plain |-> plain, at |-> i]]

Opens(key, nonce, box) == box[1].nonce = nonce /\ box[1].key = key /\ box = Seal(key, nonce, box[1].plain)

\* A nonce sent in the clear.
RawNonce(n) == [i \in 1..NONCE_LENGTH |-> [key |-> <<>>, nonce |-> n, plain |-> <<>>, at |-> i]]

LENGTH_BOX == 2 + TAG_LENGTH

-----------------------------------------------------------------------------
(* The client's side of the upstream *)

FramingInit ==
    /\ conf \in Confs
    /\ clock \in ClientClocks
    /\ tunnel = "idle"
    /\ \E n \in ClientNonces : cn = [start |-> n, words |-> ToWords(n)]
    /\ unsealed = <<>> /\ sent = <<>> /\ asked = <<>> /\ up = <<>> /\ upEnd = FALSE
    /\ server = "reading" /\ scn = [start |-> 0, next |-> 0] /\ mode = FALSE
    /\ target = Refused /\ remote = <<>>
    /\ answered = 0 /\ raw = <<>>
    /\ \E n \in ServerNonces \ {cn.start} : sn = [start |-> n, next |-> n]   \* draws do not collide
    /\ down = <<>> /\ downEnd = "open"
    /\ rx = <<>> /\ csn = [start |-> 0, words |-> ToWords(0)] /\ expected = -1
    /\ got = <<>> /\ decoder = "nonce"

ClientPassword == IF conf.samePassword THEN "shared" ELSE "other"
ClientKey == Key(ClientPassword, conf.withoutBrook, cn.start)

\* sealFrame: the length and then the payload, each under a nonce of its own.
ClientSeals(plain) ==
    LET first == Value(cn.words)
        second == Value(NextWords(cn.words))
    IN  /\ up' = up \o Seal(ClientKey, first, PortBytes(Len(plain))) \o Seal(ClientKey, second, plain)
        /\ cn' = [cn EXCEPT !.words = NextWords(NextWords(@))]

SendNonce ==
    /\ tunnel = "idle" /\ tunnel' = "header"
    /\ up' = RawNonce(cn.start)
    /\ UNCHANGED <<conf, clock, cn, unsealed, sent, asked, upEnd, serverVars, replyVars, down, downEnd, decoderVars>>

\* The time is made even, which says TCP.
Even(t) == IF t % 2 = 0 THEN t ELSE t + 1

\* Of the timestamp's four bytes the model keeps one unit.
SendHeader(dst, first) ==
    /\ tunnel = "header" /\ tunnel' = "leftover"
    /\ ClientSeals(<<Even(clock), 0, 0, 0>> \o dst)
    /\ unsealed' = first /\ sent' = first /\ asked' = dst
    /\ UNCHANGED <<conf, clock, upEnd, serverVars, replyVars, down, downEnd, decoderVars>>

SendFrame ==
    /\ unsealed # <<>>
    /\ LET n == IF Len(unsealed) > CHUNK_SIZE THEN CHUNK_SIZE ELSE Len(unsealed)
       IN  /\ ClientSeals(SubSeq(unsealed, 1, n))
           /\ unsealed' = SubSeq(unsealed, n + 1, Len(unsealed))
    /\ UNCHANGED <<conf, clock, tunnel, sent, asked, upEnd, serverVars, replyVars, down, downEnd, decoderVars>>

\* The upstream loop reads only when the server's nonce has come.
TunnelMayRead == tunnel = "leftover" /\ unsealed = <<>> /\ decoder \in {"frames", "fin"}

UpstreamReads(chunk) ==
    /\ TunnelMayRead /\ unsealed' = chunk /\ sent' = sent \o chunk
    /\ UNCHANGED <<conf, clock, tunnel, cn, asked, up, upEnd, serverVars, replyVars, down, downEnd, decoderVars>>

TunnelFin ==
    /\ TunnelMayRead /\ tunnel' = "fin" /\ upEnd' = TRUE
    /\ UNCHANGED <<conf, clock, cn, unsealed, sent, asked, up, serverVars, replyVars, down, downEnd, decoderVars>>

-----------------------------------------------------------------------------
(* The server *)

\* The mode tried first is the server's default, then the other one.
Candidates == <<conf.default, ~conf.default>>

OpeningModes(nonce, box) == {i \in 1..2 : Opens(Key("shared", Candidates[i], nonce), nonce, box)}

LengthIn(box) == box[1].plain[1] * 256 + box[1].plain[2]

Ends(how) ==
    /\ server' = "ended" /\ downEnd' = how
    /\ UNCHANGED <<clientVars, up, upEnd, scn, mode, target, remote, replyVars, down, decoderVars>>

\* The deferred CancelWrite.
ServerEnds == Ends("reset")

Deadline == server = "reading" /\ ServerEnds

\* The nonce, the length of the header and the header, once they are there.
HeaderBox == SubSeq(up, NONCE_LENGTH + 1, NONCE_LENGTH + LENGTH_BOX)
HeaderLength == NONCE_LENGTH + LENGTH_BOX + LengthIn(HeaderBox) + TAG_LENGTH

OpenHeader ==
    /\ server = "reading" /\ Len(up) > NONCE_LENGTH /\ Len(up) >= HeaderLength
    /\ LET nonce == up[1].nonce
           modes == OpeningModes(nonce, HeaderBox)
           m == Candidates[CHOOSE i \in modes : \A j \in modes : i <= j]
           box == SubSeq(up, NONCE_LENGTH + LENGTH_BOX + 1, HeaderLength)
           header == box[1].plain
           drift == {d \in 0..MAX_DRIFT : ServerClock = header[1] + d \/ header[1] = ServerClock + d}
           dest == ParseBrookDestination(SubSeq(header, 5, Len(header)))
       IN  IF modes = {} THEN ServerEnds
           ELSE IF LengthIn(HeaderBox) > MAX_HEADER_LENGTH \/ ~Opens(Key("shared", m, nonce), NextNonce(nonce), box)
                   \/ Len(header) < 7 \/ drift = {} \/ dest = Refused
           THEN ServerEnds
           ELSE /\ server' = IF header[1] % 2 = 0 THEN "dialling" ELSE "udp"
                /\ scn' = [start |-> nonce, next |-> NextNonce(NextNonce(nonce))]
                /\ mode' = m /\ target' = dest
                /\ up' = SubSeq(up, HeaderLength + 1, Len(up))
                /\ down' = RawNonce(sn.start)
                /\ UNCHANGED <<clientVars, upEnd, remote, replyVars, downEnd, decoderVars>>

Dial == \* the target answers, or the stream is closed
    /\ server = "dialling"
    /\ \/ /\ server' = "relay"
          /\ UNCHANGED <<clientVars, up, upEnd, scn, mode, target, remote, replyVars, down, downEnd, decoderVars>>
       \/ ServerEnds

ServerClientKey == Key("shared", mode, scn.start)
FrameLength == LENGTH_BOX + LengthIn(up) + TAG_LENGTH

\* A frame of length zero has no payload box for the server.
OpenFrame ==
    /\ server = "relay" /\ up # <<>> /\ Len(up) >= LENGTH_BOX
    /\ IF ~Opens(ServerClientKey, scn.next, SubSeq(up, 1, LENGTH_BOX)) THEN ServerEnds
       ELSE IF LengthIn(up) = 0
       THEN /\ up' = SubSeq(up, LENGTH_BOX + 1, Len(up))
            /\ scn' = [scn EXCEPT !.next = NextNonce(@)]
            /\ UNCHANGED <<clientVars, upEnd, server, mode, target, remote, replyVars, down, downEnd, decoderVars>>
       ELSE /\ Len(up) >= FrameLength
            /\ LET box == SubSeq(up, LENGTH_BOX + 1, FrameLength)
               IN  IF ~Opens(ServerClientKey, NextNonce(scn.next), box) THEN ServerEnds
                   ELSE /\ remote' = remote \o box[1].plain
                        /\ up' = SubSeq(up, FrameLength + 1, Len(up))
                        /\ scn' = [scn EXCEPT !.next = NextNonce(NextNonce(@))]
                        /\ UNCHANGED <<clientVars, upEnd, server, mode, target, replyVars, down, downEnd, decoderVars>>

ReadReply(n) ==
    /\ server = "relay" /\ raw = <<>> /\ n \in 1..(Len(Reply) - answered)
    /\ answered' = answered + n /\ raw' = SubSeq(Reply, answered + 1, answered + n)
    /\ UNCHANGED <<clientVars, up, upEnd, serverVars, sn, down, downEnd, decoderVars>>

ServerKey == Key("shared", mode, sn.start)

SealReply ==
    /\ server = "relay" /\ raw # <<>>
    /\ LET n == IF Len(raw) > MAX_FRAME_PAYLOAD THEN MAX_FRAME_PAYLOAD ELSE Len(raw)
           plain == SubSeq(raw, 1, n)
           second == NextNonce(sn.next)
       IN  /\ down' = down \o Seal(ServerKey, sn.next, PortBytes(n)) \o Seal(ServerKey, second, plain)
           /\ raw' = SubSeq(raw, n + 1, Len(raw))
           /\ sn' = [sn EXCEPT !.next = NextNonce(second)]
    /\ UNCHANGED <<clientVars, up, upEnd, serverVars, answered, downEnd, decoderVars>>

\* The target has sent all and closes; or the relay is torn down.
ServerFin == server = "relay" /\ raw = <<>> /\ answered = Len(Reply) /\ Ends("fin")
TornDown == server = "relay" /\ ServerEnds

\* CancelWrite after Close, and any reset, may take what is in flight with it.
Lost ==
    /\ server = "ended" /\ down # <<>>
    /\ downEnd' = "reset" /\ down' = <<>>
    /\ UNCHANGED <<clientVars, up, upEnd, serverVars, replyVars, decoderVars>>

-----------------------------------------------------------------------------
(* The client's decoder: processRxQueue runs as far as the bytes go before it
   takes the next chunk. *)

HasNonce == decoder = "nonce" /\ Len(rx) >= NONCE_LENGTH
HasLength == decoder = "frames" /\ expected = -1 /\ Len(rx) >= LENGTH_BOX
HasPayload == decoder = "frames" /\ expected >= 0 /\ Len(rx) >= expected + TAG_LENGTH

Receive(n) ==
    /\ decoder \in {"nonce", "frames"} /\ ~(HasNonce \/ HasLength \/ HasPayload)
    /\ n \in 1..Len(down)
    /\ rx' = rx \o SubSeq(down, 1, n) /\ down' = SubSeq(down, n + 1, Len(down))
    /\ UNCHANGED <<clientVars, up, upEnd, serverVars, replyVars, downEnd, csn, expected, got, decoder>>

Decodes(n) ==
    /\ rx' = SubSeq(rx, n + 1, Len(rx))
    /\ UNCHANGED <<clientVars, up, upEnd, serverVars, replyVars, down, downEnd>>

TakeNonce ==
    /\ HasNonce /\ decoder' = "frames"
    /\ csn' = [start |-> rx[1].nonce, words |-> ToWords(rx[1].nonce)]
    /\ Decodes(NONCE_LENGTH) /\ UNCHANGED <<expected, got>>

ClientServerKey == Key(ClientPassword, conf.withoutBrook, csn.start)

Breaks == decoder' = "error" /\ Decodes(0) /\ UNCHANGED <<csn, expected, got>>

OpenLength ==
    /\ HasLength
    /\ IF ~Opens(ClientServerKey, Value(csn.words), SubSeq(rx, 1, LENGTH_BOX)) THEN Breaks
       ELSE /\ expected' = LengthIn(rx)
            /\ csn' = [csn EXCEPT !.words = NextWords(@)]
            /\ Decodes(LENGTH_BOX) /\ UNCHANGED <<got, decoder>>

OpenPayload ==
    /\ HasPayload
    /\ IF ~Opens(ClientServerKey, Value(csn.words), SubSeq(rx, 1, expected + TAG_LENGTH)) THEN Breaks
       ELSE /\ got' = got \o rx[1].plain
            /\ expected' = -1
            /\ csn' = [csn EXCEPT !.words = NextWords(@)]
            /\ Decodes(expected + TAG_LENGTH) /\ UNCHANGED decoder

Finish ==
    /\ decoder \in {"nonce", "frames"} /\ ~(HasNonce \/ HasLength \/ HasPayload)
    /\ downEnd # "open" /\ down = <<>>
    /\ decoder' = IF downEnd = "reset" \/ rx # <<>> \/ expected # -1 \/ decoder = "nonce" THEN "error" ELSE "fin"
    /\ Decodes(0) /\ UNCHANGED <<csn, expected, got>>

FramingStep ==
    \/ SendFrame
    \/ OpenHeader \/ Deadline \/ Dial \/ OpenFrame
    \/ \E n \in 1..Len(Reply) : ReadReply(n)
    \/ SealReply \/ ServerFin \/ TornDown \/ Lost
    \/ \E n \in 1..Len(down) : Receive(n)
    \/ OpenLength \/ OpenPayload \/ Finish

\* The stream of any client: whatever destination and leftover a handshake makes
\* of its first bytes, and whatever it sends later.
FramingNext ==
    \/ FramingStep \/ SendNonce \/ TakeNonce \/ TunnelFin
    \/ \E bytes \in Seq(Nat) :
           UpstreamReads(bytes) \/ \E destination \in Seq(Nat) : SendHeader(destination, bytes)

FramingSpec == FramingInit /\ [][FramingNext]_framingVars

-----------------------------------------------------------------------------
FramingTypeOK ==
    /\ clock \in ClientClocks
    /\ tunnel \in {"idle", "header", "leftover", "fin"}
    /\ cn.start \in ClientNonces /\ Value(cn.words) \in 0..(WORD * WORD - 1)
    /\ unsealed \in Seq(Nat) /\ sent \in Seq(Nat) /\ asked \in Seq(Nat)
    /\ remote \in Seq(Nat) /\ raw \in Seq(Nat) /\ got \in Seq(Nat)
    /\ server \in {"reading", "dialling", "udp", "relay", "ended"}
    /\ sn.next \in 0..(WORD * WORD - 1) /\ scn.next \in 0..(WORD * WORD - 1)
    /\ answered \in 0..Len(Reply)
    /\ expected \in -1..LONGEST
    /\ decoder \in {"nonce", "frames", "error", "fin"}

\* Neither side ever loses count: a box never fails to open between two sides
\* that share the password, and a stream that was not cut off never ends in an
\* error.
InStep ==
    conf.samePassword =>
        /\ server = "relay" /\ up # <<>> /\ Len(up) >= LENGTH_BOX => up[1].nonce = scn.next
        /\ decoder = "error" => downEnd = "reset"

\* The target gets what the tunnel took from its client, in order and without a
\* gap, and all of it once nothing is left unsealed or in flight; and the server
\* dials, over TCP, nobody but whom the tunnel was given.
UploadInOrder ==
    /\ IsPrefix(remote, sent)
    /\ unsealed = <<>> /\ up = <<>> => remote = sent
    /\ target # Refused => target = ParseBrookDestination(asked) /\ server # "udp"

\* The client gets a prefix of what the target sent, and all of it before a
\* clean end.
DownloadInOrder == IsPrefix(got, Reply) /\ (decoder = "fin" => got = Reply)

\* However the frames of either side are cut and the bytes of the reply arrive:
\* both sides stay in step, neither direction loses, adds or swaps a byte, and the
\* target is the one the tunnel was given.
BytesInOrder == InStep /\ UploadInOrder /\ DownloadInOrder
=============================================================================
