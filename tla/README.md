# A TLA+ verification of iwa-brook-quic

iwa-brook-quic is a local SOCKS5/HTTP proxy that runs in a browser as an
Isolated Web App and relays each TCP connection, encrypted, over one stream of a
pool of WebTransport connections to a Brook server written in Go. This directory
holds TLA+ models of it, the TLC configurations that check them, and TLAPS
proofs. Paths below are relative to the repository; `core/`, `server/`,
`webtransport/`, `protocols/` and `workers/` stand under
`brook-quicclient/src/`, `app.js` under `brook-quicclient/`, and Go files under
`brook-quicserver.go/`.

    tlc -workers 2 -config MCBrookTunnel.cfg MCBrookTunnel
    tlapm BrookTunnelProofs.tla

## 1. The system

| Component | State | Operations | Hard behaviour |
|---|---|---|---|
| Brook tunnel, `core/brook-tunnel.js` | locals of one `run()`: rx queue and buffer, promises, half-close flags, two timers, reason | `run`, `processRxQueue`, `cleanup`, callbacks `onData`/`onClose`/`onError` | three activities interleave at their awaits; FIN, close and data overtake each other; timers race settled promises; retry must leave the client usable |
| Proxy dispatcher, `server/proxy-dispatcher.js` | active handlers, attempts, `quicSession`, `proxyReplied`, `clientDataConsumed` | `start`, `stop`, `handleConnection`, `dropAllConnections` | late confirmations of an attempt already given up; cancel while a session is acquired; stop while sockets are accepted |
| TCP listener, `server/tcp-listener.js` | active sockets, running flags | `start`, accept loop, `stop` | limit on connections; a socket accepted during stop |
| Connection pool, `webtransport/wt-connection-manager.js` | slots with state, transport, promise, controller, load; aggregate state | `connect`, `createSession`, `close`, `resetSession` | single flight; dials that end after loss, reset or close; load that leaks |
| Stream session, `webtransport/wt-stream-adapter.js` | handlers, early buffer, open flag | `send`, `closeWrite`, `close`, `registerStream` | data, FIN and loss before the handlers are there; FIN followed by the close of the session |
| Network monitor, `core/network-monitor.js` | online flag, check under way, failures | `start`, `stop`, probes | a callback that comes after `stop`; a change while the callback of the last one runs |
| Application, `app.js`, `ui/ui-controller.js` | monitor, pool, dispatcher of the current start; the button | `onStart`, `onStop`, `onStatusChange` | failures half-way through a start; callbacks that work on what the variables hold by then |
| Framing, crypto, addresses, `core/brook-framing.js`, `core/brook-crypto.js`, `core/byte-utils.js`, `brook_crypto.go`, `socks5.go` | two nonces for each direction | seal, open, encode | chunks that end anywhere; two implementations of one counter and of one address format |
| Parsers, `protocols/` | buffer of the handshake | detection, SOCKS5, HTTP | messages cut anywhere; bytes behind a message |
| Workers, `workers/` | map of workers, ports, queues, tracker | messages between three kinds of worker | replies that cross; a worker that dies with its messages; a second wiring that `app.js` does not use |
| DNS resolver, `core/dns-resolver.js` | cache, pending queries | `resolveIpv4`, `clear` | shared queries; an asynchronous callback that overlaps itself |
| Go server, `server.go`, `quic.go`, `brook_stream.go` | listeners, connections, probes, stream slots | listen, classify, relay, close | two goroutines of a stream under shared deadlines; two probes of a connection; `Close` during `ListenAndServe` |
| TCP listener page, `listener/app.js` | one server socket; a Map of clients, each with reader, writer, flags; a log | `startServer`, accept loop, `sendToClient`, `broadcast`, `disconnectClient` | a broadcast walks the Map while clients come and go; a client disconnected by its read loop and by the operator while writes are under way |
| TCP client page, `client/app.js` | one socket with reader and writer, flags, the interval sender, a log | `connect`, `sendMessage`, `readStream`, `disconnect` | `disconnect` takes the connection down over three awaits, beside timers and the button |
| Hub, web server, tools, build | | | |

How they interact. `app.js` makes a monitor, a pool and a dispatcher for each
start. A `TcpListener` hands each socket to `ProxyDispatcher.handleConnection`,
which parses the proxy request, asks the pool for a stream session, makes a
`BrookTunnel` of it and awaits `run()`, up to `MAX_ATTEMPTS` times. The tunnel
calls back: `sendSuccess` once the server's nonce has been digested,
`sendFailure` on a last attempt, `onClientDataRead` as soon as the client's
input has been touched. The stream session calls the tunnel's `onData`,
`onClose` and `onError`. The monitor is read by dispatcher and pool and calls
`app.js`, which reconnects the pool or drops the dispatcher's connections. The
worker wiring does the same with messages in the place of calls. The listener's
and the client's page are programs of their own, to which the hub links. The JavaScript
side is one event loop to a thread: code between two awaits is atomic. The Go
side is preemptive. On it, a connection is accepted, classified as a browser's
or a raw client's by its first streams, and each of its streams is relayed under
a slot.

What makes each component correct:

* tunnel: the reply precedes every byte, a failed dial leaves the client
  untouched, data is written before the FIN, no wakeup or timer is lost, the
  reason reported is the one that happened, `run()` returns;
* dispatcher and workers: one reply to each client, never an attempt after data
  was consumed, no stream left behind, books that agree, `stop()` complete;
* pool: one dial and one connection to a slot, none forgotten, load exact, no
  request left waiting;
* application: one stack of parts, a pool behind every client, a button that
  comes back;
* pages: a broadcast reaches everybody once, nothing of a connection outlives
  it, whoever loses its peer gets away, the log shows what it keeps;
* bytes: both sides agree on target, nonces and frames, nothing is lost,
  repeated or reordered at a boundary between two buffers;
* server: every connection is classified rightly, every stream relayed or
  closed, every relay ends, gives its slot back and reports a cut as a cut;
  `Close` frees everything.

The full list of hazards, each at its line with the properties that guard it, is
in `PROJECT.json`.

## 2. Modules

| Module | What it is |
|---|---|
| `BrookTunnel` | one call of `run()` in detail, with its stream and its client |
| `TunnelSteps` | the contract of a tunnel as operators on a record of seven Booleans |
| `TunnelContract` | that contract as a specification |
| `BrookTunnelRefinement` | the mapping under which `BrookTunnel` implements `TunnelContract` |
| `ProxyDispatcher` | dispatcher, listeners and tracker, composed with the contract |
| `ProxyWorkers` | listener worker, manager and session workers, composed with the contract |
| `WtPool` | the connection pool and the sessions it hands out |
| `BrookApp` | `app.js` with the monitor, around a reduced pool and dispatcher |
| `ListenerPage`, `ClientPage` | the two pages for Direct Sockets |
| `TrafficLog` | the log of both |
| `HubPages` | the three applications the hub links to, one of them at a time |
| `WorkerBridge`, `StreamSession` | what a tunnel has on its client's and on its server's side |
| `SessionStreams` | both around a tunnel |
| `StreamPath` | a stream followed either by its chunks through `SessionStreams` or by its bytes through `ProxyClients` |
| `ProxyAddress` | addresses as the client spells, the proxy encodes and the server reads them |
| `ProxyHandshake` | detection and both proxy handshakes |
| `BrookFraming` | the bytes of an encrypted stream, of both sides |
| `ProxyStream` | both composed: from a client's first byte to the target and back |
| `ProxyClients` | what clients send to it and what they mean: target and upload |
| `DnsResolver` | the resolver with its cache and its queries |
| `ServerLifecycle` | `ListenAndServe` against `Close` |
| `ServerConnection` | one connection with its probes, until its streams are relayed |
| `BrookServer` | both composed |
| `ServerRelay` | the relays with their goroutines, under the limit of stream slots |
| `...Proofs` | theorems about the module of that name and those it extends; `StreamProofs`, about `BrookFraming`, `ProxyStream` and `ProxyClients`; `ProxyWorkersProofs`, about `SessionStreams` too |
| `MC...` | instances for TLC |

Within a module, an operator whose comment begins with "Mutant" is a plausible
bug: a variant of the definition that follows it. It is used to make sure that
the property it is listed with in `PROJECT.json` can fail. Type invariants are
conjuncts of properties ("The variables keep their types, and ..."), not
properties of their own.

### BrookTunnel

The three activities are `up` (the body of `run()`), `rx` (`processRxQueue`) and
`cl` (the async part of `cleanup`). `upPc`, `rxPc` and `clPc` name the await
each is suspended at; an action is the synchronous stretch from one await to the
next. Where a stretch is split into several actions (the loop of
`processRxQueue`, the head of `cleanup`), `Busy` keeps everything else out until
it is over. Microtasks and events are not ordered against each other beyond
that: any settled await may resume first, which is more than the engine does.

Bytes are counted in units. The stream from the server is a nonce of `NONCE`
units, then frames of a sealed length (`LENGTH`) and a sealed payload
(`PAYLOAD`); chunks are cut at any unit. `rxQueue` holds chunk sizes and 0 for
the FIN item. Every await that opens, derives or writes may fail (`OpenFails`,
`WriteFails`, `PreludeFails`, `SendFails`, `ReadFails`). The stream session is
`live`, `finished` (it delivered its FIN; the read pump's `finally` then closes
it, which reports `onClose`) or `closed`. `HandlerCancel` is the dispatcher's
cancel under the tunnel. `FinalAttempt` is `closeClientStreams`, with which
`sendFailure` is passed.

Left out: byte counters, `writerWait` (a promise that serialises writes which
the decoder already issues one at a time), logging, wording. A frame of payload
length 0, which the decoder skips, is not modelled. `sendFailure` and
`sendSuccess` end, well or badly, but have no time limit in the code.

### TunnelSteps, TunnelContract, BrookTunnelRefinement

The dispatcher depends on little of a tunnel: the client is confirmed at most
once for the nonce that came, possibly *after* `run()` has returned, since
nothing stops a decoder that is digesting a nonce; the client is not read before
it; a last attempt ends with one of the two replies; the session is closed at
return; the outcome does not claim what did not happen. `Successors` is that
contract. `KeepsContract` says that `BrookTunnel` implements it under `Seen`,
for both kinds of attempt: TLC checks it for last attempts, and section 4 proves
it for both. The contract is what `ProxyDispatcher` and `ProxyWorkers` are composed with.

### ProxyDispatcher

`pc[c]` is the await of the handler of client `c`. `tun[c]` is the contract
state of its latest tunnel and moves by `Successors`; `stale[c]` is the earlier
attempt whose decoder still holds a nonce and may call `sendSuccess`. `quic[c]`
is the variable `quicSession`, `open[c]` the attempts whose stream is really
open: the two differ when a cancel meets the acquisition of a session.
`start()`, its rollback and `stop()` are one sequence of stages. The tunnel's
and the tracker's callbacks, `cancel()` and the `finally` clause of the handler
are part of the action they happen in. A client is one accepted socket;
`Clients` bounds how many there are.

Abstracted: the proxy handshake is one await that succeeds or fails; the ports a
listener tries are one bind that succeeds or fails; the catch around `run()`
(`server/proxy-dispatcher.js:362`) is not modelled, since `run()` does not
reject.

### WtPool

A dial is one run of the body of `_connectSlot` with the transport it makes, and
is named by its slot and a number. `flight[s]` stands for `connectPromise` and
`connectAbortController`, which are set and cleared together. Callers are
handlers of the dispatcher. `on[k]` is the transport that is to open a stream
for `k`. A promise that settles resumes those who await it before the next event
of the network (`Delivered`), as microtasks do. The identity of a dial is used
again once its link is closed, so `NumDials` bounds the dials of a slot that are
alive at a time, not the dials made.

`resetSession()` is public and tested but not called by `app.js`: `MaxResets` is
a bound, and single flight is stated for `resets = 0`, because a dial that a
reset has aborted ends late and erases its successor's promise
(`webtransport/wt-connection-manager.js:235`; the comment at line 185 claims
single flight without that condition). `close()` does not abort dials in flight:
a late one publishes a connection nobody will close. `supported` says whether
there is a WebTransport class at all. Where there is none,
`getWebTransportClass()` rejects before the `try` (line 200), and the slot stays
"connecting" with a promise that has rejected (`ClassRejects`): whoever asks for
it is refused at once, but only a reset frees it. `NobodyStranded` claims for any
pool that nobody waits in vain, and that no slot is stuck where there is a class. A pool of one slot, which
takes a shorter path, is not modelled.

### BrookApp

The g-th start makes monitor, pool and dispatcher number g; the module's
variables hold numbers of this kind or 0. `pc` is the await of `onStart` or
`onStop`, `measuring[g]` counts the callbacks of monitor g that measure the clock, which
may outlive the monitor. A callback reads the variables when it resumes, hence may work on the
parts of a later start or on none. The button excludes a second `onStart` or
`onStop`, as `ui-controller.js` does by disabling it.

Measuring the clock is two awaits: of the headers, which a timer of 2 s limits,
and of the body, which nothing limits, since the timer is cleared in between
(`webtransport/wt-connection-manager.js:403`, `418`). So `onStart` may wait in
its measurement for ever, with the button disabled, and so may a callback. The
monitor neither awaits nor guards `onStatusChange` (`core/network-monitor.js:98`):
its next check begins whatever the callbacks of earlier ones do, and any number
of them may be out. `MaxCallbacks` bounds only those that are sure to go on; a
callback that never ends does nothing more and needs no place.

What the model leaves out and a reader may want to know: the badge, which a late
callback sets to "connected" after the stop and to "Online" even when
`connect()` failed; the clock drift, of which a failed measurement overwrites a
good one by 0 and which is lost when measured while there is no dispatcher; a
dial that ends after the `close()` of its pool. `maxConsecutiveFailures` is
never read.

### HubPages: ListenerPage, ClientPage, TrafficLog

A client of the listener is the number it was accepted under; `client[c]` says
whether it is in the Map, and `order` in which order clients came into it, which
is the order a `for` over a Map visits them in, those that come during the walk
included. `writes[c]` are the awaits of `sendToClient` under way for it, with
who waits for each: the user, the echo of the read loop, or a broadcast, which
goes on from the entry it was at. `cast[b]` remembers whom a broadcast should
reach and how often it wrote to whom. `closing[c]`, and `disconnecting` of the
client's page, are the awaits of `disconnectClient` and `disconnect`: reader,
writer, socket.

On both pages one button starts and, by its handler, stops. It is disabled as
soon as a start or a connection is under way, and enabled again only when that
has failed or its end has been worked off, never on success
(`listener/app.js:495`, `client/app.js:479`). Hence `stopServer()` and a
`disconnect()` of the user are out of reach and have no action. That the button
offers what it says is false, which `EndOffered` shows
(section 3). `FreshConnection` does not depend on it, and is about the client's
page, where `readStream` and `sendMessage` call `disconnect()` too: whoever
clicks to connect finds no `connect()` or `disconnect()` under way and nothing of
the connection before.
The simulator may be switched at any moment, so that whatever asks for it may go
either way. A simulated client has no streams; a simulated connection ends
never.

`TrafficLog` has the array of the latest entries and the nodes of the page, an
entry being its type. It is composed with the client only, whose code for it the
listener repeats. Under a tab other than "all" the oldest entries may be missing
on the page, since an entry of another type that is shifted out takes a node of
this one with it: `ShownAgrees` says what holds instead.

Left out, and worth knowing: the time of the last ping survives its connection;
the timers of the simulator's echoes may hit the connection after theirs; an
error of the accept loop leaves the page "listening"; the close of a writer has
no limit in `disconnectClient`, so that a peer that does not read keeps its
client in the Map; `clientInfo.num` plays no part.

### ProxyWorkers

Three kinds of worker and the main thread, each with its own event loop; an
action is the handler of one message or one await. A `MessagePort` keeps its
order and what was posted to it survives the sender, while what a terminated
worker has posted to the main thread is gone. Each connection is worked on by a
chain of attempts that move by `Successors` like those of the dispatcher.
`MaxStarts` bounds how often the listener worker is started again; sessions of
the previous one are then served beside new ones *with the same ids*, since each
listener worker counts from 1: `WorkersKnown` is stated for an id that was not
given again. `listener` is "up" from the first attempt to bind on: the SOCKS5
listener accepts while the HTTP one still binds, and when a bind fails the
sessions that came meanwhile are closed with the listeners (`BindFails`).
`FLUSH_SESSIONS` does not call `onDone`: a session whose worker was
ended by the same flush never gives its listener slot back (CHANGELOG.md:65
promises "zero stuck sessions"). `STREAM_FIN`, `STREAM_CANCEL` and
`STREAM_ERROR` are one message, and `STREAM_FAILED` is answered and cleaned up
after in one step.

### WorkerBridge, StreamSession, SessionStreams

`WorkerBridge` has the reader loop of the listener worker, the port and the
queue of `worker-tunnel-bridge.js` with its limit in bytes; `StreamSession` has
the read pump, the early buffer of 4 MB, registration, sends, FIN and close.
`SessionStreams` puts a tunnel between them of which only the order of its calls
is kept. Whoever owns the session may close it before the tunnel has registered:
the dispatcher, or the pool on a reset or at its end, while `run()` derives its
key. The read that `close()` cancels then buffers a FIN, which `registerStream`
hands over as if the server had ended its stream (`wt-stream-adapter.js:103`,
`34`). `early` records such a close, and `StreamInOrder` promises that a FIN is
the server's, behind all it sent, where there was none. Three more things the
model shows are not claimed to be right:
`bridge.close()` leaves a read that waits for ever (the worker is terminated,
which ends it); an overflow of the early buffer is learnt only by a send that is
refused; the FIN's `writer.close()` is awaited without a limit. `StreamPath` is the
composition that TLC runs: a stream by its chunks, or by its bytes as in the next
section.

### ProxyAddress, ProxyHandshake, BrookFraming, ProxyStream, ProxyClients

A unit of the client's bytes is an octet or the text of a line, whose meaning is
a record; a unit on the encrypted wire is a byte of a nonce or of a sealed box.
A box opens only when it is whole and for the key and nonce it was sealed with:
keys are equal when passwords, modes and client nonces are, and headers are
fresh when the two clocks are within `MAX_DRIFT`. The client counts a nonce as
two words with a carry (`brook-crypto.js`), the server as one little-endian
number (`brook_crypto.go`): the model keeps both and `WORD` is the size of a
word. `ProxyStream` composes the handshake with the stream: the destination and
what was left over of the handshake are the first things the tunnel seals.

`FramingSpec` is the stream of *any* client: one whose destination, leftover and
later chunks are arbitrary bytes. Every behaviour of `ProxySpec` is one of it.
`sent` records all that the tunnel took from its client to be sent on, `asked`
the destination it was given; no guard reads them. `BytesInOrder` says of both that the two sides stay in step, that the
target has a prefix of `sent` and the client a prefix of `Reply`, and that
nothing is missing once all is sealed and opened, or after a clean end.

The bytes of a client in `ProxyStream` are any of the set `Wires`. `ProxyClients`
says where they come from: a client of SOCKS5 or HTTP has a message and a body,
and `Asks`, `Upload` and `Right` say of the *message*, without reading a byte,
whom the server must dial, what the target must get and whether the proxy may
refuse. A client of another kind sends anything. `TargetAgrees` and
`UploadIsBody` compare that with what the proxy and the server make of the
bytes. So the parsers are not compared with themselves; that `Asks` and `Upload`
are meant as they are written is checked on clients whose target and upload are
spelled out (`MeaningIsRight` in `MCProxyStream`).

A loop over lines is a recursive function (`Only`), and the lines of a header
with their ends are a function on positions (`EachWith`), so that theorems about
them can be proved.

Nonces drawn at random are taken not to collide. Not modelled: an IPv6 authority
without brackets, an empty `Host`, URLs that are not text, the cache of base
keys, whose key is a 32-bit hash (`core/brook-crypto.js:55`). Excluded from
`UploadIsBody` by name: a plain HTTP request which keeps no header line (`bare`),
because it is rewritten wrongly, with an empty line too many. The same holds of one whose line ends are mixed;
such a client is of another kind and has no meaning in `ProxyClients`. The limit of 1024
bytes on a SOCKS handshake cannot be reached; port 0 is refused by
`encodeAddress`, that is, for HTTP only; the server skips the payload box of a
frame of length zero where the client would read its tag (neither sends one); an
IPv4-mapped IPv6 address is dialled as IPv4.

### DnsResolver

A call is a hit, the owner of a query, or a sharer; a query has its own stream,
whose `onData` awaits a decoder and may run again meanwhile, so that chunks can
be appended out of order (`core/dns-resolver.js:159`). The owner's `finally`
deletes the pending entry of whatever query is there after `clear()`; `OneQuery`
is stated without `clear()` for that part. An `onClose` that comes while a chunk
is decoded resolves the query with no addresses. Building the query and parsing
the answer are not modelled. Only the tests call the class; the eviction after
two uses of CHANGELOG.md:394 is not in the code.

### ServerLifecycle, ServerConnection, BrookServer

`res` has the state of each thing `ListenAndServe` opens, `serve` and `closing`
the places of its goroutine and of `Close`, which meet at `s.mu`. `s.wtServer`
is set without the lock (`server.go:465`) while `Close` reads it, so either may
happen first: `FreedByClose` is stated without it, as the transport takes its
connections along. `ServerConnection` follows a connection from
`dispatchConnection`: both probe goroutines, the deadlines of 3 s and 800 ms,
the first bytes of a stream, the wrapper `interceptedConn` that gives the HTTP/3
server the streams already accepted, the raw accept loop. `place` says where
each stream is: queued at the connection, with a probe, in a channel, held,
buffered, served or closed.

### ServerRelay

`handler[s]` is where `HandleBrookStream` is for stream `s`; `leg[s]["down"]` and
`leg[s]["up"]` are its two copying goroutines. The sealed and the plain relay do
the same things in these terms: a leg reads from its source, writes to its sink,
hands on an orderly end (FIN to the client, `CloseWrite` to the target) and
leaves through `unblockOther` and `wg.Done`. A FIN in these terms is one that
the relay sends on purpose. When it closes a target's connection, the operating
system sends a FIN also behind an upload that was cut (`brook_stream.go:248`,
`433`, `512`, `621`), from which the target cannot tell the cut: `FinIsWhole` is
about the client's FIN, and about the half-close of a target that may still
answer, not about this one. They differ in that a sealed upload
is read in two parts and never gets its end together with data; `sealed[s]`
tells which one it is. Goroutines are preemptive: one action is one operation on
a connection together with the local code behind it.

Reading the header, authenticating it, writing the nonce and dialling are one
await that succeeds (`Dialled`) or not (`OpeningFails`). Deadlines are not told
apart: any operation of a leg may fail at any time, as "normal" or not. This
covers the idle timeout, the 5 s that `unblockOther` grants the other leg, and
the race in which that leg sets its long deadline again afterwards
(`brook_stream.go:305`, `333`, `412`). It also means that a download cut by the
5 s is "normal" and returned as nil, which is what `isNormalStreamClose` says of
timeouts. `ended` and `relayErr` record how a leg ended and what `recordErr`
kept.

The deferred calls of `HandleBrookStream` are part of `Return`, whose caller has
either no legs, finished legs or legs that it has cut off before. A stream that
gets no slot is reset by the WebTransport loop, and ended by a FIN by the raw
one, which calls no `CancelWrite` (`quic.go`); `FinIsWhole` leaves out refused
streams for that reason. Whether a target is TCP is not recorded: a half-close
may take place or not.

## 3. Model checking

| Run | Question | Distinct states |
|---|---|---|
| `tunnel_final` | a last attempt: wakeups, order, completeness, the contract | 996,570 |
| `tunnel_retry` | an attempt that may be repeated: `Returns` under fairness | 49,682 |
| `dispatcher_attempts` | replies, sessions, retries, return of `start` and `stop` | 230,692 |
| `workers` | the same questions for the worker wiring, and its books | 2,078,697 (symmetric) |
| `pool` | slots, load, waiting requests | 385,672 (symmetric) |
| `app` | the proxy's page: one stack of parts, button, recovery; the other two: broadcasts, connections that overlap, peers that leave, the log | 154,166 |
| `proxy_stream` | target, upload, download, byte by byte; the two buffers around a tunnel, chunk by chunk | 1,764,514 |
| `dns` | one query for a host, entries handed out evenly | 1,950,276 (symmetric) |
| `server_connections` | classification, streams kept back, `Close` | 290,072 |
| `server_relay` | ends of relays, return of a relay | 446,824 |
| `server_probe` | one sentence of the code, violated | 9,429 |
| `app_buttons` | what the buttons of two pages say, violated | first states |

Bounds, and why they reach the interesting cases:

* tunnel: eight units in chunks of up to four, nonce 2, length 1, payload 2, rx
  limit 5, two reads of up to two slices (the retry run: five units, chunks of
  two, limit 3, one read). Eight units are a nonce and two frames, so a chunk
  can end inside each part of a frame and the FIN can come after a whole number
  of frames, inside a length and inside a payload. The rx limit is below what
  the server may send, so the overflow happens; two slices make a send fail in
  mid-chunk.
* dispatcher: two clients, one listener with room for one, three attempts, one
  `start`. A stale decoder of the first attempt meets the second and the third;
  the second client waits for, and takes over, a slot. That slots are exact and
  `stop` complete for any number of listeners is proved.
* workers: two connections, two attempts, two starts of the listener worker: an
  id is given twice, and a late decoder meets a second attempt.
* pool: three callers and `connect()`, two slots, two dials alive for each slot
  (a third is never wanted: one is aborted and one is its successor), one reset.
* app: two starts. Whatever survives a stop meets one start after it. Two
  callbacks of a monitor that go on, and any number that do not. Two
  clients of the listener, of whom one can come or go while a broadcast is at
  the other, with one write of the user or the echo beside it; a log of two
  entries and two messages under way, without a bound on connections. The pages
  share nothing, so that the states of the three add up. `app_buttons`
  needs one of everything.
* proxy_stream: twenty clients, among them both protocols in all address forms,
  wrong methods and versions, bytes behind the message, messages cut short, a
  header that is too long; words of the nonce have four values, so that the
  carry happens; a client's frame is five units and a server's one, so that both
  take several. By chunks: sizes 1 and 2 against a queue of 3, three of them; room
  for one early chunk of two; four sends, the prelude and each chunk. Bytes and
  chunks share nothing, so that their states add up.
* dns: three calls for two hosts with a cache of one entry, two chunks to an
  answer, one `clear()`: an entry is evicted while it is shared.
* server_connections: three streams of either kind, the browser's control stream
  and two others, or a raw client's (two in `server_probe`).
* server_relay: two streams for one slot. The second is refused, waits its turn,
  or is admitted while the legs of the first, abandoned, are still there.

Deadlock is not checked where the system may rest for good: a session, a
resolver, a finished stream of bytes, workers with nobody left to serve, a page
that nobody uses.

Fairness of the client (`Returns`, `CallsReturn`): what the event loop has ready
is run; an armed timer that nobody resets fires (every send and write is raced
against 15 s, acquisition and proxy reads against timers of their own); a
cancelled reader resolves its pending read; the few bytes of a reply, and the
stream's FIN, are taken. The last two are assumptions on the environment, since
the code sets no limit to `sendFailure` and to the `writer.close()` of the FIN.
Nothing is asked of the server's data, of the client's reads and writes, nor of
a tunnel that nobody has cancelled, which may relay for ever. The pool needs no
fairness: `NobodyStranded` is the safety property behind "every request is
answered", and the dial's own timer does the rest.

Fairness of the application (`ButtonReturns`, `Recovers`): the
headers of a measurement, dials and probes have limits, the dispatcher's `start`
and `stop` return (which `CallsReturn` shows), the interval goes off. Nothing is
asked of the body of a measurement, of a callback, of the network or of the
user. So `ButtonReturns` excepts a start that waits for such a body, and
`Recovers`, which supposes that the network stays up, holds however many
callbacks hang. Fairness of the
other pages (`PeersPart`): a cancel, a close and a write settle, well or badly,
and a read ends with its stream. That writes settle is an assumption on the
peer, as for the tunnel.

Fairness of the server (`TeardownEnds`, `Decided`, `StopEnds`): goroutines that
can run are run, and timers fire (3 s and 800 ms of the probes, 10 s on header
and dial, 10 s and 2 s of the teardown). Of a leg's reads and writes nothing is
asked: the claim is that the handler returns even if a leg reacts to no close.
Nothing is asked of the client, nor that anyone calls `Close`.

### What the code does not do as its documents say

Two runs end in a violation. Each checks what a sentence of the repository says.

`server_probe` ends in a violation of `NoneStranded`: a probe that loses may
have accepted a stream before it is cancelled (`server.go:543`, whose comment at
line 540 says that `cancel()` stops it first) and puts it into its channel after
`interceptedConn` has looked there. The stream waits until another one comes.
`NothingHeld` shows what is left of the comment's claim: for the bidirectional
streams of raw connections.

`app_buttons` ends in a violation of `EndOffered`: the buttons are for "Start /
Stop Server" (`listener/app.js:126`) and "Connect / Disconnect"
(`client/app.js:131`), but when they say "Stop Server" and "Disconnect Socket"
they are disabled. The run ends with the listener's page; the client's does the
same.

Further sentences that the models contradict, met while they were written:

| Sentence | What happens |
|---|---|
| CHANGELOG.md:11, success means `both_closed` | idle timeouts and lost transports with some data count as success |
| `core/brook-tunnel.js:3`, independent half-close | after the server's FIN the session is closed, and the client's next bytes end the tunnel |
| `core/brook-tunnel.js:210`, a retry finds the client's streams open | a FIN before the nonce closes the client's writer |
| `server/proxy-dispatcher.js:292`, cancel closes the live session | not while it is being acquired |
| connect-review1.md:41, no retry after the handshake | a tunnel that confirmed and then failed without data is repeated |
| `webtransport/wt-connection-manager.js:185`, single flight | not after a reset, see `WtPool` |
| CHANGELOG.md:65, zero stuck sessions | a flushed session may keep its slot, see `ProxyWorkers` |
| CHANGELOG.md:394, eviction after two uses | not in the code |
| CHANGELOG.md:238, clock racing eliminates startup delays, by a `fetchWithTimeout` (`webtransport/wt-connection-manager.js:397`) | its timer is cleared at 403, once the headers are there; the body (418) may never come, and the start then waits with its button disabled. `ButtonReturns` excepts that start |

The properties are stated so that they say what does hold in these cases.

## 4. Proofs

The theorems hold for every value of the constants that satisfies the named
assumptions: `TunnelAssumption` (sizes of nonce, length, payload, chunk and
slice are positive, the rest natural), `DispatcherAssumption` (at least one
listener, place for one client and one attempt), `WorkersAssumption` (a finite
set of connections, one attempt), `PoolAssumption` (at least two slots),
`BridgeAssumption` and `SessionAssumption` (limits and numbers are natural),
`FramingAssumption` (words, nonces, tags, chunks and the server's buffer are not
empty, nonces fit in two words, the reply is a sequence), `LengthsAssumption`
(the client's frames fit in a length of 16 bits and the server's are not longer
than the client takes; 32,768 and 2,014 bytes in the code), `HandshakeAssumption`
(a text is no octet, and its host has one of the three forms), `ClientsAssumption`
(a SOCKS5 client's fields are bytes and its address has the length that its type
says; an HTTP header has a first line and one kind of line end),
`DnsAssumption` (each host has at least one address, the Map holds at least one
entry, calls are not mistaken for the states they are in), `AppAssumption`,
`ListenerAssumption`, `ClientAssumption`, `LogAssumption` (the log holds at least one entry),
`ConnectionAssumption`, and `ServerAssumption` (at least one stream slot).
`MaxFed`, `MaxReads`, `MaxStarts`, `MaxResets`, `MaxOpened` and the like occur
only in guards, so the proofs hold for any number of bytes, chunks, calls and
streams.

`BrookTunnelProofs`. `IInv` adds to the stated invariants where the three
activities can be relative to each other: `DialOrder` (what the server nonce
orders: decoder, promise, read loop, replies), `FailureFreezes` (a failure reply
comes out of `cleanup` and stops all data), `FinQueued` (a FIN that was
delivered and not taken up is the last item of the queue: without it, nothing
excludes that `onClose` finds an empty queue and no FIN), `Released`,
`ReasonSet`, `Ending`, `SlicesLeft`, `NotStarted`. The invariance proof has a
step per action. From it follow the type invariant and `IdleWatchdog`,
`NoLostWakeup`, `CutOffIsReal`, `ReplyBeforeData`, `FailureIsClean`,
`UploadGauge`, `NamedReason`, `SuccessServed`, `FinalCloses`,
`RetryKeepsReader`.

`Flow` extends it to what becomes of each unit. `FinPart`: a FIN is the last
item, and once it is taken up the decoder rests. `FramePart` and `CountPart`:
where the decoder is in a frame, and that whoever waits for queue items has used
up those before. `SumPart`: the gauge of the queue is the sum of its items, with
the partial sums as the witness that `Append` extends and `Tail` shifts, since a
fold would call for induction. `BalancePart`: of a live tunnel, what the server
sent is queued, buffered or taken. `BothClosedComplete` and `FinAfterData`
follow: a tunnel reported as `both_closed` delivered everything, for any sizes
of nonce, length and payload and any cut into chunks.

`RxGauge` compares the gauge with a sum defined by recursion over the queue.
`UnitsIs` ties the two: a function that satisfies the recursion exists (the
partial sums of `SumPart`) and is the only one, because two that differ would
differ first at a least place, which the well-foundedness of the naturals gives
(`LeastNat`). This takes the place of an induction.

Refinement, in the same module. `KeepsContract` as a theorem: `Kept` adds to
`IInv` that the client of a last attempt has had a reply once `cleanup` is past
the place where it sends one, and that a cleanup that is over has closed the
session (`Answered`); each action maps to a step of the contract or to a
stutter, and `StepMoves` says which, by the fields that change, so that the case
split is over six moves. `ProxyDispatcherProofs` and `ProxyWorkersProofs`, which
use a tunnel by its contract only, are therefore about the tunnel of the code.

`ProxyDispatcherProofs`. `ContractStep` says what one step of any tunnel that
keeps the contract does; nothing else about tunnels is used. `IInv` has one part
per question and a preservation lemma for each: `Attempts` (a stale decoder
belongs to an attempt before the current one), `Held` (`quicSession` names the
one stream that can be open), `Latch` (`proxyReplied` holds exactly when a reply
was sent, hence one reply), `Told`, `Handlers` (handlers, tracker and cancelled
are the live clients), `Unread`, `Sockets` (the sockets of a listener that is up
are the live clients that came through it), `Control` (the listeners that
`stop()` has passed are quiet; when it awaits handlers it awaits all of them).
`NoReplay` and `ClientAnswered` are action properties and follow from `IInv`
step by step; the others are invariants.

`ProxyWorkersProofs`. `Port`: on the way to the listener worker, data of a
client that was not told of success stand behind an answer (`DataGated`, stated
about prefixes of the queue). `Worker`: a session worker that has used its one
answer, or is done, has it told, or on its way, or its client is gone (`Gated`).
`Numbered`: the counter of ids does not exceed the number of connections seen,
which is a `Cardinality`, so that ids do not run out. `Tracked`: the tracker has
a session for each entry of the map. From these follow `OneAnswer`,
`WorkersKnown` and `Answered`.

`WtPoolProofs`. `Own` (what is in flight is being dialled, what is in a slot is
up, each for that slot), `Known` (until the pool is reset, a slot knows all its
dials and has one at most), `Told` (the state of a slot tells whether it has a
promise), `Waiting` (who awaits a dial awaits one that is under way),
`Load` (the load of a slot is the set of sessions held on it, and finite),
`Served` (whoever resumes after its dial finds a connection). The least loaded
slot exists because the numbers of loads are well founded. Hence
`OneDialPerSlot`, `LoadExact`, `NobodyStranded` for any pool and any callers.

`HubPagesProofs`. A step of another page is none of this one's, so that there
are four invariants.

The application: `Modal` (what is there at each await of a start and a stop),
`Held` (each variable names parts of the latest start or none) and `Owned` (what
is open, listens or probes is held) give `OneStack`, for any number of starts
and of monitors that still call back.

The listener: `Listed` (a client comes into the Map once, is in it while it is
alive, and nobody writes to it before) and `Walked` (a broadcast has written
once to those of its clients up to its place that are still alive, and to nobody
behind it) give `BroadcastOnce`, for any number of clients, of writes and of
broadcasts at a time. `WalkGoesOn` is the step to the next entry, of which only
is used that it is the first one behind that is still in the Map; `WalksKept`
covers everything that happens to the Map under a walk. `Serving` tells when
there is a server that can accept.

The client: `Connecting`, `Connection` and `Idle` (what is there at each await
of `connect` and `disconnect`) give `FreshConnection`. Its log: `ShownAgrees` is
inductive by itself. `Aged` and `Pushed` say what becomes of a node and an entry
when one more is logged; `KeptNodes`, that the nodes behind the first one, which
goes at the limit, still agree with the entries behind the oldest.

`BrookServerProofs`. `LifeInv`: `Unpublished` (what has been opened and is not
in the server's fields yet is in the hands of `ListenAndServe`, which will look
at the context), `OpenIsKnown`, `ClosesAll` (what `Close` has copied covers what
was published). `ConnInv`: `Flags`, `Typed`, `Placed` (each stream is in one
place that the connection's state allows), `Browser`. Hence `FreedByClose`,
`NothingHeld` and `ClassifiedRight`.

The relays, in the same module. For any set of streams, infinite ones included.
`RelayInv` adds four parts to the stated invariants. `Slots`: the admitted streams are finitely
many, without which `Cardinality` says nothing. `Started`: before the dial there
are neither legs nor a target and the client's half is open. `Ended`: a leg has
an end exactly when it is out of its loop, and an orderly one only with empty
hands; this is what makes a FIN whole, because a leg that has ended in order
takes no further step that could overwrite it. `Recorded`: an error of a leg is
in `relayErr`. `LegChange` says that a leg's step leaves the other leg alone.
Then `SlotsExact`, `FinIsWhole` (the client's FIN and the target's half-close), `NothingLeftOpen` are invariants, and
`NilIsEarned` follows step by step: only `LegsFinished` can return nil.

`StreamProofs`, the framing. A unit is opened by where it stands, so the
invariant is about positions. A `Place` is where a box begins: its kind, its
nonce, how much text was before it. `Flow` says that a stretch of units is cut
from a row of boxes that leads from one place to another, each box of the kind
and under the nonce that the one before it demands (`After`), and its payload
what the text has at that offset (`Fits`). `Laid` has the row as functions on an
interval, which takes the place of a recursion; `FlowGrows` and `FlowTaken` add a
box behind and take one in front. `UpFlows`: what is in flight to the server
leads from where it reads to where the client seals, over the header and the
text that was sealed. `DownFlows`: what the client has buffered and what is in
flight lead from where its decoder is, which may be between a length and its
payload, to where the server seals; after a reset they are the front of such a
row. With `Types` they are `FramingInv`, inductive under every step of either
side, losses and failed logins included. `LengthBoxTaken` and `BodyBoxTaken` then
give that a box that stands in front opens, and `WordsFacts` that the client's
two words with their carry count the same nonces as the server's one number,
which both directions need. Hence `BytesInOrder`, for words, nonces, tags and
chunks of any size, any reply and any uploads. A wrong password is covered:
the header does not open, and nothing reaches the target or the client.

`StreamProofs`, the proxied stream. `HandshakeInv`: types, and what each stage of
a handshake has established about the buffer (`Stages`). `TunnelInv`: the tunnel
is fed when the handshake is over and with its destination; it has sent nothing
before. `ClientInv` ties both to a client. Of one that sends a known message:
what is buffered is what was read of the wire since the handshake began, or since
the greeting (`SocksInv`, `HttpInv`); no reply is an error if the message is
right (`Says`); and once the handshake is over, the destination parses to whom
the client asked for, and what the tunnel took, or will take first, followed by
what was not read yet, is the upload (`Served`). None of the stated properties is
inductive without it: they speak about what reached the target, and whatever was
parsed wrongly would only get there steps later. `ProxyInv` is all three.

`ProxyInv` is preserved because parsing undoes what the client does, for any
clients. A SOCKS5 request is laid out as `SocksLaid` says, and the proxy stops at
each of its parts, with the bytes of the next one behind (`SocksAddress`). A header
is an `EachWith`; `HasLines` says where its lines, CRs and LFs are, for both line
ends, from which follows where the header ends and that it ends nowhere before
(so that a chunk which ends in the middle is waited for), what its lines are, and
which one is the host's. `RewrittenIs`: what the proxy sends on is the first line
in origin form and the lines it keeps. `ParseIsTo` and `AddressesAgree`: the
server reads from an encoded address what was encoded. Then `ProxyStreamIsFraming`
needs no hypothesis: what the handshake hands over are bytes, `ProxySpec`
implements `FramingSpec`, and `BytesInOrder` holds of a proxied stream. Together
with it `ProxyInv` gives `TargetAgrees`, since the header the server opens is the
one that carries `asked`, and `UploadIsBody`, since what the target has is a
prefix of what the tunnel took.

The loops are recursive functions. As in `BrookTunnelProofs`, `LeastNat` takes
the place of an induction: two functions that satisfy the recursion would
differ first at a least place (`OnlyIs`).

`ProxyWorkersProofs`, the two buffers around the tunnel. The bridge's steps leave the
session's variables alone and the other way round, so there are two invariants. Of the bridge: while it is
open, what was returned, what is queued and what is on its way are the client's
chunks in a row (`OnTheWay`); after a FIN the rest is queued, the end last
(`AfterFin`); an error leaves the queue empty (`Returned`); the gauge is the sum
of the queue, by the partial sums of the tunnel's proof (`Gauge`). Of the
session: until the tunnel registers, all that the pump has taken is in the early
buffer, and afterwards all of it was handed over, with a FIN behind it that is the
server's unless the session was closed before (`Buffered`); whoever registers
on a closed stream is refused when it sends (`Told`).

`DnsResolverProofs`. `QueryInv`: of the callbacks of one query that overlap, at
most one opens the length, with the nonce it was sealed with, and its bytes are
in the buffer meanwhile. `CacheInv`: each address of an entry before the one
whose turn it is was handed out once more than those from there on (`Turn`), and
an insertion or an eviction keeps one entry to a host. `CallInv` and `OwnerInv`:
a promise of the Map is that of a running query for its host, and without
`clear()` every running query's is there.

Only model-checked: liveness (`Returns`, `CallsReturn`, `ButtonReturns`,
`Recovers`, `PeersPart`, `Decided`, `StopEnds`, `TeardownEnds`), which is outside
what TLAPS proves.

## 5. Not modelled

* What the sections above name as left out of a module.
* Byte counts and rates of the session tracker; rendering, export and settings
  of the pages.
* Ciphers and key derivation, which are taken to be perfect: `deriveKey` and
  `sealFrame` do not reject on what they are given (`KeyDerived`, `SealChunk`).
  If they did, `brook-tunnel.js` would report `rx_error` or `tunnel_error`.
* Operating system limits and command line of the server: configuration.
* The web server, which serves static files, build products, tests and
  benchmarks: nothing of them runs in the program.
* Of the pool, a stream that opens after the 5 s race was lost
  (`webtransport/wt-connection-manager.js:361`) and is then left to the
  transport; of the raw server, a `CancelWrite` after `Close` that may take back
  data that was not delivered yet.

## 6. Plan

Done: every component that keeps state of its own, with the contract between
tunnel and its users proved, and an inductive invariant for every module that
moves on its own; every invariant that a run checks; the pages of the bundle.

1. `ServerRelay` under `ServerConnection`: slots refused to a raw client.
2. The four awaits of the prelude with the cleanup that may overtake them
   (`core/brook-tunnel.js:388`), told apart.
3. Messages with mixed line ends, of which `ProxyClients` says nothing.

A run that a deeper one makes superfluous is to be replaced by it rather than
kept beside it.
