# A TLA+ verification of mGate

mGate is a proxy that stands between IoT clients and their servers. For MQTT
(over TCP or WebSocket), HTTP (requests and WebSocket) and CoAP (UDP and DTLS)
it accepts a client, opens a connection of its own to the real server, and pipes
packets in both directions. On the way it calls the hooks of a `session.Handler`
that the embedding program supplies: `Auth*` hooks may refuse or rewrite what the
client sends, the others are told what happened. This directory holds TLA+
modules for the parts of mGate that carry its concurrency, TLC configurations
that check them on small instances, and TLAPS proofs of their safety properties
for every value of the constants. `PROJECT.json` lists the runs, the mutants,
the source lines behind each definition, the hazards and the theorems.

## 1. Inventory

### Components

| component | source | state | operations |
|---|---|---|---|
| MQTT session | `pkg/session` | a `Session` shared by two goroutines through the context; the `errs` channel; two sockets; the packet in hand | `Stream`, `stream` (up, down), `authorize`, `notify`, the two `Interceptor`s |
| MQTT over TCP | `pkg/mqtt` | listener; one goroutine per client | `Listen`, `accept`, `handle` |
| MQTT over WebSocket | `pkg/mqtt/websocket` | `http.Server`; a hijacked WebSocket per client; the message reader and two locks of `wsWrapper` | `Listen`, `ServeHTTP`, `pass`, `Read`, `Write` |
| CoAP over UDP | `pkg/coap` | `connMap` under a mutex; per device a server socket and the `started` flag | `Listen`, `proxyUDP`, `newConn`, `upUDP`, `downUDP`, `closeConn` |
| CoAP over DTLS | `pkg/coap` | per session a DTLS connection, a server socket, two goroutines | `Listen`, `proxyDTLS`, `handleDTLS`, `dtlsUp`, `dtlsDown` |
| CoAP hooks | `pkg/coap` | none | `handleCoAPMessage` and the error response |
| HTTP requests | `pkg/http/http.go`, `checker.go`, `errors.go` | none between requests; in one, the body and the payload that shares its bytes | `Listen`, `ServeHTTP`, bypass and origin checks, `encodeError` |
| HTTP WebSocket | `pkg/http/ws.go` | per session two WebSockets, two goroutines, the message each has in hand | `handleWebSocket`, `stream` |
| TLS | `config.go`, `pkg/tls`, `pkg/tls/verifier` | per server the configuration; per handshake the place in the chains | `NewConfig`, `newVerifiers`, `LoadTLSConfig`, `NewValidator`, CRL and OCSP verification |
| process | `cmd/main.go` | the shared context, an errgroup, the signal channel | `main`, `StopSignalHandler` |

### Interactions

`main` starts every `Listen` in one errgroup. Each `Listen` runs a goroutine
that takes clients off a listener and one that closes the listener when the
context is done. Taking a client starts a session, which has two goroutines, one
per direction. These meet only in a few places: the `Session` (written by up,
read by the hooks of both, no lock), the `errs` channel, and the sockets, which
one goroutine writes to while another may close them. In the UDP proxy all
devices share one goroutine and the map, and each device has a reader of its own
that closes its socket behind the back of the first. A WebSocket reaches the
MQTT session through `wsWrapper`, and the HTTP session through `ServeHTTP`. A
TLS handshake calls the `Validator`, which reads files and asks servers on the
network for every certificate while authorities go on revoking.

### What is hard here

- **Ending.** Nothing cancels a blocked read or write. Each proxy finds its own
  way to end the second goroutine after the first: closing both sockets (MQTT),
  closing the one the other reads from (HTTP WebSocket), not at all (DTLS),
  read deadlines (both CoAP sides).
- **Shared state without a lock.** The `Session` in MQTT; the `Conn` that
  `proxyUDP` holds after `newConn` released the mutex.
- **Order of hooks and I/O.** MQTT notifies after the write, CoAP and HTTP before
  it; an error after the notification is lost.
- **A channel at its limit.** `errs` holds two, one is received, and a failing
  notification reports without ending its goroutine.
- **Packets refused in the middle.** A skipped packet would leave a gap in a
  stream that the far end believes to be complete. An interceptor may fail on one
  or hand nothing back.
- **Borders that do not agree.** MQTT packets in WebSocket messages: the end of a
  message may come with bytes or without, in the middle of a packet.
- **Shared bytes.** An HTTP payload is the body until a hook assigns it anew.
- **Timeouts.** A reader's deadline races a datagram being handled.
- **Fallbacks.** Own distribution point, configured one, offline list: each with
  its own issuer, its own errors, and a depth that counts in one of two loops.
- **One server failing.** Which errors stop the others, and which leave a bound
  port that nobody reads, or that sessions keep bound.

### What would make each component correct

- session: nothing crosses without its hook's approval; each direction is a
  gapless relay; notifications match writes; hooks are shown the identity that was
  accepted; a hang-up ends both goroutines.
- UDP: the map and the open sockets agree; answers reach their own device;
  an open, used socket has a reader; a silent one is reclaimed.
- DTLS: forwarding stops at the first refusal; sockets outlive their users; the
  session ends when the device leaves.
- HTTP WebSocket: gapless relays; the server gets what `Publish` saw; the end of
  one direction ends both and unsubscribes exactly once.
- HTTP requests: one truthful answer each; no forwarding without the hooks unless
  the path is bypassed; the server gets the body as hooks edited it in place.
- wsWrapper: the bytes come through whatever messages they were cut into, and a
  complete packet does not wait for the end of its message.
- process: a listener's failure is local, a failed bind is global, shutdown
  terminates and releases the ports, but for one that DTLS sessions still use.
- TLS: a client is accepted only when, in its full handshake, each method got an
  answer that clears each certificate it examines; refused only for cause.

## 2. Modules

| module | models | extends |
|---|---|---|
| `Relay` | abstract specification of one direction of any session | |
| `Stream` | `session.Stream` and the `handle`/`pass` that runs it | instantiates `Relay` twice |
| `MCStream` | packets, interceptors and bounds for TLC | `Stream` |
| `StreamProofs` | invariants of `Stream`, and that it implements `Relay` in both directions, proved | `Stream` |
| `CoapMessage` | the decision of `handleCoAPMessage` | |
| `CoapMessageProofs` | what that decision guarantees, proved | `CoapMessage` |
| `MqttWS` | one MQTT-over-WebSocket connection: `ServeHTTP`, the goroutine `pass`, `wsWrapper` | instantiates `Relay` twice |
| `MqttWSProofs` | no byte is lost in `MqttWS`, and it implements `Relay` packet by packet, proved | `MqttWS` |
| `CoapUDP`, `CoapUDPProofs` | the UDP proxy | `CoapMessage` |
| `CoapDTLS`, `CoapDTLSProofs` | one DTLS session | `CoapMessage` |
| `Coap` | `Listen`, which runs one of the two | `CoapUDP`, instantiates `CoapDTLS` |
| `HttpWS` | one WebSocket session of the HTTP proxy | instantiates `Relay` twice |
| `HttpProxy` | one HTTP request through `ServeHTTP`, up to the session it may become | `HttpWS` |
| `HttpWSProofs` | invariants of both, proved | `HttpProxy` |
| `CertVerify`, `MCCertVerify`, `CertVerifyProofs` | start-up of TLS and one handshake under the `Validator` | |
| `Lifecycle`, `MCLifecycle`, `LifecycleProofs` | `main` and every `Listen` with its accept loop | |

### How state and actions correspond to the code

A goroutine is a program counter; the label is the next call it makes that
others can see. One action is one such call with everything up to the next.
Variables marked *history* in a module exist in no code; they record what a
property needs.

- **Stream.** `main` is `mqtt.handle` (`websocket.pass` has the same shape:
  dial, certificate, `session.Stream`, deferred closes). `pc` holds the two
  `stream` goroutines. A packet is its kind and a `body`, standing for whatever
  hooks may see or change: credentials or topic. `authorize` on a CONNECT is two
  actions, `StoreCredentials` and `AuthConnect`, because Down's hooks can
  see the `Session` between them; a half-written or not yet approved `Session`
  is the single value `Unapproved`. Down's hook gets a copy of the topic
  (`AuthDelivery` leaves the packet). `errs` is a counter with `Send` blocking at
  `ErrsCap`. `Send` on `reportNotify` goes on reading, as the code does. An
  interceptor may return `NilPacket`, which passes `authorize` unseen and whose
  `Write` takes the process down (`WriteNil`).
- **CoapUDP.** `loop` is `proxyUDP` with `upUDP` inlined, `reader[c]` is the
  `downUDP` of a `Conn`. `newConn` and `closeConn` are single actions because the
  mutex makes them so; `cur` is the unlocked pointer between them. UDP loses,
  repeats and reorders: `ReadFromUDP` picks any datagram at any time, and the
  server answers any datagram it has seen, as often as it likes.
- **CoapDTLS.** `up`, `down` and `main` are the three goroutines. Neither of the
  first two tells the other anything, so the guards of their failures
  (`ReadFails`, `ReadReplyFails`) are all there is to end a session.
- **Coap.** `transport` is the case `Listen` takes; the other side never starts.
- **HttpWS.** `main` follows `handleWebSocket` hook by hook. A message is a number,
  its place in the order of arrival (history), and a payload that hooks may
  rewrite, so that a rewriting is no gap and no swap. `WriteClose` and `CloseDest`
  are the tail of the two goroutine functions.
- **MqttWS.** `serve` is `ServeHTTP`, which returns once it has started `pass`
  (`websocket.go:71`); `pass` is that goroutine, `go[d]` the `stream` goroutine of a
  direction, `reader[d]` the field `c.r` of the wrapper it reads from. `wire`
  holds bytes and the ends of messages. `NextReader` takes up the next message;
  `ReadBytes` and `MessageEnds` are what `Read` may then get: some bytes of it, or
  its `io.EOF` with bytes or without. With none, `Read` loops; with some, it
  returns them and forgets the reader. At `tell` and `report` a goroutine waits for
  room in `errs`, after the first of which it goes on.
- **HttpProxy.** `serve` follows `ServeHTTP`; at "ws" the steps of `HttpWS` are its
  steps, and `SessionAnswer` is what each of them tells the client. `HookEdits` is
  a hook editing the payload in place: the new body reads the same bytes.
- **CertVerify.** `pc`, `m`, `k` and `i` are the place in the loops: method, chain,
  certificate. One action is one certificate checked by one method, with the
  list or the responder asked at that moment. `List` is an authority publishing a
  longer list, `Expire` the end of the older versions of it: `fresh` is what all
  unexpired versions contain, `listed` the newest, and a proxy may be served any
  version between (`Obtainable`). `cleared` is the history of answers obtained.
  `Resume` is a client that returns with its session ticket.
  `hello` holds chains the library verified or certificates as they came: the
  proxies of this repository only see the first (`RequireAndVerifyClientCert`),
  but `Validator` is exported and `UseValidator` stands for programs built on it.
- **Lifecycle.** Servers are numbered in the order `main` starts them; `Loop`
  says which accept loop each runs: `p.accept` ("accept") and `proxyDTLS` ("dtls")
  retry, `http.Server.Serve` returns its error ("serve"), `proxyUDP` returns
  without one ("udp"). `cancelled` is the context all share, `failed[s]` the
  errgroup error that cancels the derived one. Only CoAP's `Listen` closes its
  listener once more on return (`DeferredClose`, `coap.go:93` and 109). `live[s]` counts
  the sessions that share the UDP socket of a DTLS listener: `port[s]` stays bound
  until the listener and all of them are closed (`Close`, `EndSession`). What else
  becomes of a client after `HandOn` is the matter of the session modules.

### Abstractions, and what they leave out

- `wrap`, logging, response encoding and `encodeErrorResponse` change no state.
- An interceptor is a relation between packets, one of which may be no packet, or
  nil, or fails.
- Topics outside MQTT sessions that hooks rewrite are left out where nobody reads
  them: those of WebSocket messages, each hook's own slice (`ws.go:31`, 35, 88, 113),
  and the `RequestURI` of a request (`http.go:108`). So is a payload of a request
  that a hook assigns anew (`http.go:102`), and what hooks make of a CoAP datagram:
  the original buffer is forwarded (`coap.go:164`, 272).
- Buffer sizes: a CoAP datagram over 1280 bytes is cut by `Read`; the models
  carry datagrams whole.
- An address that a different device comes to use (NAT, DHCP) is the same device
  to the code and to the model.
- Errors pending on a UDP socket (ICMP) may hit any later write or read on it.
- A peer that hangs up may take its unread packets with it, so a read may fail
  although packets are waiting.
- A peer that hangs up is noticed by a blocked write; one that *stalls* (stays
  connected but does not drain) is not: the side constant `Stalling` says who may.
- Close frames are no part of what `Relay` counts.
- `MqttWS`: all packets have the same length, and a byte is its own position in
  the stream; of what `Stream` does with a packet there is that it is relayed or
  refused, that its notification may fail, and where its goroutine may wait. The
  rest is in `Stream`. The mutexes of the wrapper are left out: each end has one
  reading and one writing goroutine.
- `HttpProxy`: `httputil.ReverseProxy` takes the body and answers, for the server
  or with Bad Gateway. A failing origin check is a failing upgrade.
- `CertVerify`: an answer verifies under the issuer keys in `Authority`; names are
  serial numbers and strings as `retrieveIssuerCert` compares them; files and
  responses that are missing, malformed or expired are one failure, `trouble`.
  Time is the order of steps: an OCSP answer has none at all, because nobody looks
  at its times or asks for a nonce (`ocsp.go:162-168`), so a responder may answer
  "good" for a certificate it has revoked. A resumed session (`tls.go:73-75` sets
  `VerifyPeerCertificate`, which crypto/tls does not call then) may come any time later.
- In `Lifecycle` a server that is closed before `Serve` was called is taken for
  closed at once; the library finds out on its first `Accept`.

## 3. Properties and runs

Every run lists its invariants and properties in its cfg. Deadlock checking is
off everywhere because sessions end, peers may stay silent and the process exits.

| run | what it shows |
|---|---|
| `stream` | Up relays what `AuthConnect`, `AuthPublish` and `AuthSubscribe` approved, as they rewrote it, in order and without a gap (`VettedBeforeDelivered`, `UpIsRelay`); one `notify` per write (`NotifiedAfterDelivery`); a goroutine blocks on `errs` for good only if notifications failed (`BlockedOnlyByNotifyErrors`); a hook sees an identity not accepted only while Up holds a CONNECT (`AcceptedUnlessConnecting`). |
| `stream_ends` | A hang-up of either peer ends `handle`, with exactly one `Disconnect`, unless the other peer has stalled (`HangUpEndsSession`); then both goroutines end too, when no notification fails (`NoGoroutineLeft`). Down relays in order, and a refused PUBLISH ends it with one DISCONNECT (`DownIsRelay`). |
| `mqtt_ws` | Packets come through whatever messages they were cut into, in both directions (`PacketsRelayed`, a refinement of `Relay`); a complete packet is relayed even if its message never ends and notifications fail, unless the session ends or its receiver stalls (`AllRelayed`). |
| `coap` | Plain: `connMap` and sockets agree, answers reach their device, a used socket has a reader unless a write to the device failed, nothing unapproved is forwarded; a socket with a reader whose server falls silent is closed and forgotten (`SilentConnReclaimed`). DTLS: what the hooks approve is forwarded until the first refusal and nothing after; sockets outlive the goroutines; a device that left or was refused gets its session ended (`SessionEnds`). |
| `http` | Every request is answered once and truthfully (`AnsweredOnce`); forwarded only if bypassed or approved by all hooks in order (`ForwardedIfApproved`). A WebSocket session relays both ways without a gap (`UpIsRelay`, `DownIsRelay`), delivers what was published, all but possibly the last (`PublishedIsDelivered`), cleans up, and ends as a whole (`OneEndEndsAll`). |
| `cert` | A client asked for certificates is accepted only if every configured method obtained, for each certificate it examines, an answer that clears it, and none was on every unexpired version of its list when the full handshake began (`AcceptedIfCleared`); it is refused only for cause (`RefusedForReason`). |
| `lifecycle` | Only a signal or a failed bind stops the servers; a returned `Listen` left no goroutine, and its port only to DTLS sessions (`PortsReleased`); open ports are served (plain CoAP excepted, after a failed read); no client is handed on after `Listen` returned; shutdown completes. |
| `stream_errs_never_block` | finding 1 |
| `stream_interceptor` | findings 2 and 3 |
| `coap_reader` | finding 4 |
| `http_publish` | finding 5 |
| `cert_depth` | finding 6 |

The type invariants of `CoapDTLS`, `HttpWS` and `Lifecycle` are proved and not
run on their own (`ServeTypeOK` contains that of `HttpWS`).

### Findings

Each is a disagreement between the code and a line of the repository.

1. `stream.go:43-44` says a goroutine cannot block on `errs` because it is
   buffered. A failing notification is reported without ending the goroutine, so
   three errors can meet two places. `BlockedOnlyByNotifyErrors` is the exact
   condition, proved for every capacity; where no notification fails the comment
   is right (`NeverBlocking`).
2. `interceptor.go:17` says of an interceptor's error that mGate "is cancelling the
   packet". The code ends the session (`stream.go:63-65`, 94-96). The relay
   properties, `UpIsRelay` and `DownIsRelay`, follow the code: a packet that was
   merely cancelled would be the gap they exclude, so a change to the documented
   behaviour has to weaken them.
3. `interceptor.go:16` makes the packet an interceptor returns optional. One that
   returns neither a packet nor an error makes `stream.go:101` call a method of
   nil; nothing recovers, and the process dies with all its sessions.
4. `README.md:82` of the repository promises a goroutine that reads server
   responses. In the UDP proxy one failed write to the device ends it; the entry
   and its socket stay in use (`coap.go:193`). Over DTLS, after a minute without a
   response `dtlsDown` ends and `dtlsUp` goes on forwarding (`coap.go:281`); the run
   shows that instead with `Transports = {"dtls"}`.
5. `handler.go:25` and `README.md:106` say `Publish` runs after a client
   successfully published. In a WebSocket session it runs before the write
   (`ws.go:109`, 117), which may fail. `PublishedIsDelivered` bounds the damage:
   one message, the last.
6. `README.md:360` says that with `CRL_DEPTH` 1 only the leaf certificate is
   verified. The loop over verified chains has no depth (`crl.go:80-103`), and a
   certificate behind the leaf gets a client refused. The depth counts only
   for certificates as they came; `Examined` says which bound applies.

What the models do as the code does, with no run of its own, because nothing in
the repository is definite enough to be refuted, because a property would restate
one line, or because the matter is configuration:

- `handler.go:18-19` says topics are passed by reference so that they can be
  modified. What `AuthSubscribe` makes of the topic of an MQTT delivery is a
  copy (`stream.go:77`), and all it makes of the topic of a WebSocket session is
  lost (`ws.go:31`, 35, 88, 113).
- `README.md:76` speaks of modifying packets as they flow. A payload that
  `AuthPublish` or `Publish` assigns anew through its pointer is not what an HTTP
  request forwards (`http.go:102-113`); edits in place are. What CoAP hooks
  change is not forwarded at all (`coap.go:164`).
- A UDP socket whose first datagram was refused, or could not be forwarded, has no
  reader, and stays until a later datagram of that device starts one.
- `CRL_DISTRIBUTION_POINTS` is an "override" (`README.md:361`), but the
  certificate's own distribution point comes first (`CRLSource`).
- The offline list is not checked against the issuer that
  `OFFLINE_CRL_ISSUER_CERT_FILE` (`README.md:364`) names (`BeginMethod`).
- A list is searched by serial number alone, so a list of one authority turns away
  a certificate of another with that number (`OnList`; `RefusedForReason` counts
  it as listed).
- A raw certificate whose issuer is missing makes `CheckSignatureFrom` dereference
  nil (`NilIssuer`).
- A WebSocket upgrade that fails is answered by the upgrader and then once more
  (`websocket.go:66`), which changes nothing for the session: `MqttWS` has one
  `NotServed`. `AnsweredOnce` is about the HTTP proxy only.

### Bounds, and why they are enough

- `stream`: two packets from the client and one from the broker, kinds CONNECT,
  PUBLISH, SUBSCRIBE up and PUBLISH down. Two up show a skip, a repetition or a
  swap, and hold two CONNECTs; the broker's PUBLISH may come at any time, so Down
  may be authorizing while Up stores the credentials of either. Filling `errs`
  needs two failed notifications and the final error. Two bodies, so that every
  rewriting by hooks and the pre-interceptor shows; peers send one. The
  post-interceptor drops some publications.
- `stream_ends`: one packet up and two down (CONNACK, PUBLISH), both peers may
  stall, a malformed packet from the client. Two down show a gap and what follows
  a DISCONNECT; the ends need one packet in each direction at most.
- `mqtt_ws`: packets of two bytes, two of them from the client and one from the
  broker, whose messages do not end; one unread message end from the client at a
  time, so that a message holds any part of a packet, one and a half, two, or
  nothing. The broker may stall. Ends from the broker go through the same `Read`.
- `coap`: either transport. Two devices, two sockets, three datagrams, two replies:
  a device can lose a socket, get another, and meet the reader of the first, while
  the other device uses its own. No symmetry, because a liveness property is
  checked. Over DTLS three datagrams and three replies.
- `http`: two messages in all, two payloads, both peers may stall; two in one
  direction show a gap or a swap, one in each shows interference. Every kind of
  request: prefixed or not, bypassed or not, WebSocket or not.
- `cert`: a leaf, an intermediate, its root, an old certificate of the
  intermediate with another key and a leaf without URLs, in two chains of two and
  three or as they came; configurations of each kind, depths 0 to 2, two methods
  at most; two entries on all lists together. A leaf and the root share a serial
  number, two certificates share a name.
- `lifecycle`: one server of each kind and one client each; the kinds differ only
  in their loops and in who keeps the port, and servers share only the context.

### Fairness

Weak fairness is on the goroutines only: the Go scheduler runs what can run, a
hook, bind or handshake returns, and a read deadline or a closed socket wakes its
reader. Nothing is assumed of peers: they may stay silent, hang up, or stop
draining. In `Stream` and `HttpWS` a dial returns as well: `net.Dial` has
the time limit of the operating system, the WebSocket dialer of the HTTP proxy
one of its own. In `MqttWS` it need not, for the dialer there has no time limit,
and an upgrade waits for the peer. `FairServe` is
fair to a WebSocket session and not to the steps of a plain request, of which no
liveness is claimed. In `Lifecycle` errors of an open listener and clients are not
fair either, nor are the ends of DTLS sessions, so shutdown may not count on them.
In `coap` the server's silence comes from `MaxReplies` and, over DTLS, from
`MaxDatagrams`: the properties speak of a server that eventually stops sending.
`CertVerify` claims no liveness and states no fairness.

### What hooks are shown

Up writes ID, username and password of each CONNECT into the `Session` that both
goroutines share, without a lock, before `AuthConnect` has seen them; a client may
send a second CONNECT, and a broker may send before it received the first.
`AcceptedUnlessConnecting` says exactly when a hook is shown an identity other than
the one accepted last: it is a hook of Down, and Up has stored the credentials of a
CONNECT that is still with `AuthConnect`, or that was refused, after which Up ends
and the `Session` stays as it is until Down does. Nothing is assumed of either peer.
An embedding program whose `AuthSubscribe` looks at the `Session` should know it.

### Mutants

Definitions commented "Mutated ..." are the faults each property is tested with:
a forgotten return after an error, a mutated copy-back, a close that is left out,
a wait for one goroutine instead of two, an `io.EOF` taken for the end of a
packet, a depth compared with the wrong index. Each property has one that breaks
it.

## 4. Proofs

All invariants and all action properties of the passing runs, and every refinement
they check, are proved for any values of the constants, from the assumptions
`StreamAssumption`, `MqttWSAssumption`, `CoapUDPAssumption`, `HttpWSAssumption`,
`HttpProxyAssumption`, `CertVerifyAssumption` and `LifecycleAssumption`, which give
constants their types (`CoapDTLS` needs none).
One theorem has a hypothesis besides: `NeverBlocking`, that notifications do not fail
(`~NotifyMayFail`). Each argument is an inductive invariant:

- **StreamProofs.** `TypeInv` adds to `TypeOK` that a packet in hand is a packet
  where one is needed, and may be none only behind an interceptor. `Control` says
  which goroutine may be where while `handle` is where, and that all of them are
  crashed or none is; `ErrsAccount` counts: errors buffered, plus the one received,
  are the failed notifications plus one per goroutine that ended. Without that
  count the claim about `errs` is not inductive. `PipeInv` follows one packet
  through the pipeline: what has been vetted is what was written, plus the packet
  between the hook and the write, which is still an allowed form of what was
  vetted. `NotifyInv` ties `notified` to the length of `delivered`.
  `FlowInv` relates what was read, what is in hand and what was delivered, packet
  by packet, to what the peer sent; `FarewellInv` says the DISCONNECT is written by
  the last action of Down. From these every step is a step of `Relay` or leaves it
  unchanged: `UpRefines` and `DownRefines` are `Spec => UpRelay!Spec` and
  `Spec => DownRelay!Spec`.
  `Identifying` is `AcceptedUnlessConnecting` for any packets, any number of
  CONNECTs and any order of the peers. `Accord` is its invariant: the `Session`
  differs from what `AuthConnect` accepted only while a CONNECT is with Up at
  `AuthConnect`, or after it was refused and Up is on its way to its end.
  `Return`, `SilentAfterReturn` and `WindingDown` are about the end: sockets are
  closed and `Disconnect` called once; a goroutine that survives `handle` relays
  nothing, and each of its steps lowers `Distance`, the steps it is from its end.
- **MqttWSProofs.** `FlowInv` says that what was delivered, the bytes in hand and the
  bytes on the wire are together the stream that arrived. A wire is a sequence of
  bytes with ends of messages anywhere in it, and induction over it is out of
  reach, so `Stretch` says what it holds by neighbours (bytes with only ends
  between them follow each other) and by runs (bytes with no end between them are
  as far apart in the stream as on the wire). Taking up a message, reading some of
  it and reading past its end each keep it (`StretchDrop`, `StretchHead`). A packet
  is written when it is whole, so `Relaying` is `PacketsRelayed`: a step either
  completes a packet at the source, delivers the next one, or leaves the relay
  alone. `Return`, `SilentAfterReturn` and `WindingDown` are about the end of
  `pass`, with `ServeHTTP` long returned: `Distance` counts what is left on the wire,
  and every step of a goroutine lowers it. A goroutine at `SendError` may have no
  step: whether `errs` has room is the matter of `StreamProofs`.
- **CoapMessageProofs.** Every way of handling a message that ends well called
  all the hooks its kind requires.
- **CoapUDPProofs.** `CoapInv` joins the invariants of the loop (the `Conn` in
  hand belongs to the sender), of the readers (a `Conn` has a reader from the
  moment it is started, and only the reader closes its socket, last) and of
  ownership (replies on a socket answer its device) to the properties. Map
  coherence needs the second: a second close of a `Conn` would delete its
  successor's entry. `Lifetimes` is the action property behind it: a `Conn` is dialed
  once and has one reader in its life. `WindingDown` gives that reader a measure
  that each of its steps lowers and only a datagram of the server raises.
- **CoapDTLSProofs.** `PhaseInv` and `CountInv`; `WindingDown` says that neither
  goroutine goes round its loop again after the device has left, even if the
  server never falls silent.
- **HttpWSProofs.** `TypeInv`, `PhaseInv` (which sockets are open where),
  `FlowInv` (messages delivered and in hand bear the numbers of those that were
  read) and `PublishInv`; then both refinements of `Relay`.
  `ClosedBehind` (a goroutine that is done has closed what the other reads from)
  gives `WindingDown`: the other finishes the message in hand and ends. The second
  half is about requests: `ServeStutters` shows that every step of `HttpProxy` is a
  step of a session or leaves it unchanged, so `ServeIsSession` carries all of the
  above over. `ServeInv` adds `BusyInv` (a session has begun only at "ws"),
  `Agreed` (the hooks that approved are those that `serve` is past), `BodyInv`
  (only a body in the course of being read is drained) and `DoneInv` to the
  properties.
- **CertVerifyProofs.** `PosInv` keeps the place inside the loops, `ListInv` says
  that `fresh` only grows inside `listed`, so that what a handshake began with is
  on every version obtained later, and that the offline list was read after it
  began. `CleanInv` says that everything before the place, method by method, chain
  by chain, was cleared, and was not on all unexpired versions at the start.
  `RefusedForReason` is inductive beside these.
- **LifecycleProofs.** `PhaseInv` ties both goroutines and the listener to the
  phase of their `Listen` and says why each goroutine ended, and `PortInv` the port
  to the listener and the sessions behind it; `ServedWhileListening` is proved as an
  action property from them. `WindingDown` counts the steps of a loop after the
  close of its listener.

Only model-checked: every liveness property (`HangUpEndsSession`,
`NoGoroutineLeft`, `AllRelayed`, `SilentConnReclaimed`, `SessionEnds`,
`OneEndEndsAll`, `ShutdownCompletes`), which need fairness and ENABLED, out of the
prover's reach. The `WindingDown` theorems are the halves of most of them that can
be proved: the steps left are bounded, and fairness has only to let them be
taken. The properties of the violation runs are false and have no theorem, but
for `NeverBlocking`, which supplies the condition the first of them lacks.

## 5. What is not modelled

- Encodings, signatures, chain building and the HTTP exchanges of OCSP and CRL
  belong to libraries; `SecurityStatus` makes a log text; the pool of server CAs is
  loaded and used by no server.
- `wsWrapper.SetDeadline`, which nobody calls.
- What a resumed DTLS session would skip: the DTLS configuration has no session
  store, so nothing is resumed there.
- `config.go` beyond the TLS part only reads strings from the environment;
  `examples/` and `test/` hold demonstration peers and a logging handler.
- Sessions after `main` returned, which the exit cuts off; a device that stays
  silent after `dtlsDown` ended; the entry of a device whose first datagram was
  refused. Nothing in the repository says what should become of them.

## 6. Plan

The MQTT session was written first because it is the heart of the system, then
the two CoAP proxies, the WebSocket session, the process around them, the HTTP
request, the wrapped MQTT session and the certificate checks. What is left:

1. `Stream` under a sequence of all hook calls, to state where `Disconnect` may
   fall relative to the notifications (`stream.go:47`).
2. Proofs: the other halves of the liveness properties that safety can say, that a
   goroutine short of its end always has a step of its own to take unless its
   peer blocks it, stated without ENABLED; a measure for one handshake of
   `CertVerify`.
