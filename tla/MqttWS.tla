------------------------------- MODULE MqttWS -------------------------------
(***************************************************************************)
(* One connection to the MQTT-over-WebSocket proxy: ServeHTTP upgrades it, *)
(* leaves it to a goroutine and returns; that goroutine, pass, dials the   *)
(* broker, wraps both WebSockets in a wsWrapper and runs session.Stream    *)
(* over them as if they were TCP connections.                              *)
(*                                                                         *)
(* A WebSocket carries messages, MQTT a stream of bytes: a packet may span *)
(* messages, a message hold several packets or nothing. The wrapper's Read *)
(* drops the borders. A packet has PacketLen bytes here; of what Stream    *)
(* does with one there is no more than that it is relayed or refused, that *)
(* the notification about it may fail, and where a goroutine may wait.     *)
(***************************************************************************)
EXTENDS Naturals, Sequences, FiniteSets

CONSTANTS
  PacketLen,      \* how many bytes make a packet
  MaxUp, MaxDown, \* bounds: bytes that arrive from the client, from the broker
  MaxUpEnds, MaxDownEnds, \* bounds: messages that have ended and are not read yet
  Stalling        \* the peers that may stop draining their socket

Direction == {"Up", "Down"}
Side == {"in", "out"}                 \* inboundConn: the client; outboundConn: the broker

ASSUME MqttWSAssumption ==
  /\ PacketLen \in Nat \ {0}
  /\ MaxUp \in Nat /\ MaxDown \in Nat /\ MaxUpEnds \in Nat /\ MaxDownEnds \in Nat
  /\ Stalling \subseteq Side

(* Nobody here looks at a byte, so each can be its own position in the     *)
(* stream: what is lost, repeated or out of place then shows.              *)
MaxBytes(d) == IF d = "Up" THEN MaxUp ELSE MaxDown
MaxEnds(d)  == IF d = "Up" THEN MaxUpEnds ELSE MaxDownEnds
Byte == 1..(MaxUp + MaxDown)
End  == 0             \* the border of a message, on the wire

Source(d) == IF d = "Up" THEN "in" ELSE "out"
Dest(d)   == IF d = "Up" THEN "out" ELSE "in"

VARIABLES
  serve,      \* has ServeHTTP returned?
  pass,       \* where pass is
  errs,       \* how many errors are in the channel of Stream
  go,         \* where the stream goroutine of each direction is
  reader,     \* does the wrapper it reads from hold a message reader, c.r?
  packet,     \* the bytes ReadPacket has so far
  wire,       \* what has arrived and is not read yet
  open,       \* mGate's end of each WebSocket
  lost,       \* has the peer of each gone?
  stalled,    \* has the peer of each stopped draining its socket?
  sent,       \* history: the bytes that arrived in each direction
  delivered,  \* history: the packets written in each direction
  farewell    \* history: was the client sent the DISCONNECT of a refusal?

passVars == <<serve, pass>>
goVars   == <<errs, go, reader, packet>>
peerVars == <<lost, stalled, sent>>
vars == <<passVars, goVars, wire, open, peerVars, delivered, farewell>>

ErrsCap == 2          \* make(chan error, 2)

TypeOK ==
  /\ serve \in {"route", "done"}
  /\ pass \in {"none", "dial", "cert", "stream", "disconnect", "closeOut", "closeIn", "done"}
  /\ errs \in 0..ErrsCap
  /\ go \in [Direction -> {"idle", "read", "write", "notify", "tell", "report", "done"}]
  /\ reader \in [Direction -> BOOLEAN]
  /\ packet \in [Direction -> UNION {[1..n -> Byte] : n \in 0..PacketLen}]
  /\ \A d \in Direction : go[d] = "write" => Len(packet[d]) = PacketLen
  /\ wire \in [Direction -> Seq(Byte \cup {End})]
  /\ open \in [Side -> BOOLEAN] /\ lost \in [Side -> BOOLEAN]
  /\ stalled \in [Side -> BOOLEAN]
  /\ sent \in [Direction -> Seq(Byte)]
  /\ delivered \in [Direction -> Seq([1..PacketLen -> Byte])]
  /\ farewell \in BOOLEAN

Init ==
  /\ serve = "route" /\ pass = "none"
  /\ errs = 0
  /\ go = [d \in Direction |-> "idle"]
  /\ reader = [d \in Direction |-> FALSE]
  /\ packet = [d \in Direction |-> << >>]
  /\ wire = [d \in Direction |-> << >>]
  /\ open = [s \in Side |-> FALSE] /\ lost = [s \in Side |-> FALSE]
  /\ stalled = [s \in Side |-> FALSE]
  /\ sent = [d \in Direction |-> << >>]
  /\ delivered = [d \in Direction |-> << >>]
  /\ farewell = FALSE

-----------------------------------------------------------------------------
(* The peers.                                                              *)

Arrives(d, x) ==
  /\ open[Source(d)] /\ ~lost[Source(d)]
  /\ wire' = [wire EXCEPT ![d] = Append(@, x)]
  /\ UNCHANGED <<passVars, goVars, open, lost, stalled, delivered, farewell>>

ByteArrives(d) ==
  /\ Len(sent[d]) < MaxBytes(d)
  /\ Arrives(d, Len(sent[d]) + 1)
  /\ sent' = [sent EXCEPT ![d] = Append(@, Len(@) + 1)]

(* The end of a message, which may be an empty one. *)
EndArrives(d) ==
  /\ Cardinality({i \in DOMAIN wire[d] : wire[d][i] = End}) < MaxEnds(d)
  /\ Arrives(d, End)
  /\ UNCHANGED sent

Leave(s) ==
  /\ open[s] /\ ~lost[s]
  /\ lost' = [lost EXCEPT ![s] = TRUE]
  /\ UNCHANGED <<passVars, goVars, wire, open, stalled, sent, delivered, farewell>>

(* It stays connected, but reads no more. *)
Stall(s) ==
  /\ s \in Stalling
  /\ open[s] /\ ~stalled[s]
  /\ stalled' = [stalled EXCEPT ![s] = TRUE]
  /\ UNCHANGED <<passVars, goVars, wire, open, lost, sent, delivered, farewell>>

-----------------------------------------------------------------------------
(* ServeHTTP and pass.                                                     *)

SetOpen(s, b) == open' = [open EXCEPT ![s] = b]

(* NotFound, or an upgrade that fails. *)
NotServed ==
  /\ serve = "route" /\ serve' = "done"
  /\ UNCHANGED <<pass, goVars, wire, open, peerVars, delivered, farewell>>

(* go p.pass, and ServeHTTP returns. *)
Upgrade ==
  /\ serve = "route" /\ serve' = "done"
  /\ pass' = "dial"
  /\ SetOpen("in", TRUE)
  /\ UNCHANGED <<goVars, wire, peerVars, delivered, farewell>>

Goto(from, to) == pass = from /\ pass' = to /\ UNCHANGED serve

DialFails ==
  /\ Goto("dial", "closeIn")
  /\ UNCHANGED <<goVars, wire, open, peerVars, delivered, farewell>>

Dial ==
  /\ Goto("dial", "cert")
  /\ SetOpen("out", TRUE)
  /\ UNCHANGED <<goVars, wire, peerVars, delivered, farewell>>

CertFails ==
  /\ Goto("cert", "closeOut")
  /\ UNCHANGED <<goVars, wire, open, peerVars, delivered, farewell>>

StartStream ==
  /\ Goto("cert", "stream")
  /\ go' = [d \in Direction |-> "read"]
  /\ UNCHANGED <<errs, reader, packet, wire, open, peerVars, delivered, farewell>>

(* Stream takes the first error, be it of a goroutine that goes on.        *)
AwaitError ==
  /\ Goto("stream", "disconnect")
  /\ errs > 0
  /\ errs' = errs - 1
  /\ UNCHANGED <<go, reader, packet, wire, open, peerVars, delivered, farewell>>

(* Whatever the Disconnect hook answers. *)
Disconnect ==
  /\ Goto("disconnect", "closeOut")
  /\ UNCHANGED <<goVars, wire, open, peerVars, delivered, farewell>>

(* The deferred closes, last first. *)
CloseOut ==
  /\ Goto("closeOut", "closeIn")
  /\ SetOpen("out", FALSE)
  /\ UNCHANGED <<goVars, wire, peerVars, delivered, farewell>>

CloseIn ==
  /\ Goto("closeIn", "done")
  /\ SetOpen("in", FALSE)
  /\ UNCHANGED <<goVars, wire, peerVars, delivered, farewell>>

-----------------------------------------------------------------------------
(* A stream goroutine, reading a packet through wsWrapper.Read.            *)

(* Read found no reader: it waits for a message to begin. *)
NextReader(d) ==
  /\ go[d] = "read" /\ ~reader[d]
  /\ wire[d] # << >>
  /\ reader' = [reader EXCEPT ![d] = TRUE]
  /\ UNCHANGED <<passVars, errs, go, packet, wire, open, peerVars, delivered, farewell>>

Wanted(d) == PacketLen - Len(packet[d])

(* n bytes at the head of the wire, all of one message. *)
Readable(d, n) ==
  /\ go[d] = "read" /\ reader[d]
  /\ n <= Len(wire[d]) /\ \A i \in 1..n : wire[d][i] # End

(* Read hands n bytes to ReadPacket. *)
Returns(d, n) ==
  /\ packet' = [packet EXCEPT ![d] = @ \o SubSeq(wire[d], 1, n)]
  /\ go' = [go EXCEPT ![d] = IF n = Wanted(d) THEN "write" ELSE "read"]

Consumes(d, n) == wire' = [wire EXCEPT ![d] = SubSeq(@, n + 1, Len(@))]

ReadBytes(d) ==
  /\ \E n \in 1..Wanted(d) : Readable(d, n) /\ Returns(d, n) /\ Consumes(d, n)
  /\ UNCHANGED <<passVars, errs, reader, open, peerVars, delivered, farewell>>

(* Mutated MessageEnds: continue without a look at n.                      *)
MessageEndsLosingBytes(d) ==
  /\ \E n \in 0..Wanted(d) :
        /\ Readable(d, n) /\ n < Len(wire[d]) /\ wire[d][n + 1] = End
        /\ Consumes(d, n + 1)
  /\ reader' = [reader EXCEPT ![d] = FALSE]
  /\ UNCHANGED <<passVars, errs, go, packet, open, peerVars, delivered, farewell>>

(* Mutated MessageEnds: c.r is kept, and goes on answering io.EOF.         *)
MessageEndsForEver(d) ==
  /\ \E n \in 0..Wanted(d) :
        /\ Readable(d, n) /\ n < Len(wire[d]) /\ wire[d][n + 1] = End
        /\ Returns(d, n) /\ Consumes(d, n)
  /\ UNCHANGED <<passVars, errs, reader, open, peerVars, delivered, farewell>>

(* Mutated MessageEnds: a message is taken for a packet.                   *)
MessageEndsPacket(d) ==
  /\ \E n \in 1..Wanted(d) :
        /\ Readable(d, n) /\ n < Len(wire[d]) /\ wire[d][n + 1] = End
        /\ packet' = [packet EXCEPT ![d] = @ \o SubSeq(wire[d], 1, n)]
        /\ Consumes(d, n + 1)
  /\ go' = [go EXCEPT ![d] = "write"]
  /\ reader' = [reader EXCEPT ![d] = FALSE]
  /\ UNCHANGED <<passVars, errs, open, peerVars, delivered, farewell>>

(* io.EOF, with the last bytes of the message or with none: those bytes    *)
(* are returned, and no error; with none Read goes on to the next message. *)
MessageEnds(d) ==
  /\ \E n \in 0..Wanted(d) :
        /\ Readable(d, n) /\ n < Len(wire[d]) /\ wire[d][n + 1] = End
        /\ Returns(d, n) /\ Consumes(d, n + 1)
  /\ reader' = [reader EXCEPT ![d] = FALSE]
  /\ UNCHANGED <<passVars, errs, open, peerVars, delivered, farewell>>

Broken(s) == ~open[s] \/ lost[s]

(* What makes a goroutine end it reports first. *)
Fails(d, from) == go[d] = from /\ go' = [go EXCEPT ![d] = "report"]

(* The peer closed or vanished, possibly taking unread bytes with it, or   *)
(* pass has closed the socket.                                             *)
ReadFails(d) ==
  /\ Fails(d, "read") /\ Broken(Source(d))
  /\ UNCHANGED <<passVars, errs, reader, packet, wire, open, peerVars, delivered, farewell>>

(* The wrapper writes a packet as one binary message. *)
WritePacket(d) ==
  /\ go[d] = "write" /\ open[Dest(d)] /\ ~stalled[Dest(d)]
  /\ delivered' = [delivered EXCEPT ![d] = Append(@, packet[d])]
  /\ packet' = [packet EXCEPT ![d] = << >>]
  /\ go' = [go EXCEPT ![d] = IF d = "Up" THEN "notify" ELSE "read"]
  /\ UNCHANGED <<passVars, errs, reader, wire, open, peerVars, farewell>>

WriteFails(d) ==
  /\ Fails(d, "write") /\ Broken(Dest(d))
  /\ UNCHANGED <<passVars, errs, reader, packet, wire, open, peerVars, delivered, farewell>>

(* A hook refuses the packet; only a client is told, if it can be.         *)
Refuse(d) ==
  /\ Fails(d, "write")
  /\ \/ d = "Up" /\ UNCHANGED farewell
     \/ d = "Down" /\ open["in"] /\ ~stalled["in"] /\ farewell' = TRUE
     \/ d = "Down" /\ Broken("in") /\ UNCHANGED farewell
  /\ UNCHANGED <<passVars, errs, reader, packet, wire, open, peerVars, delivered>>

(* A hook is told of the packet; when it fails, the goroutine reports the  *)
(* error and goes on.                                                      *)
Notify(d) ==
  /\ go[d] = "notify"
  /\ \E to \in {"read", "tell"} : go' = [go EXCEPT ![d] = to]
  /\ UNCHANGED <<passVars, errs, reader, packet, wire, open, peerVars, delivered, farewell>>

(* errs <- err, which waits for room in the channel. *)
SendError(d) ==
  /\ go[d] \in {"tell", "report"}
  /\ errs < ErrsCap
  /\ errs' = errs + 1
  /\ go' = [go EXCEPT ![d] = IF @ = "tell" THEN "read" ELSE "done"]
  /\ UNCHANGED <<passVars, reader, packet, wire, open, peerVars, delivered, farewell>>

-----------------------------------------------------------------------------
PassStep ==
  \/ CertFails \/ StartStream
  \/ AwaitError \/ Disconnect \/ CloseOut \/ CloseIn

StreamStep(d) ==
  \/ NextReader(d) \/ ReadBytes(d) \/ MessageEnds(d) \/ ReadFails(d)
  \/ WritePacket(d) \/ WriteFails(d) \/ Refuse(d) \/ Notify(d) \/ SendError(d)

PeerStep ==
  \/ NotServed \/ Upgrade \/ DialFails \/ Dial
  \/ \E d \in Direction : ByteArrives(d) \/ EndArrives(d)
  \/ \E s \in Side : Leave(s) \/ Stall(s)

Next == PassStep \/ PeerStep \/ \E d \in Direction : StreamStep(d)

Spec == Init /\ [][Next]_vars

(* Goroutines are scheduled and the hooks return. Nothing bounds the dial  *)
(* of the broker, and the peers owe nothing.                               *)
FairSpec == Spec /\ WF_vars(PassStep) /\ \A d \in Direction : WF_vars(StreamStep(d))

-----------------------------------------------------------------------------
(* What the wrapped session promises.                                      *)

(* The packets in a sequence of bytes, whatever messages it came in.       *)
Packets(bytes) ==
  [k \in 1..(Len(bytes) \div PacketLen) |->
     SubSeq(bytes, (k - 1) * PacketLen + 1, k * PacketLen)]

Packet == [1..PacketLen -> Byte]
Same == [p \in Packet |-> {p}]
UpRelay == INSTANCE Relay WITH
  Allowed <- Same, MayRefuse <- FALSE,
  submitted <- Packets(sent["Up"]), received <- delivered["Up"], farewell <- FALSE
DownRelay == INSTANCE Relay WITH
  Allowed <- Same, MayRefuse <- TRUE,
  submitted <- Packets(sent["Down"]), received <- delivered["Down"]

(* In both directions the bytes that arrive, cut into messages in any way, *)
(* with empty ones among them, are relayed as the packets they form: none  *)
(* lost, torn, repeated or reordered, and none after a farewell.           *)
PacketsRelayed == UpRelay!Spec /\ DownRelay!Spec

(* A packet whose last byte has arrived is relayed, even if its message    *)
(* never ends, unless the session ends first or its receiver stopped       *)
(* draining the socket; a failed notification about an earlier one, or a   *)
(* goroutine that waits for room in the channel, is no other exception.    *)
AllRelayed ==
  \A d \in Direction : \A k \in 1..(MaxBytes(d) \div PacketLen) :
     pass \in {"cert", "stream"} /\ Len(sent[d]) >= k * PacketLen ~>
        \/ Len(delivered[d]) >= k
        \/ pass \in {"disconnect", "closeOut", "closeIn", "done"}
        \/ stalled[Dest(d)]
=============================================================================
