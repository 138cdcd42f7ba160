------------------------------- MODULE Stream -------------------------------
(***************************************************************************)
(* One MQTT client connection inside mGate: the goroutine of mqtt.handle   *)
(* (websocket.pass has the same shape), which dials the broker, fetches    *)
(* the client certificate, runs session.Stream and closes both sockets,    *)
(* and the two goroutines session.stream it starts, Up (client to broker)  *)
(* and Down (broker to client), which share the Session, the errs channel  *)
(* and the two sockets.                                                    *)
(*                                                                         *)
(* A packet is its kind and one value, body, for whatever the hooks may    *)
(* look at and change: the credentials of a CONNECT, the topic of the      *)
(* others.  The hooks of session.Handler and the two interceptors belong   *)
(* to the embedding program: each may refuse any call, and may rewrite     *)
(* what it is handed by reference; an interceptor may also return no       *)
(* packet and no error, which costs the whole process its life.            *)
(***************************************************************************)
EXTENDS Naturals, Sequences

CONSTANTS
  Body,              \* values of the part of a packet that hooks can see
  ClientPackets,     \* packets the client may send
  BrokerPackets,     \* packets the broker may send
  PreIc, PostIc,     \* what each interceptor returns, by direction; NilIc is nil
  ErrsCap,           \* capacity of the errs channel
  NotifyMayFail,     \* may Connect, Publish, Subscribe, Unsubscribe fail?
  Stalling,          \* sides whose peer may stop draining its socket
  MaxPackets         \* bound: packets that arrive, by direction

Direction == {"Up", "Down"}
Side == {"in", "out"}                 \* inbound: the client; outbound: the broker

Kind == {"CONNECT", "CONNACK", "PUBLISH", "SUBSCRIBE", "UNSUBSCRIBE",
         "OTHER", "MALFORMED"}
Packet == [kind : Kind, body : Body]
NilPacket == [kind |-> "nil"]         \* an interceptor may return it, with no error
MaybePacket == Packet \cup {NilPacket}
Interceptor == [Direction -> SUBSET (MaybePacket \X MaybePacket)]
NilIc == [d \in Direction |-> {}]

ASSUME StreamAssumption ==
  /\ ClientPackets \subseteq Packet
  /\ BrokerPackets \subseteq Packet
  /\ PreIc \in Interceptor
  /\ PostIc \in Interceptor
  /\ ErrsCap \in Nat \ {0}
  /\ NotifyMayFail \in BOOLEAN
  /\ Stalling \subseteq Side
  /\ MaxPackets \in [Direction -> Nat]

(* stream(ctx, Up, in, out, ...) and stream(ctx, Down, out, in, ...) *)
Source(d) == IF d = "Up" THEN "in" ELSE "out"
Dest(d)   == IF d = "Up" THEN "out" ELSE "in"

(* The packet as a hook may leave it. *)
Rebody(p, b) == [p EXCEPT !.body = b]

NoPacket    == [kind |-> "none"]
NoIdentity  == [is |-> "zero"]        \* the zero Session
Unapproved  == [is |-> "unapproved"]  \* what a CONNECT claims, wholly or half written
Identity(b) == [is |-> "identity", body |-> b]
Identities  == {NoIdentity, Unapproved} \cup {Identity(b) : b \in Body}

Hook == {"AuthConnect", "AuthPublish", "AuthSubscribe", "none"}
Vetted == [packet : MaybePacket, hook : Hook, as : Identities]

VARIABLES
  main,         \* where handle is
  pc,           \* where each stream goroutine is
  pkt,          \* the packet each stream goroutine has in hand
  errs,         \* how many errors the errs channel buffers
  session,      \* the Session shared through ctx by both goroutines
  open,         \* mGate's end of each socket
  hung,         \* has the peer of each socket hung up?
  stalled,      \* has the peer of each socket stopped draining it?
  sent,         \* all packets that arrived on the source socket of each direction
  nread,        \* how many of them ReadPacket has returned
  delivered,    \* all packets written to the destination socket of each direction
  farewell,     \* has the DISCONNECT of a refused PUBLISH been written to the client?
  vetted,       \* history: each direction's packets as authorization left them
  notified,     \* history: how many Up packets went through notify
  notifyErrs,   \* history: how many notifications failed
  accepted,     \* history: the identity AuthConnect accepted last
  disconnects   \* history: how many times Disconnect was called

handleVars  == <<main, disconnects>>
socketVars  == <<open, hung, stalled>>
wireVars    == <<delivered, farewell>>
notifyVars  == <<notified, notifyErrs>>
sessionVars == <<session, accepted>>
streamVars  == <<pc, pkt, nread, vetted>>
vars == <<handleVars, socketVars, wireVars, notifyVars, sessionVars, streamVars,
          errs, sent>>

(* Everything a stream goroutine does not keep to itself. *)
shared == <<handleVars, socketVars, wireVars, notifyVars, sessionVars, errs, sent>>

MainPc == {"dial", "cert", "stream", "disconnect", "closeOut", "closeIn", "done",
           "crashed"}
StreamPc == {"idle", "read", "pre", "auth", "connecting", "farewell", "post",
             "write", "notify", "reportNotify", "report", "done", "crashed"}

TypeOK ==
  /\ main \in MainPc
  /\ pc \in [Direction -> StreamPc]
  /\ pkt \in [Direction -> MaybePacket \cup {NoPacket}]
  /\ errs \in 0..ErrsCap
  /\ session \in Identities
  /\ open \in [Side -> BOOLEAN]
  /\ hung \in [Side -> BOOLEAN]
  /\ stalled \in [Side -> BOOLEAN]
  /\ sent \in [Direction -> Seq(Packet)]
  /\ nread \in [Direction -> Nat]
  /\ delivered \in [Direction -> Seq(Packet)]
  /\ farewell \in BOOLEAN
  /\ vetted \in [Direction -> Seq(Vetted)]
  /\ notified \in Nat
  /\ notifyErrs \in Nat
  /\ accepted \in Identities
  /\ disconnects \in Nat

Init ==
  /\ main = "dial"
  /\ pc = [d \in Direction |-> "idle"]
  /\ pkt = [d \in Direction |-> NoPacket]
  /\ errs = 0
  /\ session = NoIdentity
  /\ open = [s \in Side |-> s = "in"]
  /\ hung = [s \in Side |-> FALSE]
  /\ stalled = [s \in Side |-> FALSE]
  /\ sent = [d \in Direction |-> << >>]
  /\ nread = [d \in Direction |-> 0]
  /\ delivered = [d \in Direction |-> << >>]
  /\ farewell = FALSE
  /\ vetted = [d \in Direction |-> << >>]
  /\ notified = 0
  /\ notifyErrs = 0
  /\ accepted = NoIdentity
  /\ disconnects = 0

-----------------------------------------------------------------------------
(* The peers.                                                              *)

Arrives(d, p) ==
  /\ open[Source(d)] /\ ~hung[Source(d)]
  /\ Len(sent[d]) < MaxPackets[d]
  /\ sent' = [sent EXCEPT ![d] = Append(@, p)]
  /\ UNCHANGED <<handleVars, socketVars, wireVars, notifyVars, sessionVars,
                 streamVars, errs>>

ClientSends(p) == Arrives("Up", p)
BrokerSends(p) == Arrives("Down", p)

HangUp(s) ==
  /\ open[s] /\ ~hung[s]
  /\ hung' = [hung EXCEPT ![s] = TRUE]
  /\ UNCHANGED <<handleVars, open, stalled, wireVars, notifyVars, sessionVars,
                 streamVars, errs, sent>>

Stall(s) ==
  /\ s \in Stalling
  /\ open[s] /\ ~stalled[s]
  /\ stalled' = [stalled EXCEPT ![s] = TRUE]
  /\ UNCHANGED <<handleVars, open, hung, wireVars, notifyVars, sessionVars,
                 streamVars, errs, sent>>

-----------------------------------------------------------------------------
(* A stream goroutine.                                                     *)

Goto(d, from, to) == pc[d] = from /\ pc' = [pc EXCEPT ![d] = to]

Take(d, p) == pkt' = [pkt EXCEPT ![d] = p]

(* What an interceptor that does not fail may make of a packet. *)
Intercepted(ic, d, p) ==
  IF ic = NilIc THEN {p} ELSE {q \in MaybePacket : <<p, q>> \in ic[d]}

ReadPacket(d) ==
  /\ Goto(d, "read", "pre")
  /\ open[Source(d)]
  /\ nread[d] < Len(sent[d])
  /\ LET p == sent[d][nread[d] + 1]
     IN  p.kind # "MALFORMED" /\ Take(d, p)
  /\ nread' = [nread EXCEPT ![d] = @ + 1]
  /\ UNCHANGED <<shared, vetted>>

(* Mutated ReadFails: an end of file is no error and is not reported.      *)
ReadFailsSilently(d) ==
  /\ Goto(d, "read", IF hung[Source(d)] THEN "done" ELSE "report")
  /\ \/ ~open[Source(d)]
     \/ hung[Source(d)]
     \/ nread[d] < Len(sent[d]) /\ sent[d][nread[d] + 1].kind = "MALFORMED"
  /\ UNCHANGED <<shared, pkt, nread, vetted>>

(* A closed socket, a peer that hung up (a reset discards what it had sent), *)
(* or bytes that are no MQTT packet.                                         *)
ReadFails(d) ==
  /\ Goto(d, "read", "report")
  /\ \/ ~open[Source(d)]
     \/ hung[Source(d)]
     \/ nread[d] < Len(sent[d]) /\ sent[d][nread[d] + 1].kind = "MALFORMED"
  /\ UNCHANGED <<shared, pkt, nread, vetted>>

PreIntercept(d) ==
  /\ Goto(d, "pre", "auth")
  /\ \E q \in Intercepted(PreIc, d, pkt[d]) : Take(d, q)
  /\ UNCHANGED <<shared, nread, vetted>>

PostIntercept(d) ==
  /\ Goto(d, "post", "write")
  /\ \E q \in Intercepted(PostIc, d, pkt[d]) : Take(d, q)
  /\ UNCHANGED <<shared, nread, vetted>>

(* An error of an interceptor ends the session, not only the packet.       *)
InterceptFails(d) ==
  /\ \/ PreIc # NilIc /\ Goto(d, "pre", "report")
     \/ PostIc # NilIc /\ Goto(d, "post", "report")
  /\ UNCHANGED <<shared, pkt, nread, vetted>>

(* The packet passed authorization: the hook, if any, left it as p, while  *)
(* the session showed it the identity id.                                  *)
Vet(d, p, hook, id) ==
  vetted' = [vetted EXCEPT ![d] =
               Append(@, [packet |-> p, hook |-> hook, as |-> id])]

(* authorize writes the CONNECT's credentials into the shared Session ...  *)
StoreCredentials ==
  /\ Goto("Up", "auth", "connecting")
  /\ pkt["Up"].kind = "CONNECT"
  /\ session' = Unapproved
  /\ UNCHANGED <<handleVars, socketVars, wireVars, notifyVars, accepted,
                 pkt, nread, vetted, errs, sent>>

(* Mutated AuthConnect: the credentials are not copied back to the packet. *)
AuthConnectNoCopyBack ==
  /\ Goto("Up", "connecting", "post")
  /\ \E b \in Body :
        /\ session' = Identity(b)
        /\ accepted' = Identity(b)
        /\ Vet("Up", Rebody(pkt["Up"], b), "AuthConnect", Identity(b))
  /\ UNCHANGED <<handleVars, socketVars, wireVars, notifyVars, pkt, nread, errs, sent>>

(* Mutated AuthConnect: the handler works on a copy of the Session.        *)
AuthConnectOnCopy ==
  /\ Goto("Up", "connecting", "post")
  /\ \E b \in Body :
        LET p == Rebody(pkt["Up"], b)
        IN  /\ accepted' = Identity(b)
            /\ Take("Up", p)
            /\ Vet("Up", p, "AuthConnect", Identity(b))
  /\ UNCHANGED <<handleVars, socketVars, wireVars, notifyVars, session, nread,
                 errs, sent>>

(* ... where the handler may change them before they are copied back.      *)
AuthConnect ==
  /\ Goto("Up", "connecting", "post")
  /\ \E b \in Body :
        LET p == Rebody(pkt["Up"], b)
        IN  /\ session' = Identity(b)
            /\ accepted' = Identity(b)
            /\ Take("Up", p)
            /\ Vet("Up", p, "AuthConnect", Identity(b))
  /\ UNCHANGED <<handleVars, socketVars, wireVars, notifyVars, nread, errs, sent>>

AuthTopic(kind, hook) ==
  /\ Goto("Up", "auth", "post")
  /\ pkt["Up"].kind = kind
  /\ \E b \in Body :
        LET p == Rebody(pkt["Up"], b)
        IN  Take("Up", p) /\ Vet("Up", p, hook, session)
  /\ UNCHANGED <<shared, nread>>

AuthPublish   == AuthTopic("PUBLISH", "AuthPublish")
AuthSubscribe == AuthTopic("SUBSCRIBE", "AuthSubscribe")

(* Mutated UpRefused: a refused packet is dropped and Up goes on.          *)
UpRefusedGoesOn ==
  /\ \/ Goto("Up", "connecting", "read")
     \/ Goto("Up", "auth", "read") /\ pkt["Up"].kind \in {"PUBLISH", "SUBSCRIBE"}
  /\ UNCHANGED <<shared, pkt, nread, vetted>>

UpRefused ==
  /\ \/ Goto("Up", "connecting", "report")
     \/ Goto("Up", "auth", "report") /\ pkt["Up"].kind \in {"PUBLISH", "SUBSCRIBE"}
  /\ UNCHANGED <<shared, pkt, nread, vetted>>

(* The topic handed to AuthSubscribe is a copy: the packet stays as it is. *)
AuthDelivery ==
  /\ Goto("Down", "auth", "post")
  /\ pkt["Down"].kind = "PUBLISH"
  /\ \E b \in Body :
        Vet("Down", Rebody(pkt["Down"], b), "AuthSubscribe", session)
  /\ UNCHANGED <<shared, pkt, nread>>

(* Mutated DeliveryRefused: the PUBLISH is dropped and Down goes on.       *)
DeliveryDropped ==
  /\ Goto("Down", "auth", "read")
  /\ pkt["Down"].kind = "PUBLISH"
  /\ UNCHANGED <<shared, pkt, nread, vetted>>


DeliveryRefused ==
  /\ Goto("Down", "auth", "farewell")
  /\ pkt["Down"].kind = "PUBLISH"
  /\ UNCHANGED <<shared, pkt, nread, vetted>>

PassThrough(d) ==
  /\ Goto(d, "auth", "post")
  /\ pkt[d].kind \notin
       IF d = "Up" THEN {"CONNECT", "PUBLISH", "SUBSCRIBE"} ELSE {"PUBLISH"}
  /\ Vet(d, pkt[d], "none", session)
  /\ UNCHANGED <<shared, pkt, nread>>

Writable(s) == open[s] /\ ~stalled[s]
Broken(s)   == ~open[s] \/ hung[s]

WriteFarewell ==
  /\ Goto("Down", "farewell", "report")
  /\ \/ Writable("in") /\ farewell' = TRUE
     \/ Broken("in") /\ farewell' = farewell
  /\ UNCHANGED <<handleVars, socketVars, delivered, notifyVars, sessionVars,
                 pkt, nread, vetted, errs, sent>>

WritePacket(d) ==
  /\ Goto(d, "write", IF d = "Up" THEN "notify" ELSE "read")
  /\ pkt[d] # NilPacket
  /\ Writable(Dest(d))
  /\ delivered' = [delivered EXCEPT ![d] = Append(@, pkt[d])]
  /\ UNCHANGED <<handleVars, socketVars, farewell, notifyVars, sessionVars,
                 pkt, nread, vetted, errs, sent>>

(* Mutated WriteFails: the error of an upward write is ignored.            *)
WriteErrorIgnored(d) ==
  /\ Goto(d, "write", IF d = "Up" THEN "notify" ELSE "report")
  /\ pkt[d] # NilPacket
  /\ Broken(Dest(d))
  /\ UNCHANGED <<shared, pkt, nread, vetted>>

WriteFails(d) ==
  /\ Goto(d, "write", "report")
  /\ pkt[d] # NilPacket
  /\ Broken(Dest(d))
  /\ UNCHANGED <<shared, pkt, nread, vetted>>

(* The call of Write on a nil packet panics, and nothing recovers: the     *)
(* process ends, and its sockets and goroutines with it.                   *)
WriteNil(d) ==
  /\ pc[d] = "write"
  /\ pkt[d] = NilPacket
  /\ main' = "crashed"
  /\ pc' = [e \in Direction |-> "crashed"]
  /\ open' = [s \in Side |-> FALSE]
  /\ UNCHANGED <<disconnects, hung, stalled, wireVars, notifyVars, sessionVars,
                 pkt, nread, vetted, errs, sent>>

Notify ==
  /\ Goto("Up", "notify", "read")
  /\ notified' = notified + 1
  /\ UNCHANGED <<handleVars, socketVars, wireVars, notifyErrs, sessionVars,
                 pkt, nread, vetted, errs, sent>>

NotifyFails ==
  /\ NotifyMayFail
  /\ pkt["Up"].kind \in {"CONNECT", "PUBLISH", "SUBSCRIBE", "UNSUBSCRIBE"}
  /\ Goto("Up", "notify", "reportNotify")
  /\ notified' = notified + 1
  /\ notifyErrs' = notifyErrs + 1
  /\ UNCHANGED <<handleVars, socketVars, wireVars, sessionVars,
                 pkt, nread, vetted, errs, sent>>

(* Mutated Send: the return after a reported error is forgotten.           *)
SendAndGoOn(d) ==
  /\ Goto(d, "report", "read") \/ Goto(d, "reportNotify", "read")
  /\ errs < ErrsCap
  /\ errs' = errs + 1
  /\ UNCHANGED <<handleVars, socketVars, wireVars, notifyVars, sessionVars,
                 pkt, nread, vetted, sent>>

(* errs <- err blocks while the buffer is full.  Only after a failed notify  *)
(* does the goroutine go on.                                                 *)
Send(d) ==
  /\ \/ Goto(d, "report", "done")
     \/ Goto(d, "reportNotify", "read")
  /\ errs < ErrsCap
  /\ errs' = errs + 1
  /\ UNCHANGED <<handleVars, socketVars, wireVars, notifyVars, sessionVars,
                 pkt, nread, vetted, sent>>

-----------------------------------------------------------------------------
(* The goroutine of handle.                                                *)

MainGoto(from, to) == main = from /\ main' = to

Dial ==
  /\ \/ MainGoto("dial", "cert") /\ open' = [open EXCEPT !["out"] = TRUE]
     \/ MainGoto("dial", "closeIn") /\ open' = open
  /\ UNCHANGED <<disconnects, hung, stalled, wireVars, notifyVars, sessionVars,
                 streamVars, errs, sent>>

ClientCert ==
  /\ \/ MainGoto("cert", "stream") /\ pc' = [d \in Direction |-> "read"]
     \/ MainGoto("cert", "closeOut") /\ pc' = pc
  /\ UNCHANGED <<disconnects, socketVars, wireVars, notifyVars, sessionVars,
                 pkt, nread, vetted, errs, sent>>

(* Mutated AwaitError: Stream takes an error that is not there.            *)
AwaitNothing ==
  /\ MainGoto("stream", "disconnect")
  /\ errs' = errs - 1
  /\ UNCHANGED <<disconnects, socketVars, wireVars, notifyVars, sessionVars,
                 streamVars, sent>>

AwaitError ==
  /\ MainGoto("stream", "disconnect")
  /\ errs > 0
  /\ errs' = errs - 1
  /\ UNCHANGED <<disconnects, socketVars, wireVars, notifyVars, sessionVars,
                 streamVars, sent>>

Disconnect ==
  /\ MainGoto("disconnect", "closeOut")
  /\ disconnects' = disconnects + 1
  /\ UNCHANGED <<socketVars, wireVars, notifyVars, sessionVars, streamVars,
                 errs, sent>>

CloseOut ==
  /\ MainGoto("closeOut", "closeIn")
  /\ open' = [open EXCEPT !["out"] = FALSE]
  /\ UNCHANGED <<disconnects, hung, stalled, wireVars, notifyVars, sessionVars,
                 streamVars, errs, sent>>

(* Mutated CloseIn: handle returns without closing the client's socket.    *)
CloseInForgotten ==
  /\ MainGoto("closeIn", "done")
  /\ UNCHANGED <<disconnects, socketVars, wireVars, notifyVars, sessionVars,
                 streamVars, errs, sent>>


CloseIn ==
  /\ MainGoto("closeIn", "done")
  /\ open' = [open EXCEPT !["in"] = FALSE]
  /\ UNCHANGED <<disconnects, hung, stalled, wireVars, notifyVars, sessionVars,
                 streamVars, errs, sent>>

-----------------------------------------------------------------------------
HandleStep == Dial \/ ClientCert \/ AwaitError \/ Disconnect \/ CloseOut \/ CloseIn

UpStep == StoreCredentials \/ AuthConnect \/ AuthPublish \/ AuthSubscribe
          \/ UpRefused \/ Notify \/ NotifyFails
DownStep == AuthDelivery \/ DeliveryRefused \/ WriteFarewell

StreamStep(d) ==
  \/ ReadPacket(d) \/ ReadFails(d)
  \/ PreIntercept(d) \/ PostIntercept(d) \/ InterceptFails(d)
  \/ PassThrough(d)
  \/ WritePacket(d) \/ WriteFails(d) \/ WriteNil(d)
  \/ Send(d)
  \/ d = "Up" /\ UpStep
  \/ d = "Down" /\ DownStep

PeerStep ==
  \/ \E p \in ClientPackets : ClientSends(p)
  \/ \E p \in BrokerPackets : BrokerSends(p)
  \/ \E s \in Side : HangUp(s) \/ Stall(s)

Next == HandleStep \/ PeerStep \/ \E d \in Direction : StreamStep(d)

Spec == Init /\ [][Next]_vars

(* Every goroutine that can run is eventually scheduled, every hook call   *)
(* returns, and so does a dial or a TLS handshake; the peers owe nothing.  *)
FairSpec ==
  /\ Spec
  /\ WF_vars(HandleStep)
  /\ \A d \in Direction : WF_vars(StreamStep(d))

-----------------------------------------------------------------------------
(* What a session promises.                                                *)

(* Which hook has to approve a packet before it may be relayed; a PUBLISH  *)
(* on its way to the client is a delivery on one of its subscriptions.     *)
Rule(d, kind) ==
  CASE kind = "CONNECT" /\ d = "Up"   -> "AuthConnect"
    [] kind = "PUBLISH" /\ d = "Up"   -> "AuthPublish"
    [] kind = "SUBSCRIBE" /\ d = "Up" -> "AuthSubscribe"
    [] kind = "PUBLISH" /\ d = "Down" -> "AuthSubscribe"
    [] OTHER -> "none"

(* The packets v may be forwarded as, before the second interceptor: what  *)
(* the hook made of it; the client, though, gets the packet as the broker  *)
(* sent it, whatever the hook made of its copy of the topic.               *)
Approved(d, v) ==
  IF d = "Up" \/ v.hook = "none"
  THEN {v.packet}
  ELSE {Rebody(v.packet, b) : b \in Body}

(* Nothing reaches the broker or the client unless the hook in charge of   *)
(* that kind of packet, in that direction, approved it, and it is relayed  *)
(* as approved: stream and authorize never write what they did not vet.    *)
VettedBeforeDelivered ==
  \A d \in Direction : \A i \in 1..Len(delivered[d]) :
     /\ i <= Len(vetted[d])
     /\ vetted[d][i].hook = Rule(d, vetted[d][i].packet.kind)
     /\ \E q \in Approved(d, vetted[d][i]) :
           delivered[d][i] \in Intercepted(PostIc, d, q)

(* The after-the-fact hooks of notify lag the broker's socket by at most   *)
(* the packet in hand: never is one called for a packet whose write failed.*)
NotifiedAfterDelivery ==
  /\ notified <= Len(delivered["Up"])
  /\ Len(delivered["Up"]) <= notified + 1
  /\ pc["Up"] = "notify" => Len(delivered["Up"]) = notified + 1
  /\ Len(delivered["Up"]) = notified + 1 => pc["Up"] = "notify" \/ main = "crashed"

(* Errors on the channel nobody will receive: Stream takes only the first. *)
StreamReturned == main \in {"disconnect", "closeOut", "closeIn", "done"}
BlockedForever(d) ==
  /\ StreamReturned
  /\ errs = ErrsCap
  /\ pc[d] \in {"report", "reportNotify"}

(* A stream goroutine is stuck on the errs channel for good only when the  *)
(* notification hooks failed as often as the channel has room: every other *)
(* error ends its goroutine, so it cannot fill the channel.                *)
BlockedOnlyByNotifyErrors ==
  \A d \in Direction : BlockedForever(d) => notifyErrs >= ErrsCap

(* Up overwrites the Session that both goroutines share without a lock, so *)
(* a hook may be shown credentials that AuthConnect has not accepted, but  *)
(* only a hook of Down, and only from the moment Up stored those of a      *)
(* CONNECT until AuthConnect accepts them, or for good if it refuses: then *)
(* Up ends.  Every other call sees the identity accepted last.             *)
AcceptedUnlessConnecting ==
  [][\A d \in Direction :
        /\ vetted'[d] # vetted[d]
        /\ vetted'[d][Len(vetted'[d])].as # accepted'
        => /\ d = "Down"
           /\ pkt["Up"].kind = "CONNECT"
           /\ pc["Up"] \in {"connecting", "report", "done"}]_vars

(* Each direction is a relay that skips, repeats and reorders nothing, and *)
(* says farewell to the client once, as the last thing it hears.           *)
Hooked(q) == IF q = NilPacket THEN {q} ELSE {Rebody(q, b) : b \in Body}
Rewritten(d, p) ==
  UNION {Intercepted(PostIc, d, h) :
           h \in UNION {Hooked(q) : q \in Intercepted(PreIc, d, p)}}
Rewritings(d) == [p \in Packet |-> Rewritten(d, p)]

UpRelay == INSTANCE Relay WITH
  Allowed <- Rewritings("Up"), MayRefuse <- FALSE,
  submitted <- sent["Up"], received <- delivered["Up"], farewell <- FALSE
DownRelay == INSTANCE Relay WITH
  Allowed <- Rewritings("Down"), MayRefuse <- TRUE,
  submitted <- sent["Down"], received <- delivered["Down"]

(* What the broker receives is what the client sent, in order, without a   *)
(* gap, each packet rewritten only by the interceptors and the hooks.      *)
UpIsRelay == UpRelay!Spec

(* The same towards the client; a refused PUBLISH is not skipped, it ends  *)
(* the direction with a DISCONNECT.                                        *)
DownIsRelay == DownRelay!Spec

Peer(s) == IF s = "in" THEN "out" ELSE "in"

(* Once a peer hangs up, handle closes both sockets and returns, having    *)
(* called Disconnect exactly once if Stream was started, unless the other  *)
(* peer has stopped draining its socket: no write has a deadline, or the   *)
(* write of a nil packet took the process down.                            *)
HangUpEndsSession ==
  \A s \in Side :
     hung[s] ~> \/ main = "done" /\ disconnects = (IF pc["Up"] = "idle" THEN 0 ELSE 1)
                \/ main = "crashed"
                \/ stalled[Peer(s)]

(* When no notification fails, both goroutines end after handle returned,  *)
(* even one that was blocked writing to a peer that does not drain.        *)
NoGoroutineLeft ==
  main = "done" ~> \A d \in Direction : pc[d] \in {"idle", "done"}

(* stream.go:43: "The other routine won't be blocked when writing to the   *)
(* errors channel because it is buffered."                                 *)
ErrsNeverBlock == \A d \in Direction : ~BlockedForever(d)

(* interceptor.go:16-17: "If the interceptor returns a non-nil packet, the *)
(* modified packet is sent.  The error indicates unsuccessful interception *)
(* and mGate is cancelling the packet."  So a goroutine that asked an      *)
(* interceptor passes the packet on or drops it, and lives.                *)
CancelsOnlyThePacket ==
  [][\A d \in Direction :
        pc[d] \in {"pre", "post", "write"} /\ pc'[d] # pc[d] =>
           /\ pc'[d] # "crashed"
           /\ pc[d] # "write" => pc'[d] # "report"]_vars
=============================================================================
