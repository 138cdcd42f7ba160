------------------------------- MODULE HttpWS -------------------------------
(***************************************************************************)
(* One WebSocket session of the HTTP proxy: handleWebSocket authorizes the *)
(* client, calls Subscribe, dials the server, upgrades the client, starts  *)
(* one stream goroutine per direction, waits for both and unsubscribes.    *)
(* A goroutine that ends closes the socket it writes to, which is the one  *)
(* the other reads from: the end of one direction ends the other.          *)
(*                                                                         *)
(* The errors the goroutines return are only logged, and the context they  *)
(* cancel reaches nothing but the hooks, which may fail at any call here.  *)
(*                                                                         *)
(* Messages carry their number of arrival, a history that tells one that a *)
(* hook rewrote from another one. Topics are left out: each subscription   *)
(* hook gets a slice with a copy of the path, so that what it makes of the *)
(* topic is lost, and what AuthPublish and Publish make of theirs is read  *)
(* by nobody but these two.                                                *)
(***************************************************************************)
EXTENDS Naturals, Sequences

CONSTANTS
  Payload,        \* what a message may carry
  Stalling,       \* sides whose peer may stop draining its socket
  MaxMessages     \* bound: messages that arrive, both directions together

Direction == {"Up", "Down"}
Side == {"in", "out"}                 \* inConn: the client; targetConn: the server

ASSUME HttpWSAssumption ==
  /\ Stalling \subseteq Side
  /\ MaxMessages \in Nat

Source(d) == IF d = "Up" THEN "in" ELSE "out"
Dest(d)   == IF d = "Up" THEN "out" ELSE "in"

Message == [no : 1..MaxMessages, payload : Payload]
NoMessage == << >>

(* What a hook that is handed the payload by reference may make of it. *)
Rewritten(m) == [no : {m.no}, payload : Payload]

VARIABLES
  main,         \* where handleWebSocket is
  pc,           \* where each stream goroutine is
  msg,          \* the message each has in hand
  open,         \* mGate's end of each WebSocket
  hung,         \* has the peer of each closed or dropped the connection?
  stalled,      \* has the peer of each stopped draining it?
  sent,         \* all messages that arrived on the source of each direction
  nread,        \* how many of them ReadMessage has returned
  delivered,    \* all messages written to the destination of each direction
  published,    \* history: messages as the Publish hook left them
  unsubscribed  \* history: how many times Unsubscribe was called

peerVars == <<hung, stalled, sent>>
wireVars == <<open, delivered>>
hookVars == <<published, unsubscribed>>
goVars   == <<msg, nread>>
vars == <<main, pc, goVars, peerVars, wireVars, hookVars>>

MainPc == {"authConnect", "authSubscribe", "subscribe", "dial", "upgrade", "wait", "done"}
StreamPc == {"idle", "read", "hook", "publish", "write", "bye", "close", "done"}

TypeOK ==
  /\ main \in MainPc
  /\ pc \in [Direction -> StreamPc]
  /\ msg \in [Direction -> Message \cup {NoMessage}]
  /\ open \in [Side -> BOOLEAN] /\ hung \in [Side -> BOOLEAN]
  /\ stalled \in [Side -> BOOLEAN]
  /\ sent \in [Direction -> Seq(Message)] /\ nread \in [Direction -> Nat]
  /\ delivered \in [Direction -> Seq(Message)]
  /\ published \in Seq(Message)
  /\ unsubscribed \in Nat

Init ==
  /\ main = "authConnect"
  /\ pc = [d \in Direction |-> "idle"]
  /\ msg = [d \in Direction |-> NoMessage]
  /\ open = [s \in Side |-> FALSE]
  /\ hung = [s \in Side |-> FALSE]
  /\ stalled = [s \in Side |-> FALSE]
  /\ sent = [d \in Direction |-> << >>]
  /\ nread = [d \in Direction |-> 0]
  /\ delivered = [d \in Direction |-> << >>]
  /\ published = << >>
  /\ unsubscribed = 0

-----------------------------------------------------------------------------
(* The peers, once connected.                                              *)

Arrives(d) ==
  /\ open[Source(d)] /\ ~hung[Source(d)]
  /\ Len(sent["Up"]) + Len(sent["Down"]) < MaxMessages
  /\ \E p \in Payload :
        sent' = [sent EXCEPT ![d] = Append(@, [no |-> Len(@) + 1, payload |-> p])]
  /\ UNCHANGED <<main, pc, goVars, hung, stalled, wireVars, hookVars>>

HangUp(s) ==
  /\ open[s] /\ ~hung[s]
  /\ hung' = [hung EXCEPT ![s] = TRUE]
  /\ UNCHANGED <<main, pc, goVars, stalled, sent, wireVars, hookVars>>

Stall(s) ==
  /\ s \in Stalling /\ open[s] /\ ~stalled[s]
  /\ stalled' = [stalled EXCEPT ![s] = TRUE]
  /\ UNCHANGED <<main, pc, goVars, hung, sent, wireVars, hookVars>>

-----------------------------------------------------------------------------
(* handleWebSocket.                                                        *)

MainGoto(from, to) == main = from /\ main' = to

AuthConnect ==
  /\ MainGoto("authConnect", "authSubscribe")
  /\ UNCHANGED <<pc, goVars, peerVars, wireVars, hookVars>>

AuthSubscribeSession ==
  /\ MainGoto("authSubscribe", "subscribe")
  /\ UNCHANGED <<pc, goVars, peerVars, wireVars, hookVars>>

Subscribe ==
  /\ MainGoto("subscribe", "dial")
  /\ UNCHANGED <<pc, goVars, peerVars, wireVars, hookVars>>

(* A hook that fails is answered with an error, a dial with Bad Gateway.   *)
Rejected ==
  /\ main \in {"authConnect", "authSubscribe", "subscribe", "dial"}
  /\ main' = "done"
  /\ UNCHANGED <<pc, goVars, peerVars, wireVars, hookVars>>

Dial ==
  /\ MainGoto("dial", "upgrade")
  /\ open' = [open EXCEPT !["out"] = TRUE]
  /\ UNCHANGED <<pc, goVars, peerVars, delivered, hookVars>>

(* The deferred Close of targetConn runs, Unsubscribe does not. *)
UpgradeFails ==
  /\ MainGoto("upgrade", "done")
  /\ open' = [open EXCEPT !["out"] = FALSE]
  /\ UNCHANGED <<pc, goVars, peerVars, delivered, hookVars>>

Upgrade ==
  /\ MainGoto("upgrade", "wait")
  /\ open' = [open EXCEPT !["in"] = TRUE]
  /\ pc' = [d \in Direction |-> "read"]
  /\ UNCHANGED <<goVars, peerVars, delivered, hookVars>>

(* Mutated WaitAndUnsubscribe: one goroutine's end is enough.              *)
WaitForOne ==
  /\ MainGoto("wait", "done")
  /\ \E d \in Direction : pc[d] = "done"
  /\ open' = [s \in Side |-> FALSE]
  /\ unsubscribed' = unsubscribed + 1
  /\ UNCHANGED <<pc, goVars, peerVars, delivered, published>>

(* g.Wait, Unsubscribe, and the deferred closes. *)
WaitAndUnsubscribe ==
  /\ MainGoto("wait", "done")
  /\ \A d \in Direction : pc[d] = "done"
  /\ open' = [s \in Side |-> FALSE]
  /\ unsubscribed' = unsubscribed + 1
  /\ UNCHANGED <<pc, goVars, peerVars, delivered, published>>

-----------------------------------------------------------------------------
(* A stream goroutine, and what its function does when stream returns.     *)

Goto(d, from, to) == pc[d] = from /\ pc' = [pc EXCEPT ![d] = to]

ReadMessage(d) ==
  /\ Goto(d, "read", "hook")
  /\ open[Source(d)] /\ nread[d] < Len(sent[d])
  /\ msg' = [msg EXCEPT ![d] = sent[d][nread[d] + 1]]
  /\ nread' = [nread EXCEPT ![d] = @ + 1]
  /\ UNCHANGED <<main, peerVars, wireVars, hookVars>>

(* Mutated ReadFails: an error of the server is taken for an empty message.*)
ReadFailureIgnored(d) ==
  /\ Goto(d, "read", IF d = "Down" THEN "hook" ELSE "bye")
  /\ ~open[Source(d)] \/ hung[Source(d)]
  /\ UNCHANGED <<main, goVars, peerVars, wireVars, hookVars>>

(* A close frame, a lost connection, or the socket closed by the other     *)
(* goroutine; a lost connection may take unread messages with it.          *)
ReadFails(d) ==
  /\ Goto(d, "read", "bye")
  /\ ~open[Source(d)] \/ hung[Source(d)]
  /\ UNCHANGED <<main, goVars, peerVars, wireVars, hookVars>>

AuthPublish ==
  /\ Goto("Up", "hook", "publish")
  /\ \E m \in Rewritten(msg["Up"]) : msg' = [msg EXCEPT !["Up"] = m]
  /\ UNCHANGED <<main, nread, peerVars, wireVars, hookVars>>

(* Publish is called before the message is written, and keeps it if it     *)
(* agrees.                                                                 *)
Publish ==
  /\ Goto("Up", "publish", "write")
  /\ \E m \in Rewritten(msg["Up"]) :
        /\ msg' = [msg EXCEPT !["Up"] = m]
        /\ published' = Append(published, m)
  /\ UNCHANGED <<main, nread, peerVars, wireVars, unsubscribed>>

AuthSubscribe ==
  /\ Goto("Down", "hook", "write")
  /\ UNCHANGED <<main, goVars, peerVars, wireVars, hookVars>>

(* Mutated HookRefuses: the message is dropped and the stream goes on.     *)
RefusedSkipped(d) ==
  /\ Goto(d, "hook", "read") \/ Goto(d, "publish", "read")
  /\ UNCHANGED <<main, goVars, peerVars, wireVars, hookVars>>

HookRefuses(d) ==
  /\ Goto(d, "hook", "bye") \/ Goto(d, "publish", "bye")
  /\ UNCHANGED <<main, goVars, peerVars, wireVars, hookVars>>

Writable(s) == open[s] /\ ~stalled[s]
Broken(s)   == ~open[s] \/ hung[s]

WriteMessage(d) ==
  /\ Goto(d, "write", "read")
  /\ Writable(Dest(d))
  /\ delivered' = [delivered EXCEPT ![d] = Append(@, msg[d])]
  /\ UNCHANGED <<main, goVars, peerVars, open, hookVars>>

(* Mutated WriteFails: the error is ignored.                               *)
WriteFailureIgnored(d) ==
  /\ Goto(d, "write", "read")
  /\ Broken(Dest(d))
  /\ UNCHANGED <<main, goVars, peerVars, wireVars, hookVars>>

WriteFails(d) ==
  /\ Goto(d, "write", "bye")
  /\ Broken(Dest(d))
  /\ UNCHANGED <<main, goVars, peerVars, wireVars, hookVars>>

(* The close message; its error is ignored. *)
WriteClose(d) ==
  /\ Goto(d, "bye", "close")
  /\ Writable(Dest(d)) \/ Broken(Dest(d))
  /\ UNCHANGED <<main, goVars, peerVars, wireVars, hookVars>>

(* Mutated CloseDest: the goroutine closes the socket it reads from.       *)
CloseSource(d) ==
  /\ Goto(d, "close", "done")
  /\ open' = [open EXCEPT ![Source(d)] = FALSE]
  /\ UNCHANGED <<main, goVars, peerVars, delivered, hookVars>>

CloseDest(d) ==
  /\ Goto(d, "close", "done")
  /\ open' = [open EXCEPT ![Dest(d)] = FALSE]
  /\ UNCHANGED <<main, goVars, peerVars, delivered, hookVars>>

-----------------------------------------------------------------------------
HandleStep ==
  \/ AuthConnect \/ AuthSubscribeSession \/ Subscribe \/ Rejected
  \/ Dial \/ UpgradeFails \/ Upgrade \/ WaitAndUnsubscribe

StreamStep(d) ==
  \/ ReadMessage(d) \/ ReadFails(d) \/ HookRefuses(d)
  \/ WriteMessage(d) \/ WriteFails(d) \/ WriteClose(d) \/ CloseDest(d)
  \/ d = "Up" /\ (AuthPublish \/ Publish)
  \/ d = "Down" /\ AuthSubscribe

PeerStep ==
  \/ \E d \in Direction : Arrives(d)
  \/ \E s \in Side : HangUp(s) \/ Stall(s)

Next == HandleStep \/ PeerStep \/ \E d \in Direction : StreamStep(d)

Spec == Init /\ [][Next]_vars

(* Goroutines are scheduled, hooks, dials and upgrades return; the peers   *)
(* owe nothing.                                                            *)
FairSpec ==
  Spec /\ WF_vars(HandleStep) /\ \A d \in Direction : WF_vars(StreamStep(d))

-----------------------------------------------------------------------------
(* What a session promises.                                                *)

(* The server is handed exactly the messages the Publish hook has agreed   *)
(* to, in that order and as that hook left them; the last one may be       *)
(* missing, when its write is still to come or has failed.                 *)
PublishedIsDelivered ==
  LET n == Len(delivered["Up"])
  IN  /\ n <= Len(published) /\ Len(published) <= n + 1
      /\ delivered["Up"] = SubSeq(published, 1, n)

(* Publish, documented to run after a client has successfully published,   *)
(* is told of nothing that the server never gets. It is called before the  *)
(* write, which may fail: a session can end with one message too many      *)
(* announced.                                                              *)
PublishedReachesServer == main = "done" => Len(published) = Len(delivered["Up"])

(* When handleWebSocket has returned, neither goroutine runs, both sockets *)
(* are closed, and an upgraded session was unsubscribed exactly once, after *)
(* the last hook call of its goroutines.                                   *)
SessionCleanedUp ==
  main = "done" =>
     /\ \A d \in Direction : pc[d] \in {"idle", "done"}
     /\ \A s \in Side : ~open[s]
     /\ unsubscribed = IF pc["Up"] = "idle" THEN 0 ELSE 1

AnyPayload == [m \in Message |-> Rewritten(m)]
SameMessage == [m \in Message |-> {m}]
UpRelay == INSTANCE Relay WITH
  Packet <- Message, Allowed <- AnyPayload, MayRefuse <- FALSE,
  submitted <- sent["Up"], received <- delivered["Up"], farewell <- FALSE
DownRelay == INSTANCE Relay WITH
  Packet <- Message, Allowed <- SameMessage, MayRefuse <- FALSE,
  submitted <- sent["Down"], received <- delivered["Down"], farewell <- FALSE

(* Messages reach the server in order and without a gap, each with the     *)
(* payload the hooks gave it: a refused one is the last one.               *)
UpIsRelay == UpRelay!Spec

(* Messages reach the client in order, without a gap and unchanged.        *)
DownIsRelay == DownRelay!Spec

Peer(s) == IF s = "in" THEN "out" ELSE "in"

(* A peer that leaves takes the whole session with it, unless the other    *)
(* one has stopped draining its socket; so does a goroutine that ends for  *)
(* any other reason, a refusal of a hook say, unless a peer has stalled.   *)
OneEndEndsAll ==
  /\ \A s \in Side : hung[s] ~> (main = "done" \/ stalled[Peer(s)])
  /\ \A d \in Direction :
        pc[d] = "bye" ~> (main = "done" \/ \E s \in Side : stalled[s])
=============================================================================
