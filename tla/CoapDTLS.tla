------------------------------ MODULE CoapDTLS ------------------------------
(***************************************************************************)
(* One DTLS session of the CoAP proxy: handleDTLS dials the server and     *)
(* waits for two goroutines, dtlsUp, which runs the hooks and forwards the *)
(* device's datagrams, and dtlsDown, which relays the server's until the   *)
(* server is silent for a minute.  Neither tells the other that it ended,  *)
(* and the sockets are closed only after both did: what makes one of them  *)
(* end must sooner or later make the other end as well.                    *)
(*                                                                         *)
(* The device's side is a DTLS connection, which reports that the device   *)
(* closed it; the server's side is a UDP socket, which reports silence.    *)
(***************************************************************************)
EXTENDS CoapMessage

CONSTANTS
  MaxDatagrams,   \* bound: datagrams the device sends
  MaxReplies      \* bound: datagrams the server sends

VARIABLES
  main,         \* where handleDTLS is
  up, down,     \* where dtlsUp and dtlsDown are
  msg,          \* the kind of datagram in dtlsUp's buffer
  handling,     \* what handleCoAPMessage made of it
  inbound,      \* mGate's end of the DTLS connection
  outbound,     \* mGate's socket to the server
  gone,         \* has the device closed the connection?
  waiting,      \* datagrams of the server waiting in outbound
  nread,        \* how many datagrams dtlsUp has read
  nreplies,     \* how many datagrams the server has sent
  forwarded,    \* history: how many datagrams were forwarded
  approved,     \* history: how many datagrams the hooks let pass
  relayed,      \* history: how many datagrams were relayed to the device
  refused       \* history: was a datagram of the device refused?

upVars   == <<up, msg, handling, nread, forwarded, approved, refused>>
downVars == <<down, relayed>>
sockVars == <<inbound, outbound, gone>>
netVars  == <<waiting, nreplies>>
vars == <<main, upVars, downVars, sockVars, netVars>>

Reading == {"deadline", "wait", "relay"}

TypeOK ==
  /\ main \in {"dial", "wait", "done"}
  /\ up \in {"idle", "read", "handle", "answer", "forward", "done"}
  /\ down \in {"idle", "done"} \cup Reading
  /\ msg \in CoapKind
  /\ handling \in Handling
  /\ inbound \in {"open", "closed"} /\ outbound \in {"none", "open", "closed"}
  /\ gone \in BOOLEAN /\ refused \in BOOLEAN
  /\ waiting \in Nat /\ nread \in Nat /\ nreplies \in Nat
  /\ forwarded \in Nat /\ approved \in Nat /\ relayed \in Nat

Init ==
  /\ main = "dial" /\ up = "idle" /\ down = "idle"
  /\ msg = "OTHER" /\ handling = Unhandled
  /\ inbound = "open" /\ outbound = "none" /\ gone = FALSE
  /\ waiting = 0 /\ nread = 0 /\ nreplies = 0
  /\ forwarded = 0 /\ approved = 0 /\ relayed = 0 /\ refused = FALSE

-----------------------------------------------------------------------------
(* handleDTLS                                                              *)

Dial ==
  /\ main = "dial" /\ main' = "wait"
  /\ outbound' = "open"
  /\ up' = "read" /\ down' = "deadline"
  /\ UNCHANGED <<msg, handling, nread, forwarded, approved, refused, relayed,
                 inbound, gone, netVars>>

DialFails ==
  /\ main = "dial" /\ main' = "done"
  /\ inbound' = "closed"
  /\ UNCHANGED <<upVars, downVars, outbound, gone, netVars>>

(* Mutated CloseBoth: the end of dtlsUp is enough, dtlsDown runs on.       *)
CloseAfterUp ==
  /\ main = "wait" /\ main' = "done"
  /\ up = "done"
  /\ inbound' = "closed" /\ outbound' = "closed"
  /\ UNCHANGED <<upVars, downVars, gone, netVars>>

(* g.Wait, then the deferred closes. *)
CloseBoth ==
  /\ main = "wait" /\ main' = "done"
  /\ up = "done" /\ down = "done"
  /\ inbound' = "closed" /\ outbound' = "closed"
  /\ UNCHANGED <<upVars, downVars, gone, netVars>>

-----------------------------------------------------------------------------
(* dtlsUp                                                                  *)

UpGoto(from, to) == up = from /\ up' = to

ReadDatagram ==
  /\ UpGoto("read", "handle")
  /\ ~gone /\ nread < MaxDatagrams
  /\ nread' = nread + 1
  /\ msg' \in CoapKind
  /\ UNCHANGED <<main, handling, forwarded, approved, refused, downVars, sockVars,
                 netVars>>

(* The device closed the connection, or any other error. *)
ReadFails ==
  /\ UpGoto("read", "done")
  /\ UNCHANGED <<main, msg, handling, nread, forwarded, approved, refused, downVars,
                 sockVars, netVars>>

HandleCoAPMessage ==
  /\ up = "handle"
  /\ handling' \in Handlings(msg)
  /\ up' = IF handling'.ok THEN "forward" ELSE "answer"
  /\ approved' = approved + (IF handling'.ok THEN 1 ELSE 0)
  /\ UNCHANGED <<main, msg, nread, forwarded, refused, downVars, sockVars, netVars>>

(* Mutated AnswerError: dtlsUp goes on reading, as its UDP sibling does.   *)
AnswerAndGoOn ==
  /\ UpGoto("answer", "read")
  /\ refused' = TRUE
  /\ UNCHANGED <<main, msg, handling, nread, forwarded, approved, downVars, sockVars,
                 netVars>>

(* The error response is written to the device, if it can, and dtlsUp ends. *)
AnswerError ==
  /\ UpGoto("answer", "done")
  /\ refused' = TRUE
  /\ UNCHANGED <<main, msg, handling, nread, forwarded, approved, downVars, sockVars,
                 netVars>>

ForwardUp ==
  /\ UpGoto("forward", "read")
  /\ outbound = "open"
  /\ forwarded' = forwarded + 1
  /\ UNCHANGED <<main, msg, handling, nread, approved, refused, downVars, sockVars,
                 netVars>>

ForwardFails ==
  /\ UpGoto("forward", "done")
  /\ UNCHANGED <<main, msg, handling, nread, forwarded, approved, refused, downVars,
                 sockVars, netVars>>

-----------------------------------------------------------------------------
(* dtlsDown                                                                *)

DownGoto(from, to) == down = from /\ down' = to

SetReadDeadline ==
  /\ DownGoto("deadline", IF outbound = "open" THEN "wait" ELSE "done")
  /\ UNCHANGED <<main, upVars, relayed, sockVars, netVars>>

(* Mutated ReadReply: a read that timed out is taken for a datagram.       *)
ReadNothing ==
  /\ DownGoto("wait", "relay")
  /\ waiting' = waiting - 1
  /\ UNCHANGED <<main, upVars, relayed, sockVars, nreplies>>

ReadReply ==
  /\ DownGoto("wait", "relay")
  /\ outbound = "open" /\ waiting > 0
  /\ waiting' = waiting - 1
  /\ UNCHANGED <<main, upVars, relayed, sockVars, nreplies>>

(* Mutated ReadReplyFails: the read has no deadline.                       *)
ReadWaitsForEver ==
  /\ DownGoto("wait", "done")
  /\ outbound = "closed" \/ forwarded > 0
  /\ UNCHANGED <<main, upVars, relayed, sockVars, netVars>>

(* A minute of silence, or the server's host refused a datagram.           *)
ReadReplyFails ==
  /\ DownGoto("wait", "done")
  /\ waiting = 0 \/ forwarded > 0
  /\ UNCHANGED <<main, upVars, relayed, sockVars, netVars>>

WriteToDevice ==
  /\ DownGoto("relay", "deadline")
  /\ inbound = "open" /\ ~gone
  /\ relayed' = relayed + 1
  /\ UNCHANGED <<main, upVars, sockVars, netVars>>

WriteToDeviceFails ==
  /\ DownGoto("relay", "done")
  /\ UNCHANGED <<main, upVars, relayed, sockVars, netVars>>

-----------------------------------------------------------------------------
(* The device and the server.                                              *)

DeviceCloses ==
  /\ inbound = "open" /\ ~gone
  /\ gone' = TRUE
  /\ UNCHANGED <<main, upVars, downVars, inbound, outbound, netVars>>

ServerReplies ==
  /\ outbound = "open" /\ forwarded > 0
  /\ nreplies < MaxReplies
  /\ nreplies' = nreplies + 1 /\ waiting' = waiting + 1
  /\ UNCHANGED <<main, upVars, downVars, sockVars>>

-----------------------------------------------------------------------------
HandleStep == Dial \/ DialFails \/ CloseBoth
UpStep == ReadDatagram \/ ReadFails \/ HandleCoAPMessage \/ AnswerError
          \/ ForwardUp \/ ForwardFails
DownStep == SetReadDeadline \/ ReadReply \/ ReadReplyFails \/ WriteToDevice
            \/ WriteToDeviceFails

Next == HandleStep \/ UpStep \/ DownStep \/ DeviceCloses \/ ServerReplies

Spec == Init /\ [][Next]_vars

(* What has to run: the goroutines are scheduled, hooks return, and the    *)
(* read deadline makes dtlsDown stop waiting.  Neither peer owes a         *)
(* datagram: dtlsUp reads until the device sends one or leaves.            *)
UpRuns == UpStep /\ (up = "read" => gone)

FairSpec ==
  Spec /\ WF_vars(HandleStep) /\ WF_vars(UpRuns) /\ WF_vars(DownStep)

-----------------------------------------------------------------------------
(* What a session promises.                                                *)

(* A session forwards all that its hooks approve until its first refusal   *)
(* or failure, and nothing after it: at most one approved datagram, the    *)
(* last one, is not forwarded, and after a refusal none is.                *)
ForwardedUntilRefused ==
  /\ forwarded <= approved /\ approved <= forwarded + 1
  /\ approved = forwarded + 1 => up \in {"forward", "done"}
  /\ refused => up = "done" /\ approved = forwarded

(* dtlsDown never outlives its session: it uses the sockets only while     *)
(* handleDTLS keeps them open.                                             *)
SocketsOutliveGoroutines ==
  /\ main = "done" => inbound = "closed" /\ outbound # "open"
  /\ up \in {"read", "handle", "answer", "forward"} \/ down \in Reading
        => inbound = "open" /\ outbound = "open"

(* When the device closes its connection, or dtlsUp ended with a refusal   *)
(* or an error, the session ends and both sockets are closed, once the     *)
(* server falls silent (it sends finitely many datagrams), although        *)
(* dtlsDown is told of neither.                                            *)
SessionEnds ==
  gone \/ up = "done" ~> main = "done" /\ inbound = "closed" /\ outbound # "open"

(* While the session is up, the server's datagrams find dtlsDown reading.  *)
ResponsesRead ==
  waiting > 0 /\ ~gone /\ up \in {"read", "handle", "forward"} => down \in Reading
=============================================================================
