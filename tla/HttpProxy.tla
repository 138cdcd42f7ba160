----------------------------- MODULE HttpProxy ------------------------------
(***************************************************************************)
(* One request to the HTTP proxy. ServeHTTP sends it to the server as it   *)
(* is when its path is bypassed, hands it to the WebSocket session of      *)
(* HttpWS when it asks for an upgrade, and else reads its body, asks the   *)
(* hooks AuthConnect, AuthPublish and Publish, and forwards it.            *)
(*                                                                         *)
(* The forwarded body reads the bytes of the payload the hooks are handed: *)
(* what a hook edits in place is forwarded, while a payload assigned anew  *)
(* through its pointer reaches nobody but the next hook, and is left out.  *)
(* So is RequestURI, which hooks may change too and nobody reads later.    *)
(***************************************************************************)
EXTENDS HttpWS

VARIABLES
  serve,      \* where ServeHTTP is
  request,    \* what the client asked for
  body,       \* what r.Body will yield
  approved,   \* history: the hooks that agreed, in order
  forwarded,  \* history: the bodies handed to the reverse proxy
  answers     \* history: how the client was answered

historyVars == <<approved, forwarded, answers>>
serveVars == <<serve, request, body, historyVars>>

ServePc == {"route", "read", "close", "AuthConnect", "AuthPublish", "Publish",
            "forward", "ws", "done"}
NoBody == << >>                       \* what a drained body yields

ASSUME HttpProxyAssumption == NoBody \notin Payload

Request == [prefixed : BOOLEAN, bypassed : BOOLEAN, websocket : BOOLEAN, body : Payload]

ServeTypeOK ==
  /\ TypeOK
  /\ serve \in ServePc
  /\ request \in Request
  /\ body \in Payload \cup {NoBody}
  /\ approved \in Seq({"AuthConnect", "AuthPublish", "Publish"})
  /\ forwarded \in Seq(Payload \cup {NoBody})
  /\ answers \in Seq({"error", "badGateway", "response", "upgraded"})

ServeInit ==
  /\ Init
  /\ serve = "route"
  /\ request \in Request
  /\ body = request.body
  /\ approved = << >> /\ forwarded = << >> /\ answers = << >>

-----------------------------------------------------------------------------
ServeGoto(from, to) == serve = from /\ serve' = to

Answer(a) == answers' = Append(answers, a)

(* The path is matched as it came; the prefix is stripped before the       *)
(* bypass list sees it, and the bypass list comes before everything else.  *)
NotFound ==
  /\ ServeGoto("route", "done")
  /\ ~request.prefixed
  /\ Answer("error")
  /\ UNCHANGED <<request, body, approved, forwarded>>

Bypass ==
  /\ ServeGoto("route", "forward")
  /\ request.prefixed /\ request.bypassed
  /\ UNCHANGED <<request, body, historyVars>>

RouteWebSocket ==
  /\ ServeGoto("route", "ws")
  /\ request.prefixed /\ ~request.bypassed /\ request.websocket
  /\ UNCHANGED <<request, body, historyVars>>

RouteRequest ==
  /\ ServeGoto("route", "read")
  /\ request.prefixed /\ ~request.bypassed /\ ~request.websocket
  /\ UNCHANGED <<request, body, historyVars>>

(* io.ReadAll drains the body. *)
ReadBody ==
  /\ ServeGoto("read", "close")
  /\ body' = NoBody
  /\ UNCHANGED <<request, historyVars>>

BodyFails ==
  /\ ServeGoto("read", "done") \/ ServeGoto("close", "done")
  /\ Answer("error")
  /\ UNCHANGED <<request, body, approved, forwarded>>

(* The new body yields again what was read from the first. *)
CloseBody ==
  /\ ServeGoto("close", "AuthConnect")
  /\ body' = request.body
  /\ UNCHANGED <<request, historyVars>>

AuthConnectRequest ==
  /\ ServeGoto("AuthConnect", "AuthPublish")
  /\ approved' = Append(approved, "AuthConnect")
  /\ UNCHANGED <<request, body, forwarded, answers>>

(* A hook may edit the bytes of the payload in place. *)
HookEdits == \E p \in Payload : body' = p

AuthPublishRequest ==
  /\ ServeGoto("AuthPublish", "Publish")
  /\ HookEdits
  /\ approved' = Append(approved, "AuthPublish")
  /\ UNCHANGED <<request, forwarded, answers>>

PublishRequest ==
  /\ ServeGoto("Publish", "forward")
  /\ HookEdits
  /\ approved' = Append(approved, "Publish")
  /\ UNCHANGED <<request, forwarded, answers>>

(* Mutated HookFails: no return after encodeError.                         *)
HookFailsAndGoesOn ==
  /\ \/ ServeGoto("AuthConnect", "AuthPublish") \/ ServeGoto("AuthPublish", "Publish")
     \/ ServeGoto("Publish", "forward")
  /\ Answer("error")
  /\ UNCHANGED <<request, body, approved, forwarded>>

(* Mutated HookFails: the error is only logged.                            *)
HookErrorLogged ==
  /\ \/ ServeGoto("AuthConnect", "AuthPublish") \/ ServeGoto("AuthPublish", "Publish")
     \/ ServeGoto("Publish", "forward")
  /\ UNCHANGED <<request, body, historyVars>>

HookFails ==
  /\ \/ ServeGoto("AuthConnect", "done") \/ ServeGoto("AuthPublish", "done")
     \/ ServeGoto("Publish", "done")
  /\ Answer("error")
  /\ UNCHANGED <<request, body, approved, forwarded>>

(* The reverse proxy answers for the server, or with Bad Gateway.          *)
Forward ==
  /\ ServeGoto("forward", "done")
  /\ forwarded' = Append(forwarded, body)
  /\ Answer("response") \/ Answer("badGateway")
  /\ UNCHANGED <<request, body, approved>>

(* handleWebSocket answers with an error when a hook refuses, with Bad     *)
(* Gateway when its dial fails, and else by the upgrade, which answers     *)
(* also if it fails.                                                       *)
SessionAnswer ==
  CASE main = "dial" /\ main' = "done" -> Answer("badGateway")
    [] main \notin {"dial", "wait"} /\ main' = "done" -> Answer("error")
    [] main' = "wait" -> Answer("upgraded")
    [] OTHER -> UNCHANGED answers

ServeWebSocket ==
  /\ serve = "ws" /\ HandleStep
  /\ serve' = IF main' = "done" THEN "done" ELSE "ws"
  /\ SessionAnswer
  /\ UNCHANGED <<request, body, approved, forwarded>>

-----------------------------------------------------------------------------
ServeStep ==
  \/ NotFound \/ Bypass \/ RouteWebSocket \/ RouteRequest
  \/ ReadBody \/ BodyFails \/ CloseBody
  \/ AuthConnectRequest \/ AuthPublishRequest \/ PublishRequest \/ HookFails
  \/ Forward

ServeNext ==
  \/ ServeStep /\ UNCHANGED vars
  \/ ServeWebSocket
  \/ PeerStep /\ UNCHANGED serveVars
  \/ \E d \in Direction : StreamStep(d) /\ UNCHANGED serveVars

ServeSpec == ServeInit /\ [][ServeNext]_<<vars, serveVars>>

FairServe ==
  /\ ServeSpec
  /\ WF_<<vars, serveVars>>(ServeWebSocket)
  /\ \A d \in Direction :
        WF_<<vars, serveVars>>(StreamStep(d) /\ UNCHANGED serveVars)

-----------------------------------------------------------------------------
(* What the proxy promises for one request.                                *)

Forwarded == forwarded # << >>

(* Every request is answered once and truthfully: with a response only if  *)
(* the server was asked, with Bad Gateway only if it was asked or a        *)
(* session failed to reach it, with an upgrade if and only if a session    *)
(* was started, with an error if no server and no session had it. A        *)
(* request that Publish agreed to is never dropped.                        *)
AnsweredOnce ==
  /\ Len(answers) <= 1
  /\ serve = "done" =>
       /\ Len(answers) = 1
       /\ Forwarded => answers[1] \in {"response", "badGateway"}
       /\ answers[1] = "response" => Forwarded
       /\ answers[1] = "badGateway" => Forwarded \/ main = "done"
       /\ Len(approved) = 3 => Forwarded
       /\ pc["Up"] # "idle" <=> answers[1] = "upgraded"

(* Nothing goes to the server but what its hooks agreed to, all three of   *)
(* them in their order, or what is bypassed, and then no hook is asked; it *)
(* goes with a body, never with the one that has been drained. A WebSocket *)
(* is served only where neither applies.                                   *)
ForwardedIfApproved ==
  /\ Forwarded =>
       /\ request.prefixed /\ Len(forwarded) = 1 /\ forwarded[1] # NoBody
       /\ IF request.bypassed THEN approved = << >> ELSE
            ~request.websocket /\ approved = <<"AuthConnect", "AuthPublish", "Publish">>
  /\ main # "authConnect" =>
       request.prefixed /\ ~request.bypassed /\ approved = << >> /\ ~Forwarded
=============================================================================
