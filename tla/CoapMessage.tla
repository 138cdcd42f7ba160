---------------------------- MODULE CoapMessage -----------------------------
(***************************************************************************)
(* handleCoAPMessage: which hooks of session.Handler the CoAP proxy calls  *)
(* for one datagram before it forwards it, in which order, and when it     *)
(* forwards nothing.  Shared by the UDP and the DTLS side of the proxy.    *)
(***************************************************************************)
EXTENDS Naturals, Sequences

(* OBSERVE is a GET that starts an observation; a GET that stops one calls *)
(* the same hooks as a plain one; OTHER is any other code, PUT say.        *)
CoapKind == {"POST", "OBSERVE", "GET", "OTHER", "MALFORMED"}
CoapHook == {"AuthConnect", "AuthPublish", "Publish", "AuthSubscribe", "Subscribe"}

HookPlan(kind) ==
  CASE kind = "POST"    -> <<"AuthConnect", "AuthPublish", "Publish">>
    [] kind = "OBSERVE" -> <<"AuthConnect", "AuthSubscribe", "Subscribe">>
    [] kind = "GET"     -> <<"AuthConnect">>
    [] OTHER            -> << >>

Handling == [called : Seq(CoapHook), ok : BOOLEAN]
Unhandled == [called |-> << >>, ok |-> FALSE]

(* What handling a message may come to: the hooks called, and whether it   *)
(* is forwarded.  The first hook that fails ends the handling; a message   *)
(* that lacks the key or the path fails before any hook.                   *)
Handlings(kind) ==
  LET plan == HookPlan(kind)
      refused == {[called |-> SubSeq(plan, 1, n), ok |-> FALSE] : n \in 0..Len(plan)}
      passed  == {[called |-> plan, ok |-> TRUE]}
  IN  CASE kind = "MALFORMED" -> {[called |-> << >>, ok |-> FALSE]}
        [] kind = "OTHER"     -> passed
        [] OTHER              -> passed \cup refused

(* What has to agree before a datagram of each kind may be forwarded.      *)
Required(kind) ==
  CASE kind = "POST"    -> {"AuthConnect", "AuthPublish"}
    [] kind = "OBSERVE" -> {"AuthConnect", "AuthSubscribe"}
    [] kind = "GET"     -> {"AuthConnect"}
    [] OTHER            -> {}
=============================================================================
