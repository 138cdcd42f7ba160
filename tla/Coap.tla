-------------------------------- MODULE Coap --------------------------------
(***************************************************************************)
(* The CoAP proxy.  Listen opens either a DTLS or a plain UDP listener,    *)
(* by the configuration it is given, and runs that side only: CoapUDP is   *)
(* the whole of the plain side, CoapDTLS one of the sessions that the      *)
(* other side accepts, which share nothing but the hooks.                  *)
(***************************************************************************)
EXTENDS CoapUDP

CONSTANT Transports     \* the transports that may be configured

ASSUME CoapAssumption == Transports \subseteq {"udp", "dtls"}

VARIABLES
  transport,    \* the case that Listen took
  main, up, down, inbound, outbound, gone, waiting, refused,    \* of CoapDTLS
  dtlsMsg, dtlsHandling, dtlsRead, dtlsReplies, dtlsForwarded, dtlsRelayed, approved

Dtls ==
  INSTANCE CoapDTLS WITH
    msg <- dtlsMsg, handling <- dtlsHandling, nread <- dtlsRead,
    nreplies <- dtlsReplies, forwarded <- dtlsForwarded, relayed <- dtlsRelayed,
    MaxReplies <- MaxDatagrams

dtlsVars == <<main, up, down, inbound, outbound, gone, waiting, refused, dtlsMsg,
              dtlsHandling, dtlsRead, dtlsReplies, dtlsForwarded, dtlsRelayed, approved>>
coapVars == <<transport, vars, dtlsVars>>

Listen ==
  /\ transport \in Transports
  /\ Init
  /\ Dtls!Init

(* A step of the side that Listen started. *)
OnUdp(A)  == transport = "udp" /\ A /\ UNCHANGED <<transport, dtlsVars>>
OnDtls(A) == transport = "dtls" /\ A /\ UNCHANGED <<transport, vars>>

CoapNext == OnUdp(Next) \/ OnDtls(Dtls!Next)

CoapSpec == Listen /\ [][CoapNext]_coapVars

(* The fairness of each side, on that side. *)
CoapFairSpec ==
  /\ CoapSpec
  /\ WF_coapVars(OnUdp(LoopStep))
  /\ \A c \in Conn : WF_coapVars(OnUdp(ReaderStep(c)))
  /\ WF_coapVars(OnDtls(Dtls!HandleStep))
  /\ WF_coapVars(OnDtls(Dtls!UpRuns))
  /\ WF_coapVars(OnDtls(Dtls!DownStep))

-----------------------------------------------------------------------------
(* What CoapDTLS promises of a session, as its comments there say.         *)

(* The hooks' verdicts rule what a session forwards (dtlsUp).              *)
ForwardedUntilRefused == Dtls!ForwardedUntilRefused

(* Sockets stay open for both goroutines and no longer (handleDTLS).       *)
SocketsOutliveGoroutines == Dtls!SocketsOutliveGoroutines

(* The end of the device or of dtlsUp ends the session (handleDTLS).       *)
SessionEnds == Dtls!SessionEnds

(* README.md:82: one goroutine forwards the device's packets, the "other   *)
(* that will be reading server responses from mGate-server socket and      *)
(* writing them towards device" (coap.go:168 and 245 start it).            *)
ResponsesRelayed == AlwaysAReader /\ Dtls!ResponsesRead
=============================================================================
