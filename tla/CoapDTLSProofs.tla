--------------------------- MODULE CoapDTLSProofs ---------------------------
(***************************************************************************)
(* Theorems about one DTLS session of the CoAP proxy, for any number of    *)
(* datagrams.                                                              *)
(***************************************************************************)
EXTENDS CoapDTLS, CoapMessageProofs

(* Which goroutines run and which sockets are open in each phase. *)
PhaseInv ==
  /\ main = "dial" => /\ up = "idle" /\ down = "idle"
                      /\ inbound = "open" /\ outbound = "none"
  /\ main = "wait" => /\ up # "idle" /\ down # "idle"
                      /\ inbound = "open" /\ outbound = "open"
  /\ main = "done" => /\ up \in {"idle", "done"} /\ down \in {"idle", "done"}
                      /\ inbound = "closed" /\ outbound # "open"

(* The one approved datagram that may still be in dtlsUp's hand, and what  *)
(* becomes of the count when dtlsUp ends.                                  *)
CountInv ==
  /\ up \in {"idle", "read", "handle", "answer"} => approved = forwarded
  /\ up = "forward" => approved = forwarded + 1
  /\ up = "done" => approved \in {forwarded, forwarded + 1}
  /\ refused => up = "done" /\ approved = forwarded

DtlsInv == TypeOK /\ PhaseInv /\ CountInv

LEMMA DtlsInit == Init => DtlsInv
<1>1. Unhandled \in Handling
  BY DEF Unhandled, Handling
<1>2. Init => gone \in BOOLEAN /\ refused \in BOOLEAN /\ refused = FALSE
  BY Zenon DEF Init
<1> QED
  BY <1>1, <1>2 DEF Init, DtlsInv, TypeOK, PhaseInv, CountInv, CoapKind, Reading

LEMMA DtlsStep == DtlsInv /\ [Next]_vars => DtlsInv'
<1> SUFFICES ASSUME DtlsInv, [Next]_vars PROVE DtlsInv'
  OBVIOUS
<1> USE DEF DtlsInv, TypeOK, PhaseInv, CountInv, Reading
<1>1. CASE HandleStep
  BY <1>1 DEF HandleStep, Dial, DialFails, CloseBoth, upVars, downVars, netVars
<1>2. CASE ReadDatagram \/ ReadFails \/ AnswerError \/ ForwardUp \/ ForwardFails
  <2> USE DEF downVars, sockVars, netVars
  <2>1. gone' \in BOOLEAN /\ refused' \in BOOLEAN
    BY <1>2, Zenon DEF ReadDatagram, ReadFails, AnswerError, ForwardUp, ForwardFails
  <2>2. CASE AnswerError
    BY <2>1, <2>2 DEF AnswerError, UpGoto
  <2>3. CASE ReadDatagram \/ ReadFails \/ ForwardUp \/ ForwardFails
    BY <2>1, <2>3 DEF ReadDatagram, ReadFails, ForwardUp, ForwardFails, UpGoto
  <2> QED BY <1>2, <2>2, <2>3
<1>3. CASE HandleCoAPMessage
  <2>1. handling' \in Handling
    BY <1>3, HandlingsType DEF HandleCoAPMessage
  <2> QED BY <1>3, <2>1 DEF HandleCoAPMessage, downVars, sockVars, netVars
<1>4. CASE DownStep
  BY <1>4 DEF DownStep, SetReadDeadline, ReadReply, ReadReplyFails, WriteToDevice,
              WriteToDeviceFails, DownGoto, upVars, sockVars, netVars
<1>5. CASE DeviceCloses \/ ServerReplies
  <2> USE DEF upVars, downVars, sockVars, netVars
  <2>1. gone' \in BOOLEAN
    BY <1>5, Zenon DEF DeviceCloses, ServerReplies
  <2> QED BY <1>5, <2>1 DEF DeviceCloses, ServerReplies
<1>6. CASE UNCHANGED vars
  BY <1>6 DEF vars, upVars, downVars, sockVars, netVars
<1> QED BY <1>1, <1>2, <1>3, <1>4, <1>5, <1>6 DEF Next, UpStep

LEMMA DtlsAlways == Spec => []DtlsInv
BY DtlsInit, DtlsStep, PTL DEF Spec

-----------------------------------------------------------------------------
(* Every variable of a DTLS session keeps its type. *)
THEOREM TypeCorrect == Spec => []TypeOK
BY DtlsAlways, PTL DEF DtlsInv

(* All that the hooks approve is forwarded until the first refusal or      *)
(* failure of dtlsUp, and nothing after it.                                *)
THEOREM Forwarding == Spec => []ForwardedUntilRefused
<1>1. DtlsInv => ForwardedUntilRefused
  BY DEF DtlsInv, TypeOK, CountInv, ForwardedUntilRefused
<1> QED BY <1>1, DtlsAlways, PTL

(* The sockets are open while a goroutine uses them and closed when        *)
(* handleDTLS has returned.                                                *)
THEOREM Sockets == Spec => []SocketsOutliveGoroutines
<1>1. DtlsInv => SocketsOutliveGoroutines
  BY DEF DtlsInv, TypeOK, PhaseInv, SocketsOutliveGoroutines, Reading
<1> QED BY <1>1, DtlsAlways, PTL

-----------------------------------------------------------------------------
(* How many steps a goroutine is from its end at most, once the device has *)
(* closed its connection.                                                  *)
UpDistance ==
  CASE up = "handle" -> 3
    [] up = "forward" -> 2
    [] up \in {"read", "answer"} -> 1
    [] up \in {"idle", "done"} -> 0

DownDistance ==
  CASE down = "deadline" -> 3
    [] down = "wait" -> 2
    [] down = "relay" -> 1
    [] down \in {"idle", "done"} -> 0

(* Neither goroutine goes round its loop again after the device has left:  *)
(* every step brings it nearer to its end, and nothing is relayed.         *)
WindsDown ==
  [][gone => /\ UpStep => UpDistance' < UpDistance
             /\ DownStep => DownDistance' < DownDistance
             /\ UNCHANGED relayed]_vars

LEMMA Nearer ==
  ASSUME TypeOK, gone
  PROVE  /\ UpStep => UpDistance' < UpDistance
         /\ DownStep => DownDistance' < DownDistance
<1>1. UpStep => UpDistance' < UpDistance
  BY DEF TypeOK, UpStep, ReadDatagram, ReadFails, HandleCoAPMessage, AnswerError,
         ForwardUp, ForwardFails, UpGoto, UpDistance
<1>2. DownStep => DownDistance' < DownDistance
  BY DEF TypeOK, DownStep, SetReadDeadline, ReadReply, ReadReplyFails, WriteToDevice,
         WriteToDeviceFails, DownGoto, DownDistance, Reading
<1> QED BY <1>1, <1>2

(* The safety half of SessionEnds: dtlsUp and dtlsDown, which nobody tells *)
(* that the device left, take at most three steps each before they end,    *)
(* even if the server never falls silent.                                  *)
THEOREM WindingDown == Spec => WindsDown
<1>1. gone /\ [Next]_vars => UNCHANGED relayed
  BY DEF Next, HandleStep, Dial, DialFails, CloseBoth, UpStep, ReadDatagram, ReadFails,
         HandleCoAPMessage, AnswerError, ForwardUp, ForwardFails, DownStep,
         SetReadDeadline, ReadReply, ReadReplyFails, WriteToDevice, WriteToDeviceFails,
         DeviceCloses, ServerReplies, vars, downVars
<1>2. TypeOK /\ [Next]_vars
        => [gone => /\ UpStep => UpDistance' < UpDistance
                    /\ DownStep => DownDistance' < DownDistance
                    /\ UNCHANGED relayed]_vars
  BY <1>1, Nearer
<1> QED BY <1>2, TypeCorrect, PTL DEF Spec, WindsDown
=============================================================================
