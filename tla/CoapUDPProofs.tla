--------------------------- MODULE CoapUDPProofs ----------------------------
(***************************************************************************)
(* Theorems about the UDP side of the CoAP proxy, for any devices, sockets *)
(* and messages.                                                           *)
(***************************************************************************)
EXTENDS CoapUDP, CoapMessageProofs, TLAPS

-----------------------------------------------------------------------------
(* The inductive invariant.                                                *)

Busy == {"handle", "answer", "forward", "start"}

(* The Conn and the datagram that proxyUDP has in hand. *)
LoopInv ==
  /\ loop = "route" => msg \in Message
  /\ loop \in Busy => /\ msg \in Message /\ cur \in Conn
                      /\ sock[cur] # "none" /\ clientAddr[cur] = msg.from
  /\ loop \in {"forward", "start"} => Approved(handling, msg.kind)

(* A Conn has a reader from the moment it is started; only the reader      *)
(* closes its socket, as its last act.                                     *)
ReaderInv ==
  \A c \in Conn :
     /\ started[c] <=> reader[c] # "none"
     /\ sock[c] = "none" => reader[c] = "none" /\ forwarded[c] = {}
     /\ sock[c] = "closed" => reader[c] = "dead"
     /\ reader[c] = "dead" => sock[c] = "closed" \/ relayFailed[c]

(* Datagrams on a server socket belong to its device. *)
OwnerInv ==
  \A c \in Conn :
     /\ forwarded[c] \subseteq {clientAddr[c]}
     /\ \A i \in 1..Len(inbuf[c]) : inbuf[c][i] = clientAddr[c]
     /\ reader[c] = "relay" => hand[c] = clientAddr[c]
     /\ sock[c] # "none" => clientAddr[c] \in Addr
     /\ sock[c] = "none" => inbuf[c] = << >>

CoapInv ==
  /\ TypeOK
  /\ LoopInv
  /\ ReaderInv
  /\ OwnerInv
  /\ MapCoherent
  /\ RelayedToOwner
  /\ ReaderServes

LEMMA CoapInit == Init => CoapInv
<1> SUFFICES ASSUME Init PROVE CoapInv
  OBVIOUS
<1> USE CoapUDPAssumption DEF Init, CoapUDPAssumption
<1>1. handling \in Handling
  BY DEF Unhandled, Handling
<1>2. /\ clientAddr \in [Conn -> Addr \cup {None}]
      /\ connMap \in [Addr -> Conn \cup {None}]
      /\ hand \in [Conn -> Addr \cup {None}]
      /\ inbuf \in [Conn -> Seq(Addr)]
      /\ forwarded \in [Conn -> SUBSET Addr]
      /\ relayed \in [Addr -> SUBSET Addr]
  OBVIOUS
<1>3. TypeOK
  BY <1>1, <1>2 DEF TypeOK, LoopPc, ReaderPc
<1>4. LoopInv /\ ReaderInv /\ OwnerInv
  BY DEF LoopInv, ReaderInv, OwnerInv, Busy
<1>5. MapCoherent /\ RelayedToOwner /\ ReaderServes
  BY DEF MapCoherent, RelayedToOwner, ReaderServes
<1> QED BY <1>3, <1>4, <1>5 DEF CoapInv

USE DEF LoopGoto, NextDatagram, ReaderGoto, elsewhere, outside

LEMMA UnhandledType == Unhandled \in Handling
BY DEF Unhandled, Handling

LEMMA TypeStep == CoapInv /\ [Next]_vars => TypeOK'
<1> SUFFICES ASSUME CoapInv, [Next]_vars PROVE TypeOK'
  OBVIOUS
<1> USE DEF CoapInv, TypeOK, LoopPc, ReaderPc
<1>1. CASE LoopStep
  <2> USE DEF connVars, readerVars, listenVars, netVars
  <2>1. CASE StopReading \/ ReadFromUDP
    BY <2>1 DEF StopReading, ReadFromUDP
  <2>2. CASE FindConn \/ DialFails
    BY <2>2, UnhandledType, CoapUDPAssumption
       DEF FindConn, DialFails, LoopInv, Message, CoapUDPAssumption
  <2>3. CASE DialConn
    BY <2>3 DEF DialConn, LoopInv, Message
  <2>4. CASE HandleCoAPMessage
    BY <2>4, HandlingsType DEF HandleCoAPMessage
  <2>5. CASE AnswerError \/ ForwardFails
    BY <2>5, UnhandledType DEF AnswerError, ForwardFails
  <2>6. CASE ForwardUp
    BY <2>6 DEF ForwardUp, LoopInv, Busy, Message
  <2>7. CASE StartReader
    BY <2>7, UnhandledType DEF StartReader
  <2> QED BY <1>1, <2>1, <2>2, <2>3, <2>4, <2>5, <2>6, <2>7 DEF LoopStep
<1>2. ASSUME NEW c \in Conn, ReaderStep(c)
      PROVE  TypeOK'
  <2> USE DEF loopVars, connVars, listenVars, netVars
  <2>1. CASE ReadReply(c)
    BY <2>1 DEF ReadReply
  <2>2. CASE WriteToDevice(c)
    <3>1. relayed' \in [Addr -> SUBSET Addr]
      BY <2>2, CoapUDPAssumption DEF WriteToDevice, OwnerInv, ReaderInv, CoapUDPAssumption
    <3> QED BY <2>2, <3>1 DEF WriteToDevice
  <2>3. CASE SetReadDeadline(c) \/ ReadTimesOut(c) \/ ReadRefused(c)
             \/ WriteToDeviceFails(c) \/ CloseConn(c)
    BY <2>3 DEF SetReadDeadline, ReadTimesOut, ReadRefused, WriteToDeviceFails,
                CloseConn
  <2> QED BY <1>2, <2>1, <2>2, <2>3 DEF ReaderStep
<1>3. ASSUME NEW c \in Conn, ServerReplies(c)
      PROVE  TypeOK'
  BY <1>3 DEF ServerReplies, loopVars, connVars, readerVars, listenVars
<1>4. CASE Cancel \/ CloseListener \/ UNCHANGED vars
  BY <1>4 DEF Cancel, CloseListener, vars, loopVars, connVars, readerVars,
              listenVars, netVars
<1> QED BY <1>1, <1>2, <1>3, <1>4 DEF Next

LEMMA LoopStepInv == CoapInv /\ [Next]_vars => LoopInv'
<1> SUFFICES ASSUME CoapInv, [Next]_vars PROVE LoopInv'
  OBVIOUS
<1> USE DEF CoapInv, TypeOK, LoopInv, Busy
<1>1. CASE LoopStep
  <2> USE DEF connVars
  <2>1. CASE StopReading \/ ReadFromUDP \/ DialFails \/ AnswerError
             \/ ForwardFails \/ StartReader
    BY <2>1 DEF StopReading, ReadFromUDP, DialFails, AnswerError, ForwardFails,
                StartReader
  <2>2. CASE FindConn
    BY <2>2, CoapUDPAssumption
       DEF FindConn, MapCoherent, Message, CoapUDPAssumption
  <2>3. CASE DialConn
    BY <2>3 DEF DialConn
  <2>4. CASE HandleCoAPMessage
    <3>1. handling' \in Handlings(msg.kind) /\ (loop' = "forward" => handling'.ok)
          /\ loop' \in {"forward", "answer"}
      BY <2>4 DEF HandleCoAPMessage
    <3>2. loop' = "forward" => Approved(handling', msg.kind)
      BY <3>1, HandlingApproves
    <3> QED BY <2>4, <3>1, <3>2 DEF HandleCoAPMessage
  <2>5. CASE ForwardUp
    BY <2>5 DEF ForwardUp
  <2> QED BY <1>1, <2>1, <2>2, <2>3, <2>4, <2>5 DEF LoopStep
<1>2. ASSUME NEW c \in Conn, CloseConn(c)
      PROVE  LoopInv'
  BY <1>2 DEF CloseConn, loopVars
<1>3. CASE UNCHANGED <<loopVars, connVars>>
  BY <1>3 DEF loopVars, connVars
<1> QED
  BY <1>1, <1>2, <1>3
     DEF Next, ReaderStep, SetReadDeadline, ReadReply, ReadTimesOut,
         ReadRefused, WriteToDevice, WriteToDeviceFails, ServerReplies, Cancel,
         CloseListener, vars

LEMMA ReaderStepInv == CoapInv /\ [Next]_vars => ReaderInv' /\ ReaderServes'
<1> SUFFICES ASSUME CoapInv, [Next]_vars PROVE ReaderInv' /\ ReaderServes'
  OBVIOUS
<1> USE DEF CoapInv, TypeOK, ReaderPc, ReaderInv, ReaderServes, Reading
<1>1. CASE LoopStep
  <2> USE DEF connVars, readerVars
  <2>1. CASE StopReading \/ ReadFromUDP \/ FindConn \/ DialFails
             \/ HandleCoAPMessage \/ AnswerError \/ ForwardFails
    BY <2>1 DEF StopReading, ReadFromUDP, FindConn, DialFails,
                HandleCoAPMessage, AnswerError, ForwardFails
  <2>2. CASE DialConn
    BY <2>2 DEF DialConn
  <2>3. CASE ForwardUp
    BY <2>3 DEF ForwardUp
  <2>4. CASE StartReader
    <3>1. cur \in Conn /\ sock[cur] # "none"
      BY <2>4 DEF StartReader, LoopInv, Busy
    <3>2. CASE started[cur]
      BY <2>4, <3>1, <3>2 DEF StartReader
    <3>3. CASE ~started[cur]
      <4>1. sock[cur] = "open"
        BY <3>1, <3>3
      <4> QED BY <2>4, <3>1, <3>3, <4>1 DEF StartReader
    <3> QED BY <3>2, <3>3
  <2> QED BY <1>1, <2>1, <2>2, <2>3, <2>4 DEF LoopStep
<1>2. ASSUME NEW c \in Conn, ReaderStep(c)
      PROVE  ReaderInv' /\ ReaderServes'
  <2> USE DEF loopVars, connVars
  <2>1. CASE SetReadDeadline(c)
    BY <2>1 DEF SetReadDeadline
  <2>2. CASE ReadReply(c)
    BY <2>2 DEF ReadReply
  <2>3. CASE ReadTimesOut(c) \/ ReadRefused(c)
    <3>1. reader[c] = "wait" /\ reader' = [reader EXCEPT ![c] = "close"]
          /\ UNCHANGED <<loop, cur, sock, forwarded, started, relayFailed>>
      BY <2>3 DEF ReadTimesOut, ReadRefused
    <3> QED BY <3>1
  <2>4. CASE WriteToDevice(c)
    BY <2>4 DEF WriteToDevice
  <2>5. CASE WriteToDeviceFails(c)
    BY <2>5 DEF WriteToDeviceFails
  <2>6. CASE CloseConn(c)
    BY <2>6 DEF CloseConn
  <2> QED BY <1>2, <2>1, <2>2, <2>3, <2>4, <2>5, <2>6 DEF ReaderStep
<1>3. CASE UNCHANGED <<loop, cur, connVars, readerVars, forwarded, started>>
  BY <1>3 DEF connVars, readerVars
<1> QED
  BY <1>1, <1>2, <1>3
     DEF Next, ServerReplies, Cancel, CloseListener, vars, loopVars

LEMMA OwnerStep == CoapInv /\ [Next]_vars => OwnerInv' /\ RelayedToOwner'
<1> SUFFICES ASSUME CoapInv, [Next]_vars PROVE OwnerInv' /\ RelayedToOwner'
  OBVIOUS
<1> USE DEF CoapInv, TypeOK, OwnerInv, RelayedToOwner
<1>1. CASE LoopStep
  <2> USE DEF connVars, readerVars, listenVars, netVars
  <2>1. CASE DialConn
    BY <2>1 DEF DialConn, LoopInv, ReaderInv, Message
  <2>2. CASE ForwardUp
    BY <2>2 DEF ForwardUp, LoopInv, Busy
  <2>3. CASE StartReader
    BY <2>3 DEF StartReader
  <2>4. CASE StopReading \/ ReadFromUDP \/ FindConn \/ DialFails
             \/ HandleCoAPMessage \/ AnswerError \/ ForwardFails
    BY <2>4 DEF StopReading, ReadFromUDP, FindConn, DialFails,
                HandleCoAPMessage, AnswerError, ForwardFails
  <2> QED BY <1>1, <2>1, <2>2, <2>3, <2>4 DEF LoopStep
<1>2. ASSUME NEW c \in Conn, ReaderStep(c)
      PROVE  OwnerInv' /\ RelayedToOwner'
  <2> USE DEF loopVars, connVars, listenVars, netVars
  <2>1. CASE ReadReply(c)
    BY <2>1 DEF ReadReply
  <2>2. CASE WriteToDevice(c)
    BY <2>2 DEF WriteToDevice
  <2>3. CASE SetReadDeadline(c) \/ ReadTimesOut(c) \/ ReadRefused(c)
             \/ WriteToDeviceFails(c)
    BY <2>3 DEF SetReadDeadline, ReadTimesOut, ReadRefused, WriteToDeviceFails
  <2>4. CASE CloseConn(c)
    BY <2>4 DEF CloseConn, ReaderInv
  <2> QED BY <1>2, <2>1, <2>2, <2>3, <2>4 DEF ReaderStep
<1>3. ASSUME NEW c \in Conn, ServerReplies(c)
      PROVE  OwnerInv' /\ RelayedToOwner'
  BY <1>3 DEF ServerReplies, loopVars, connVars, readerVars, listenVars
<1>4. CASE Cancel \/ CloseListener \/ UNCHANGED vars
  BY <1>4 DEF Cancel, CloseListener, vars, loopVars, connVars, readerVars,
              listenVars, netVars
<1> QED BY <1>1, <1>2, <1>3, <1>4 DEF Next

LEMMA MapStep == CoapInv /\ [Next]_vars => MapCoherent'
<1> SUFFICES ASSUME CoapInv, [Next]_vars PROVE MapCoherent'
  OBVIOUS
<1> USE DEF CoapInv, TypeOK, MapCoherent
<1>1. CASE DialConn
  BY <1>1, CoapUDPAssumption DEF DialConn, LoopInv, Message, CoapUDPAssumption
<1>2. ASSUME NEW c \in Conn, CloseConn(c)
      PROVE  MapCoherent'
  <2>1. /\ sock[c] = "open" /\ clientAddr[c] \in Addr
        /\ connMap[clientAddr[c]] = c
    BY <1>2 DEF CloseConn, ReaderInv
  <2>2. /\ connMap' = [connMap EXCEPT ![clientAddr[c]] = None]
        /\ sock' = [sock EXCEPT ![c] = "closed"]
        /\ clientAddr' = clientAddr
    BY <1>2 DEF CloseConn
  <2>3. ASSUME NEW a \in Addr, connMap'[a] # None
        PROVE  sock'[connMap'[a]] = "open" /\ clientAddr'[connMap'[a]] = a
    BY <2>1, <2>2, <2>3
  <2>4. ASSUME NEW k \in Conn, sock'[k] = "open"
        PROVE  clientAddr'[k] \in Addr /\ connMap'[clientAddr'[k]] = k
    BY <2>1, <2>2, <2>4
  <2> QED BY <2>3, <2>4
<1>3. CASE UNCHANGED connVars
  BY <1>3 DEF connVars
<1> QED
  BY <1>1, <1>2, <1>3
     DEF Next, LoopStep, StopReading, ReadFromUDP, FindConn, DialFails,
         HandleCoAPMessage, AnswerError, ForwardUp, ForwardFails, StartReader,
         ReaderStep, SetReadDeadline, ReadReply, ReadTimesOut, ReadRefused,
         WriteToDevice, WriteToDeviceFails, ServerReplies, Cancel,
         CloseListener, vars

LEMMA CoapAlways == Spec => []CoapInv
<1>1. CoapInv /\ [Next]_vars => CoapInv'
  BY TypeStep, LoopStepInv, ReaderStepInv, OwnerStep, MapStep DEF CoapInv
<1> QED BY <1>1, CoapInit, PTL DEF Spec

-----------------------------------------------------------------------------
(* Every variable of the proxy keeps its type. *)
THEOREM TypeCorrect == Spec => []TypeOK
BY CoapAlways, PTL DEF CoapInv

(* connMap holds exactly the open sockets, each under the address of its   *)
(* device, whatever the readers close while proxyUDP holds a Conn.         *)
THEOREM Coherence == Spec => []MapCoherent
BY CoapAlways, PTL DEF CoapInv

(* No device is ever handed an answer to another device's datagram.        *)
THEOREM Ownership == Spec => []RelayedToOwner
BY CoapAlways, PTL DEF CoapInv

(* A socket that carried a datagram has its reader until it is closed,     *)
(* unless a write to the device failed.                                    *)
THEOREM Service == Spec => []ReaderServes
BY CoapAlways, PTL DEF CoapInv

(* Nothing is forwarded without the hooks that authorize it.               *)
THEOREM Approval == Spec => []ForwardedIfApproved
<1>1. CoapInv => ForwardedIfApproved
  BY DEF CoapInv, LoopInv, Approved, ForwardedIfApproved
<1> QED BY <1>1, CoapAlways, PTL

-----------------------------------------------------------------------------
(* The life of a Conn and of its reader.                                   *)

(* A Conn is dialed once and read by one downUDP: a closed socket stays    *)
(* closed and out of connMap, clientAddr never changes once the device has *)
(* the socket, and only the first StartReader starts a reader, which then  *)
(* moves by its own steps alone. A datagram that proxyUDP still forwards   *)
(* on the old Conn of its device while the reader closes it revives        *)
(* neither.                                                                *)
OneLife ==
  [][\A c \in Conn :
        /\ sock[c] # "none" => sock'[c] # "none" /\ clientAddr'[c] = clientAddr[c]
        /\ sock[c] = "closed" => sock'[c] = "closed" /\ \A a \in Addr : connMap'[a] # c
        /\ reader[c] = "dead" => reader'[c] = "dead"
        /\ reader[c] # "none" /\ reader'[c] # reader[c] => ReaderStep(c)]_vars

LEMMA SocketsLiveOnce ==
  ASSUME CoapInv, [Next]_vars, NEW c \in Conn
  PROVE  /\ sock[c] # "none" => sock'[c] # "none" /\ clientAddr'[c] = clientAddr[c]
         /\ sock[c] = "closed" => sock'[c] = "closed"
<1>0. /\ sock \in [Conn -> {"none", "open", "closed"}]
      /\ clientAddr \in [Conn -> Addr \cup {None}]
  BY DEF CoapInv, TypeOK
<1>1. CASE UNCHANGED connVars
  BY <1>1 DEF connVars
<1>2. CASE DialConn
  BY <1>0, <1>2 DEF DialConn
<1>3. ASSUME NEW d \in Conn, CloseConn(d)
      PROVE  /\ sock[c] # "none" => sock'[c] # "none" /\ clientAddr'[c] = clientAddr[c]
             /\ sock[c] = "closed" => sock'[c] = "closed"
  BY <1>0, <1>3 DEF CloseConn
<1> QED
  BY <1>1, <1>2, <1>3
     DEF Next, LoopStep, StopReading, ReadFromUDP, FindConn, DialFails,
         HandleCoAPMessage, AnswerError, ForwardUp, ForwardFails, StartReader,
         ReaderStep, SetReadDeadline, ReadReply, ReadTimesOut, ReadRefused,
         WriteToDevice, WriteToDeviceFails, ServerReplies, Cancel,
         CloseListener, vars, elsewhere

LEMMA ReadersLiveOnce ==
  ASSUME CoapInv, [Next]_vars, NEW c \in Conn, reader[c] # "none", reader'[c] # reader[c]
  PROVE  ReaderStep(c) /\ reader[c] # "dead"
<1>0. /\ reader \in [Conn -> ReaderPc]
      /\ \A d \in Conn : started[d] <=> reader[d] # "none"
      /\ loop = "start" => cur \in Conn
  BY DEF CoapInv, TypeOK, ReaderInv, LoopInv, Busy
<1>1. ~StartReader
  BY <1>0 DEF StartReader, LoopGoto
<1>2. ASSUME NEW d \in Conn, ReaderStep(d)
      PROVE  d = c /\ reader[c] # "dead"
  <2>1. \E from, to \in ReaderPc : from # "dead" /\ ReaderGoto(d, from, to)
    BY <1>2 DEF ReaderStep, SetReadDeadline, ReadReply, ReadTimesOut, ReadRefused,
                WriteToDevice, WriteToDeviceFails, CloseConn, ReaderPc
  <2> QED BY <1>0, <2>1 DEF ReaderGoto
<1>3. ~UNCHANGED reader
  OBVIOUS
<1> QED
  BY <1>1, <1>2, <1>3
     DEF Next, LoopStep, StopReading, ReadFromUDP, FindConn, DialConn, DialFails,
         HandleCoAPMessage, AnswerError, ForwardUp, ForwardFails, ServerReplies,
         Cancel, CloseListener, vars, elsewhere, readerVars

(* For any number of datagrams, and however they fall between the steps of *)
(* closeConn, StartReader and newConn.                                     *)
THEOREM Lifetimes == Spec => OneLife
<1>1. ASSUME CoapInv, CoapInv', [Next]_vars, NEW c \in Conn
      PROVE  /\ sock[c] # "none" => sock'[c] # "none" /\ clientAddr'[c] = clientAddr[c]
             /\ sock[c] = "closed" => sock'[c] = "closed" /\ \A a \in Addr : connMap'[a] # c
             /\ reader[c] = "dead" => reader'[c] = "dead"
             /\ reader[c] # "none" /\ reader'[c] # reader[c] => ReaderStep(c)
  <2>1. sock'[c] = "closed" => \A a \in Addr : connMap'[a] # c
    BY <1>1, CoapUDPAssumption DEF CoapInv, MapCoherent, CoapUDPAssumption
  <2> QED BY <1>1, <2>1, SocketsLiveOnce, ReadersLiveOnce
<1>2. CoapInv /\ CoapInv' /\ [Next]_vars
        => [\A c \in Conn :
              /\ sock[c] # "none" => sock'[c] # "none" /\ clientAddr'[c] = clientAddr[c]
              /\ sock[c] = "closed" => sock'[c] = "closed" /\ \A a \in Addr : connMap'[a] # c
              /\ reader[c] = "dead" => reader'[c] = "dead"
              /\ reader[c] # "none" /\ reader'[c] # reader[c] => ReaderStep(c)]_vars
  BY <1>1
<1> QED BY <1>2, CoapAlways, PTL DEF Spec, OneLife

(* How many steps a reader is from its end at most, if its server sends    *)
(* nothing more: three for a datagram that waits, and those of its place.  *)
Distance(c) ==
  3 * Len(inbuf[c]) +
    CASE reader[c] = "relay" -> 4
      [] reader[c] = "deadline" -> 3
      [] reader[c] = "wait" -> 2
      [] reader[c] = "close" -> 1
      [] reader[c] \in {"none", "dead"} -> 0

(* Every step of a reader brings it nearer to its end, and only a datagram *)
(* of the server puts it off: the reader does nothing twice on its own.    *)
WindsDown ==
  [][\A c \in Conn :
        /\ ReaderStep(c) => Distance(c)' < Distance(c)
        /\ reader[c] # "none" /\ ~ServerReplies(c) => Distance(c)' <= Distance(c)]_vars

LEMMA Nearer ==
  ASSUME TypeOK, NEW c \in Conn, ReaderStep(c)
  PROVE  Distance(c)' < Distance(c)
<1>0. reader \in [Conn -> ReaderPc] /\ inbuf[c] \in Seq(Addr) /\ Len(inbuf[c]) \in Nat
  BY DEF TypeOK
<1>1. CASE ReadReply(c)
  <2>1. Len(inbuf'[c]) = Len(inbuf[c]) - 1
    BY <1>0, <1>1 DEF ReadReply, TypeOK
  <2>2. reader[c] = "wait" /\ reader'[c] = "relay"
    BY <1>0, <1>1 DEF ReadReply, ReaderGoto
  <2> QED BY <1>0, <2>1, <2>2 DEF Distance
<1>2. CASE ~ReadReply(c)
  <2>1. UNCHANGED inbuf
    BY <1>2 DEF ReaderStep, SetReadDeadline, ReadTimesOut, ReadRefused,
                WriteToDevice, WriteToDeviceFails, CloseConn, netVars
  <2>2. <<reader[c], reader'[c]>> \in
          {<<"deadline", "wait">>, <<"deadline", "dead">>, <<"wait", "close">>,
           <<"relay", "deadline">>, <<"relay", "dead">>, <<"close", "dead">>}
    BY <1>0, <1>2 DEF ReaderStep, SetReadDeadline, ReadTimesOut, ReadRefused,
                      WriteToDevice, WriteToDeviceFails, CloseConn, ReaderGoto
  <2> QED BY <1>0, <2>1, <2>2 DEF Distance
<1> QED BY <1>1, <1>2

LEMMA NoFarther ==
  ASSUME CoapInv, [Next]_vars, NEW c \in Conn, reader[c] # "none", ~ServerReplies(c)
  PROVE  Distance(c)' <= Distance(c)
<1>1. CASE ReaderStep(c)
  <2>1. Distance(c)' < Distance(c)
    BY <1>1, Nearer DEF CoapInv
  <2>2. TypeOK /\ TypeOK'
    BY TypeStep DEF CoapInv
  <2>3. /\ Len(inbuf[c]) \in Nat /\ Len(inbuf'[c]) \in Nat
        /\ reader[c] \in ReaderPc /\ reader'[c] \in ReaderPc
    BY <2>2 DEF TypeOK
  <2>4. Distance(c) \in Nat
    BY <2>3 DEF Distance, ReaderPc
  <2>5. Distance(c)' \in Nat
    BY <2>3 DEF Distance, ReaderPc
  <2> QED BY <2>1, <2>4, <2>5
<1>2. CASE ~ReaderStep(c)
  <2>1. reader'[c] = reader[c]
    BY <1>2, ReadersLiveOnce
  <2>2. ASSUME NEW d \in Conn, d # c, ReaderStep(d) \/ ServerReplies(d)
        PROVE  inbuf'[c] = inbuf[c]
    BY <2>2 DEF ReaderStep, SetReadDeadline, ReadReply, ReadTimesOut, ReadRefused,
                WriteToDevice, WriteToDeviceFails, CloseConn, ServerReplies, netVars,
                CoapInv, TypeOK
  <2>3. inbuf'[c] = inbuf[c]
    BY <1>2, <2>2
       DEF Next, LoopStep, StopReading, ReadFromUDP, FindConn, DialConn, DialFails,
           HandleCoAPMessage, AnswerError, ForwardUp, ForwardFails, StartReader,
           Cancel, CloseListener, vars, elsewhere, netVars
  <2>4. Distance(c)' = Distance(c)
    BY <2>1, <2>3 DEF Distance
  <2>5. Distance(c) \in Nat
    BY DEF CoapInv, TypeOK, Distance, ReaderPc
  <2> QED BY <2>4, <2>5
<1> QED BY <1>1, <1>2

(* The safety half of SilentConnReclaimed, for any number of datagrams:    *)
(* when the server falls silent a reader is at most four steps and three   *)
(* for every datagram in the socket from its end.                          *)
THEOREM WindingDown == Spec => WindsDown
<1>1. CoapInv /\ [Next]_vars
        => [\A c \in Conn :
              /\ ReaderStep(c) => Distance(c)' < Distance(c)
              /\ reader[c] # "none" /\ ~ServerReplies(c) => Distance(c)' <= Distance(c)]_vars
  BY Nearer, NoFarther DEF CoapInv
<1> QED BY <1>1, CoapAlways, PTL DEF Spec, WindsDown
=============================================================================
