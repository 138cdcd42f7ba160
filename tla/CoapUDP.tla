------------------------------ MODULE CoapUDP -------------------------------
(***************************************************************************)
(* The plain UDP side of the CoAP proxy.  One goroutine, proxyUDP, reads   *)
(* the datagrams of all devices from the listener l; newConn finds or      *)
(* dials the server socket of the device, upUDP runs the hooks, forwards   *)
(* the datagram on that socket and starts the socket's reader, downUDP,    *)
(* which relays the server's datagrams back until the socket is silent for *)
(* 30 seconds and closeConn removes it.  connMap is guarded by a mutex;    *)
(* the Conn that proxyUDP holds after newConn is not, so a reader may      *)
(* close it while the hooks run.                                           *)
(*                                                                         *)
(* UDP loses, duplicates and reorders datagrams: a device's datagram is    *)
(* any datagram, at any time; so is the server's, once a datagram reached  *)
(* it on that socket.                                                      *)
(***************************************************************************)
EXTENDS CoapMessage

CONSTANTS
  Addr,           \* device addresses, the keys of connMap
  Conn,           \* the Conns (and sockets) that can ever be allocated
  None,           \* neither of them
  MaxDatagrams,   \* bound: datagrams read from the listener
  MaxReplies      \* bound: datagrams the server sends

ASSUME CoapUDPAssumption ==
  /\ None \notin Addr
  /\ None \notin Conn
  /\ MaxDatagrams \in Nat
  /\ MaxReplies \in Nat

NoMessage == [kind |-> "none"]
Message == [kind : CoapKind, from : Addr]

VARIABLES
  loop,         \* where proxyUDP is
  msg,          \* the datagram in its buffer
  handling,     \* what handleCoAPMessage made of it
  cur,          \* the Conn newConn returned for it
  connMap,      \* the Conn of each address, under the mutex
  clientAddr,   \* Conn.clientAddr
  sock,         \* Conn.serverConn: never dialed, open, or closed
  started,      \* Conn.started
  reader,       \* where the downUDP goroutine of each Conn is
  inbuf,        \* datagrams waiting in each server socket: whom they answer
  hand,         \* the one each reader has in hand
  listening,    \* is the listener open?
  cancelled,    \* is the context of Listen cancelled?
  forwarded,    \* history: the senders of the datagrams written to each socket
  relayed,      \* history: whom the datagrams relayed to each device answer
  relayFailed,  \* history: did a write to the device fail in this reader?
  nread,        \* history: how many datagrams proxyUDP read
  nreplies      \* history: how many datagrams the server sent

loopVars   == <<loop, msg, handling, cur, nread>>
connVars   == <<connMap, clientAddr, sock>>
readerVars == <<reader, hand, relayed, relayFailed>>
listenVars == <<listening, cancelled>>
netVars    == <<inbuf, nreplies>>
elsewhere  == <<connVars, readerVars, listenVars, forwarded, started, netVars>>
outside    == <<loopVars, listenVars, forwarded, started>>    \* of a reader
vars == <<loopVars, elsewhere>>

LoopPc == {"read", "route", "handle", "answer", "forward", "start", "stopped"}
ReaderPc == {"none", "deadline", "wait", "relay", "close", "dead"}

TypeOK ==
  /\ loop \in LoopPc
  /\ msg \in Message \cup {NoMessage}
  /\ handling \in Handling
  /\ cur \in Conn \cup {None}
  /\ connMap \in [Addr -> Conn \cup {None}]
  /\ clientAddr \in [Conn -> Addr \cup {None}]
  /\ sock \in [Conn -> {"none", "open", "closed"}]
  /\ started \in [Conn -> BOOLEAN]
  /\ reader \in [Conn -> ReaderPc]
  /\ inbuf \in [Conn -> Seq(Addr)]
  /\ hand \in [Conn -> Addr \cup {None}]
  /\ listening \in BOOLEAN
  /\ cancelled \in BOOLEAN
  /\ forwarded \in [Conn -> SUBSET Addr]
  /\ relayed \in [Addr -> SUBSET Addr]
  /\ relayFailed \in [Conn -> BOOLEAN]
  /\ nread \in Nat
  /\ nreplies \in Nat

Init ==
  /\ loop = "read"
  /\ msg = NoMessage
  /\ handling = Unhandled
  /\ cur = None
  /\ connMap = [a \in Addr |-> None]
  /\ clientAddr = [c \in Conn |-> None]
  /\ sock = [c \in Conn |-> "none"]
  /\ started = [c \in Conn |-> FALSE]
  /\ reader = [c \in Conn |-> "none"]
  /\ inbuf = [c \in Conn |-> << >>]
  /\ hand = [c \in Conn |-> None]
  /\ listening = TRUE
  /\ cancelled = FALSE
  /\ forwarded = [c \in Conn |-> {}]
  /\ relayed = [a \in Addr |-> {}]
  /\ relayFailed = [c \in Conn |-> FALSE]
  /\ nread = 0
  /\ nreplies = 0

-----------------------------------------------------------------------------
(* proxyUDP                                                                *)

LoopGoto(from, to) == loop = from /\ loop' = to

(* The next datagram overwrites the buffer and the locals of this one. *)
NextDatagram(from) ==
  /\ LoopGoto(from, "read")
  /\ msg' = NoMessage /\ handling' = Unhandled /\ cur' = None

(* ctx.Done() at the top of the loop, or an error of ReadFromUDP, closed   *)
(* listener or not: the loop is over for all devices.                      *)
StopReading ==
  /\ LoopGoto("read", "stopped")
  /\ UNCHANGED <<msg, handling, cur, nread, elsewhere>>

ReadFromUDP ==
  /\ LoopGoto("read", "route")
  /\ listening
  /\ nread < MaxDatagrams
  /\ nread' = nread + 1
  /\ msg' \in Message
  /\ UNCHANGED <<handling, cur, elsewhere>>

(* newConn, one critical section of the mutex.                             *)
FindConn ==
  /\ LoopGoto("route", "handle")
  /\ connMap[msg.from] # None
  /\ cur' = connMap[msg.from]
  /\ UNCHANGED <<msg, handling, nread, elsewhere>>

(* Mutated DialConn: any open socket to the server will do.                *)
DialShared ==
  /\ LoopGoto("route", "handle")
  /\ connMap[msg.from] = None
  /\ \E c \in Conn :
        /\ sock[c] # "closed"
        /\ cur' = c
        /\ connMap' = [connMap EXCEPT ![msg.from] = c]
        /\ clientAddr' = [clientAddr EXCEPT ![c] = IF @ = None THEN msg.from ELSE @]
        /\ sock' = [sock EXCEPT ![c] = "open"]
  /\ UNCHANGED <<msg, handling, nread, readerVars, listenVars, forwarded,
                 started, netVars>>


DialConn ==
  /\ LoopGoto("route", "handle")
  /\ connMap[msg.from] = None
  /\ \E c \in Conn :
        /\ sock[c] = "none"
        /\ cur' = c
        /\ connMap' = [connMap EXCEPT ![msg.from] = c]
        /\ clientAddr' = [clientAddr EXCEPT ![c] = msg.from]
        /\ sock' = [sock EXCEPT ![c] = "open"]
  /\ UNCHANGED <<msg, handling, nread, readerVars, listenVars, forwarded,
                 started, netVars>>

(* Resolving or dialing the server fails: the datagram is dropped.         *)
DialFails ==
  /\ NextDatagram("route")
  /\ connMap[msg.from] = None
  /\ UNCHANGED <<nread, elsewhere>>

(* Mutated HandleCoAPMessage: the error of a hook is ignored.              *)
HandleIgnoringErrors ==
  /\ LoopGoto("handle", "forward")
  /\ handling' \in Handlings(msg.kind)
  /\ UNCHANGED <<msg, cur, nread, connVars, readerVars, listenVars,
                 forwarded, started, netVars>>

(* upUDP: the hooks run; any of them may fail.                             *)
HandleCoAPMessage ==
  /\ loop = "handle"
  /\ handling' \in Handlings(msg.kind)
  /\ loop' = IF handling'.ok THEN "forward" ELSE "answer"
  /\ UNCHANGED <<msg, cur, nread, connVars, readerVars, listenVars,
                 forwarded, started, netVars>>

(* The error response goes to the device; whether it can be encoded and    *)
(* written makes no difference to the proxy.                               *)
AnswerError ==
  /\ NextDatagram("answer")
  /\ UNCHANGED <<nread, elsewhere>>

ForwardUp ==
  /\ LoopGoto("forward", "start")
  /\ sock[cur] = "open"
  /\ forwarded' = [forwarded EXCEPT ![cur] = @ \cup {msg.from}]
  /\ UNCHANGED <<msg, handling, cur, nread, connVars, readerVars, listenVars,
                 started, netVars>>

(* Mutated ForwardFails: a failed write closes the Conn as well.           *)
ForwardFailsAndCloses ==
  /\ NextDatagram("forward")
  /\ connMap' = [connMap EXCEPT ![clientAddr[cur]] = None]
  /\ sock' = [sock EXCEPT ![cur] = "closed"]
  /\ UNCHANGED <<nread, clientAddr, readerVars, listenVars,
                 forwarded, started, netVars>>

(* The reader closed the socket, or the write fails for any other reason.  *)
ForwardFails ==
  /\ NextDatagram("forward")
  /\ UNCHANGED <<nread, elsewhere>>

StartReader ==
  /\ NextDatagram("start")
  /\ started' = [started EXCEPT ![cur] = TRUE]
  /\ reader' = IF started[cur] THEN reader
               ELSE [reader EXCEPT ![cur] = "deadline"]
  /\ UNCHANGED <<nread, connVars, hand, relayed,
                 relayFailed, listenVars, forwarded, netVars>>

-----------------------------------------------------------------------------
(* downUDP; its context is context.Background(), which is never cancelled. *)

ReaderGoto(c, from, to) ==
  reader[c] = from /\ reader' = [reader EXCEPT ![c] = to]

SetReadDeadline(c) ==
  /\ ReaderGoto(c, "deadline", IF sock[c] = "open" THEN "wait" ELSE "dead")
  /\ UNCHANGED <<outside, connVars, netVars, hand, relayed, relayFailed>>

ReadReply(c) ==
  /\ ReaderGoto(c, "wait", "relay")
  /\ inbuf[c] # << >>
  /\ hand' = [hand EXCEPT ![c] = Head(inbuf[c])]
  /\ inbuf' = [inbuf EXCEPT ![c] = Tail(@)]
  /\ UNCHANGED <<outside, connVars, relayed, relayFailed, nreplies>>

(* Mutated ReadTimesOut: the error of the read is ignored.                 *)
ReadTimesOutIgnored(c) ==
  /\ ReaderGoto(c, "wait", "relay")
  /\ inbuf[c] = << >>
  /\ UNCHANGED <<outside, connVars, netVars, hand, relayed, relayFailed>>

(* Mutated ReadTimesOut: the reader returns without closeConn.             *)
ReadTimesOutQuietly(c) ==
  /\ ReaderGoto(c, "wait", "dead")
  /\ inbuf[c] = << >>
  /\ UNCHANGED <<outside, connVars, netVars, hand, relayed, relayFailed>>

(* 30 seconds of silence. *)
ReadTimesOut(c) ==
  /\ ReaderGoto(c, "wait", "close")
  /\ inbuf[c] = << >>
  /\ UNCHANGED <<outside, connVars, netVars, hand, relayed, relayFailed>>

(* The server's host refused a datagram of this socket. *)
ReadRefused(c) ==
  /\ ReaderGoto(c, "wait", "close")
  /\ UNCHANGED <<outside, connVars, netVars, hand, relayed, relayFailed>>

WriteToDevice(c) ==
  /\ ReaderGoto(c, "relay", "deadline")
  /\ listening
  /\ relayed' = [relayed EXCEPT ![clientAddr[c]] = @ \cup {hand[c]}]
  /\ UNCHANGED <<outside, connVars, netVars, hand, relayFailed>>

(* The listener is closed, or the device cannot be reached. *)
WriteToDeviceFails(c) ==
  /\ ReaderGoto(c, "relay", "dead")
  /\ relayFailed' = [relayFailed EXCEPT ![c] = TRUE]
  /\ UNCHANGED <<outside, connVars, netVars, hand, relayed>>

(* closeConn, one critical section of the mutex. *)
CloseConn(c) ==
  /\ ReaderGoto(c, "close", "dead")
  /\ connMap' = [connMap EXCEPT ![clientAddr[c]] = None]
  /\ sock' = [sock EXCEPT ![c] = "closed"]
  /\ UNCHANGED <<outside, clientAddr, netVars, hand, relayed, relayFailed>>

-----------------------------------------------------------------------------
(* The server, and Listen.                                                 *)

ServerReplies(c) ==
  /\ sock[c] = "open"
  /\ nreplies < MaxReplies
  /\ nreplies' = nreplies + 1
  /\ \E a \in forwarded[c] : inbuf' = [inbuf EXCEPT ![c] = Append(@, a)]
  /\ UNCHANGED <<outside, connVars, readerVars>>

Cancel ==
  /\ ~cancelled
  /\ cancelled' = TRUE
  /\ UNCHANGED <<loopVars, connVars, readerVars, listening, forwarded, started,
                 netVars>>

CloseListener ==
  /\ cancelled /\ listening
  /\ listening' = FALSE
  /\ UNCHANGED <<loopVars, connVars, readerVars, cancelled, forwarded, started,
                 netVars>>

-----------------------------------------------------------------------------
LoopStep ==
  \/ ReadFromUDP \/ StopReading \/ FindConn \/ DialConn \/ DialFails
  \/ HandleCoAPMessage \/ AnswerError \/ ForwardUp \/ ForwardFails \/ StartReader

ReaderStep(c) ==
  \/ SetReadDeadline(c) \/ ReadReply(c) \/ ReadTimesOut(c) \/ ReadRefused(c)
  \/ WriteToDevice(c) \/ WriteToDeviceFails(c) \/ CloseConn(c)

Next ==
  \/ LoopStep
  \/ \E c \in Conn : ReaderStep(c) \/ ServerReplies(c)
  \/ Cancel \/ CloseListener

Spec == Init /\ [][Next]_vars

(* Every goroutine that can run is eventually scheduled and every hook     *)
(* returns; the read deadline of a reader makes it stop waiting.           *)
FairSpec == Spec /\ WF_vars(LoopStep) /\ \A c \in Conn : WF_vars(ReaderStep(c))

-----------------------------------------------------------------------------
(* What the proxy promises.                                                *)

(* connMap and the sockets agree: an entry is the open socket dialed for   *)
(* that very address, and no open socket is missing from the map, so none  *)
(* leaks when its reader closes it while proxyUDP still holds it.          *)
MapCoherent ==
  /\ \A a \in Addr : connMap[a] # None =>
        sock[connMap[a]] = "open" /\ clientAddr[connMap[a]] = a
  /\ \A c \in Conn : sock[c] = "open" =>
        clientAddr[c] \in Addr /\ connMap[clientAddr[c]] = c

(* Devices are not mixed up: a server socket carries the datagrams of one  *)
(* device only, and a device is handed answers to its own datagrams only.  *)
RelayedToOwner ==
  /\ \A c \in Conn : forwarded[c] \subseteq {clientAddr[c]}
  /\ \A a \in Addr : relayed[a] \subseteq {a}

Reading == {"deadline", "wait", "relay", "close"}

(* An open socket that has carried a datagram to the server has a reader,  *)
(* or upUDP is just about to start it, unless that reader gave up on a     *)
(* failed write to the device (downUDP then returns without closeConn).    *)
ReaderServes ==
  \A c \in Conn :
     sock[c] = "open" /\ forwarded[c] # {} =>
        \/ reader[c] \in Reading
        \/ loop = "start" /\ cur = c
        \/ relayFailed[c]

(* upUDP forwards a datagram only after handleCoAPMessage parsed it and    *)
(* called, without an error, the hooks that authorize its kind.            *)
ForwardedIfApproved ==
  loop \in {"forward", "start"} =>
     /\ msg.kind # "MALFORMED" /\ handling.ok
     /\ \A h \in Required(msg.kind) :
           \E i \in 1..Len(handling.called) : handling.called[i] = h

(* Once the server falls silent (it sends finitely many datagrams), every  *)
(* socket with a reader is closed and leaves the map, a cancelled Listen   *)
(* included, unless a write to the device failed.                          *)
SilentConnReclaimed ==
  \A c \in Conn :
     reader[c] \in Reading ~>
        \/ sock[c] = "closed" /\ \A a \in Addr : connMap[a] # c
        \/ relayFailed[c]

(* A socket that carried a datagram to the server has a reader, or is just *)
(* getting one.                                                            *)
AlwaysAReader ==
  \A c \in Conn :
     listening /\ sock[c] = "open" /\ forwarded[c] # {} =>
        reader[c] \in Reading \/ (loop = "start" /\ cur = c)
=============================================================================
