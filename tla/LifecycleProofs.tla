--------------------------- MODULE LifecycleProofs ---------------------------
(***************************************************************************)
(* The safety properties of Lifecycle, for any number of servers of any    *)
(* kind.  The invariant ties the goroutines of a Listen to its phase, and  *)
(* says why each of them has ended.                                        *)
(***************************************************************************)
EXTENDS Lifecycle, TLAPS

(* The listener and the two goroutines follow the phase of their Listen;   *)
(* only the closing goroutine closes the listener, and only when told to;  *)
(* the servers main has not come to yet do not listen.                     *)
PhaseInv ==
  \A s \in Server :
     /\ listen[s] \in {"none", "bind"} =>
           listener[s] = "none" /\ taker[s] = "none" /\ closer[s] = "none"
     /\ s >= next => listen[s] = "none"
     /\ listen[s] = "done" => closer[s] # "wait" /\ taker[s] \in {"none", "done"}
     /\ closer[s] = "wait" <=> listener[s] = "open"
     /\ closer[s] = "done" <=> listener[s] = "closed"
     /\ closer[s] = "done" => Done(s)
     /\ taker[s] = "done" => Done(s) \/ s \in readFailed

(* Only sessions of a DTLS listener keep a port bound that nobody listens  *)
(* on.                                                                     *)
PortInv ==
  \A s \in Server :
     /\ live[s] > 0 => Loop[s] = "dtls" /\ listener[s] # "none"
     /\ port[s] <=> listener[s] = "open" \/ live[s] > 0

LifeInv ==
  /\ TypeOK
  /\ PhaseInv
  /\ PortInv
  /\ StoppedForReason
  /\ main = "done" => \A s \in Server : listen[s] = "done"

USE DEF sockVars, Close, DeferredClose

LEMMA LifeInit == Init => LifeInv
<1> SUFFICES ASSUME Init PROVE LifeInv
  OBVIOUS
<1> USE DEF Init
<1>1. TypeOK
  <2>1. next \in 1..(N + 1)
    BY LifecycleAssumption DEF LifecycleAssumption
  <2> QED BY <2>1 DEF TypeOK
<1>2. PhaseInv /\ PortInv
  BY DEF PhaseInv, PortInv, Done
<1> QED BY <1>1, <1>2 DEF LifeInv, StoppedForReason

LEMMA TypeStep == TypeOK /\ [Next]_vars => TypeOK'
<1> SUFFICES ASSUME TypeOK, [Next]_vars PROVE TypeOK'
  OBVIOUS
<1> USE LifecycleAssumption DEF LifecycleAssumption, TypeOK
<1> USE DEF procVars, listenVars, takerVars
<1>1. CASE StartServer
  <2>1. next' \in 1..(N + 1) /\ next \in Server
    BY <1>1 DEF StartServer, Server
  <2> QED BY <1>1, <2>1 DEF StartServer
<1>2. CASE StartSignalHandler \/ WaitReturns \/ Panic \/ Signal
  BY <1>2 DEF StartSignalHandler, WaitReturns, Panic, Signal
<1>3. CASE HandlerStep
  BY <1>3 DEF HandlerStep, RegisterSignals, StopSignalHandler
<1>4. ASSUME NEW s \in Server, ListenStep(s) \/ CloseListener(s)
      PROVE  TypeOK'
  <2>1. CASE Bind(s)
    BY <2>1 DEF Bind
  <2>2. CASE BindFails(s)
    BY <2>2 DEF BindFails
  <2>3. CASE ListenReturns(s) \/ CloseListener(s)
    BY <2>3 DEF ListenReturns, CloseListener
  <2> QED BY <1>4, <2>1, <2>2, <2>3 DEF ListenStep
<1>5. ASSUME NEW s \in Server, TakerStep(s) \/ Environment(s)
      PROVE  TypeOK'
  <2> USE DEF TakerGoto, AfterError
  <2>1. CASE CheckDone(s) \/ TakeClient(s)
    BY <2>1 DEF CheckDone, TakeClient
  <2>2. CASE HandOn(s)
    BY <2>2 DEF HandOn
  <2>3. CASE TakeClosed(s)
    BY <2>3 DEF TakeClosed
  <2>4. CASE TakeFails(s)
    BY <2>4 DEF TakeFails
  <2>5. CASE EndSession(s)
    BY <2>5 DEF EndSession
  <2> QED BY <1>5, <2>1, <2>2, <2>3, <2>4, <2>5 DEF TakerStep, Environment
<1>6. CASE UNCHANGED vars
  BY <1>6 DEF vars
<1> QED BY <1>1, <1>2, <1>3, <1>4, <1>5, <1>6 DEF Next, MainStep

LEMMA PhaseStep == TypeOK /\ PhaseInv /\ [Next]_vars => PhaseInv'
<1> SUFFICES ASSUME TypeOK, PhaseInv, [Next]_vars PROVE PhaseInv'
  OBVIOUS
<1> USE DEF TypeOK, PhaseInv, Done
<1>1. CASE StartServer
  <2>1. next \in Server /\ next' = next + 1 /\ next \in Nat
    BY <1>1, LifecycleAssumption DEF StartServer, Server, LifecycleAssumption
  <2>2. \A s \in Server : s >= next' => s >= next /\ s # next
    BY <2>1 DEF Server
  <2>3. /\ listen[next] = "none"
        /\ listen' = [listen EXCEPT ![next] = "bind"]
        /\ UNCHANGED <<cancelled, closer, listener, taker, failed, readFailed>>
    BY <1>1, <2>1 DEF StartServer, takerVars
  <2> QED BY <2>1, <2>2, <2>3
<1>2. CASE StartSignalHandler \/ WaitReturns \/ HandlerStep \/ Panic \/ Signal
  BY <1>2 DEF StartSignalHandler, WaitReturns, HandlerStep, RegisterSignals,
              StopSignalHandler, Panic, Signal, listenVars, takerVars
<1>3. ASSUME NEW s \in Server, ListenStep(s) \/ CloseListener(s)
      PROVE  PhaseInv'
  <2> USE DEF procVars, takerVars
  <2>1. CASE Bind(s)
    BY <2>1 DEF Bind
  <2>2. CASE BindFails(s)
    BY <2>2 DEF BindFails
  <2>3. CASE ListenReturns(s)
    BY <2>3 DEF ListenReturns
  <2>4. CASE CloseListener(s)
    BY <2>4 DEF CloseListener
  <2> QED BY <1>3, <2>1, <2>2, <2>3, <2>4 DEF ListenStep
<1>4. ASSUME NEW s \in Server, TakerStep(s) \/ Environment(s)
      PROVE  PhaseInv'
  <2> USE DEF procVars, listenVars, TakerGoto
  <2>1. CASE CheckDone(s)
    BY <2>1 DEF CheckDone
  <2>2. CASE HandOn(s) \/ TakeClient(s) \/ EndSession(s)
    BY <2>2 DEF HandOn, TakeClient, EndSession
  <2>3. CASE TakeClosed(s)
    BY <2>3 DEF TakeClosed, AfterError
  <2>4. CASE TakeFails(s)
    <3>1. /\ UNCHANGED <<next, cancelled, listen, closer, listener>>
          /\ readFailed \subseteq readFailed'
          /\ Loop[s] = "udp" => s \in readFailed'
          /\ \A r \in Server : r # s => taker'[r] = taker[r] /\ failed'[r] = failed[r]
          /\ taker[s] = "take" /\ (failed[s] => failed'[s])
      BY <2>4 DEF TakeFails, AfterError
    <3>2. taker'[s] = "done" => failed'[s] \/ Loop[s] = "udp"
      <4>1. CASE Loop[s] = "udp"
        BY <4>1
      <4>2. CASE Loop[s] \in {"accept", "dtls"}
        BY <2>4, <4>2 DEF TakeFails, AfterError
      <4>3. CASE Loop[s] = "serve"
        BY <2>4, <4>3 DEF TakeFails, AfterError
      <4> QED BY <4>1, <4>2, <4>3, LifecycleAssumption DEF LifecycleAssumption
    <3> QED BY <3>1, <3>2
  <2> QED BY <1>4, <2>1, <2>2, <2>3, <2>4 DEF TakerStep, Environment
<1>5. CASE UNCHANGED vars
  BY <1>5 DEF vars, procVars, listenVars, takerVars
<1> QED BY <1>1, <1>2, <1>3, <1>4, <1>5 DEF Next, MainStep

LEMMA PortStep == TypeOK /\ PhaseInv /\ PortInv /\ [Next]_vars => PortInv'
<1> SUFFICES ASSUME TypeOK, PhaseInv, PortInv, [Next]_vars PROVE PortInv'
  OBVIOUS
<1> USE DEF TypeOK, PhaseInv, PortInv
<1>1. CASE UNCHANGED <<listener, port, live>>
  BY <1>1
<1>2. ASSUME NEW s \in Server, Bind(s) \/ ListenReturns(s) \/ CloseListener(s)
      PROVE  PortInv'
  <2>1. CASE Bind(s)
    BY <2>1 DEF Bind
  <2>2. CASE ListenReturns(s)
    BY <2>2 DEF ListenReturns, takerVars
  <2>3. CASE CloseListener(s)
    BY <2>3 DEF CloseListener, takerVars
  <2> QED BY <1>2, <2>1, <2>2, <2>3
<1>3. ASSUME NEW s \in Server, TakeClient(s) \/ EndSession(s)
      PROVE  PortInv'
  <2>1. CASE TakeClient(s)
    BY <2>1 DEF TakeClient, listenVars
  <2>2. CASE EndSession(s)
    <3>1. /\ live' = [live EXCEPT ![s] = live[s] - 1]
          /\ live[s] \in Nat /\ live[s] > 0
          /\ listener' = listener
      BY <2>2 DEF EndSession
    <3>2. port'[s] <=> listener[s] = "open" \/ live[s] > 1
      BY <2>2 DEF EndSession
    <3>3. \A r \in Server : r # s => (port'[r] <=> port[r]) /\ live'[r] = live[r]
      BY <2>2 DEF EndSession
    <3>4. live'[s] > 0 <=> live[s] > 1
      BY <3>1
    <3> QED BY <3>1, <3>2, <3>3, <3>4
  <2> QED BY <1>3, <2>1, <2>2
<1> QED
  BY <1>1, <1>2, <1>3
     DEF Next, MainStep, StartServer, StartSignalHandler, WaitReturns, HandlerStep,
         RegisterSignals, StopSignalHandler, Panic, Signal, ListenStep, BindFails,
         TakerStep, CheckDone, HandOn, TakeClosed, Environment, TakeFails,
         vars, listenVars, takerVars

LEMMA LifeAlways == Spec => []LifeInv
<1>1. LifeInv /\ [Next]_vars => StoppedForReason'
  BY DEF LifeInv, TypeOK, StoppedForReason, Next, MainStep, StartServer,
         StartSignalHandler, WaitReturns, HandlerStep, RegisterSignals,
         StopSignalHandler, Panic, Signal, ListenStep, Bind, BindFails,
         ListenReturns, CloseListener, TakerStep, CheckDone, HandOn, TakeClosed,
         Environment, TakeClient, TakeFails, EndSession, vars, procVars, listenVars, takerVars
<1>2. LifeInv /\ [Next]_vars => (main' = "done" => \A s \in Server : listen'[s] = "done")
  BY DEF LifeInv, TypeOK, Running, Next, MainStep, StartServer,
         StartSignalHandler, WaitReturns, HandlerStep, RegisterSignals,
         StopSignalHandler, Panic, Signal, ListenStep, Bind, BindFails,
         ListenReturns, CloseListener, TakerStep, CheckDone, HandOn, TakeClosed,
         Environment, TakeClient, TakeFails, EndSession, AfterError, TakerGoto,
         vars, procVars, listenVars, takerVars
<1>3. LifeInv /\ [Next]_vars => LifeInv'
  BY <1>1, <1>2, TypeStep, PhaseStep, PortStep DEF LifeInv
<1> QED BY <1>3, LifeInit, PTL DEF Spec

(* The variables of the process keep their types, however many servers     *)
(* main starts.                                                            *)
THEOREM TypeCorrect == Spec => []TypeOK
<1>1. LifeInv => TypeOK
  BY DEF LifeInv
<1> QED BY <1>1, LifeAlways, PTL

(* Only a signal or a failed bind makes the servers stop.                  *)
THEOREM Independence == Spec => []StoppedForReason
<1>1. LifeInv => StoppedForReason
  BY DEF LifeInv
<1> QED BY <1>1, LifeAlways, PTL

(* A Listen that returned left no goroutine of its own, and a port bound   *)
(* only for CoAP over DTLS, while a session of it lives.                   *)
THEOREM Release == Spec => []PortsReleased
<1>1. LifeInv => PortsReleased
  BY DEF LifeInv, PhaseInv, PortInv, PortsReleased
<1> QED BY <1>1, LifeAlways, PTL

(* An open port is served unless its server is being stopped, or is plain  *)
(* CoAP and had a failing read.                                            *)
THEOREM Service == Spec => []OpenPortServed
<1>1. LifeInv => OpenPortServed
  BY DEF LifeInv, PhaseInv, OpenPortServed
<1> QED BY <1>1, LifeAlways, PTL

(* No client is handed on after its Listen returned.                       *)
THEOREM Draining == Spec => ServedWhileListening
<1> DEFINE A == \A s \in Server : served'[s] # served[s] => listen'[s] = "wait"
<1>1. LifeInv /\ [Next]_vars => [A]_vars
  <2> SUFFICES ASSUME LifeInv, Next PROVE A
    OBVIOUS
  <2>1. CASE \E s \in Server : HandOn(s)
    <3>1. PICK s \in Server : HandOn(s)
      BY <2>1
    <3>2. listen[s] = "wait" /\ listen' = listen
      BY <3>1 DEF HandOn, TakerGoto, LifeInv, PhaseInv, TypeOK, listenVars
    <3>3. \A r \in Server : r # s => served'[r] = served[r]
      BY <3>1 DEF HandOn, LifeInv, TypeOK
    <3> QED BY <3>2, <3>3
  <2>2. CASE UNCHANGED served
    BY <2>2
  <2> QED
    BY <2>1, <2>2
       DEF Next, MainStep, StartServer, StartSignalHandler, WaitReturns,
           HandlerStep, RegisterSignals, StopSignalHandler, Panic, Signal,
           ListenStep, Bind, BindFails, ListenReturns, CloseListener, TakerStep,
           CheckDone, TakeClosed, Environment, TakeClient, TakeFails, EndSession, takerVars
<1> QED BY <1>1, LifeAlways, PTL DEF Spec, ServedWhileListening

(* How many steps the taking goroutine of a server is from its end at most *)
(* once its listener is closed: p.accept comes by its select once more     *)
(* after the error, http.Server has no select and ends on the error.       *)
Distance(s) ==
  CASE taker[s] = "hand" -> 3
    [] taker[s] = "take" -> IF Loop[s] = "serve" THEN 1 ELSE 2
    [] taker[s] = "top" -> IF Loop[s] = "serve" THEN 2 ELSE 1
    [] taker[s] \in {"none", "done"} -> 0

(* The taking of clients, and the failure of it.                           *)
Accepting(s) == TakeClient(s) \/ TakeFails(s)

(* A listener closes for good, and then every step of the loop that took   *)
(* clients off it brings the loop nearer to its end, the loops included    *)
(* that retry a failing Accept for ever.                                   *)
WindsDown ==
  [][\A s \in Server : listener[s] = "closed" =>
        /\ listener'[s] = "closed"
        /\ TakerStep(s) \/ Accepting(s) => Distance(s)' < Distance(s)]_vars

LEMMA Nearer ==
  ASSUME LifeInv, NEW s \in Server, listener[s] = "closed", TakerStep(s) \/ Accepting(s)
  PROVE  Distance(s)' < Distance(s)
<1>0. /\ Done(s) /\ taker \in [Server -> {"none", "top", "take", "hand", "done"}]
      /\ Loop[s] \in {"accept", "dtls", "serve", "udp"}
  BY LifecycleAssumption DEF LifeInv, TypeOK, PhaseInv, LifecycleAssumption
<1>1. CASE CheckDone(s)
  BY <1>0, <1>1 DEF CheckDone, TakerGoto, Distance
<1>2. CASE HandOn(s)
  BY <1>0, <1>2 DEF HandOn, TakerGoto, Distance
<1>3. CASE TakeClosed(s)
  BY <1>0, <1>3 DEF TakeClosed, AfterError, TakerGoto, Distance
<1>4. ~TakeClient(s) /\ ~TakeFails(s)
  BY DEF TakeClient, TakeFails
<1> QED BY <1>1, <1>2, <1>3, <1>4 DEF TakerStep, Accepting

LEMMA StaysClosed ==
  ASSUME LifeInv, [Next]_vars, NEW s \in Server, listener[s] = "closed"
  PROVE  listener'[s] = "closed"
<1>1. ASSUME NEW r \in Server, Bind(r)
      PROVE  listener'[s] = "closed"
  BY <1>1 DEF Bind, LifeInv, TypeOK, PhaseInv
<1>2. ASSUME NEW r \in Server, ListenReturns(r) \/ CloseListener(r)
      PROVE  listener'[s] = "closed"
  BY <1>2 DEF ListenReturns, CloseListener, LifeInv, TypeOK
<1> QED
  BY <1>1, <1>2
     DEF Next, MainStep, StartServer, StartSignalHandler, WaitReturns, HandlerStep,
         RegisterSignals, StopSignalHandler, Panic, Signal, ListenStep, BindFails,
         TakerStep, CheckDone, HandOn, TakeClosed, Environment, TakeClient, TakeFails, EndSession,
         vars, listenVars

(* The safety half of ShutdownCompletes, for any number of servers: from   *)
(* the close of its listener each loop takes at most three steps.          *)
THEOREM WindingDown == Spec => WindsDown
<1>1. LifeInv /\ [Next]_vars
        => [\A s \in Server : listener[s] = "closed" =>
              /\ listener'[s] = "closed"
              /\ TakerStep(s) \/ Accepting(s) => Distance(s)' < Distance(s)]_vars
  BY Nearer, StaysClosed
<1> QED BY <1>1, LifeAlways, PTL DEF Spec, WindsDown
=============================================================================
